-------------------------- MODULE PathMatcherProofs -------------------------
(***************************************************************************)
(* Proofs of the safety properties of PathMatcher, for every address       *)
(* space, every pattern and every start index.                             *)
(***************************************************************************)
EXTENDS MatcherRefinement, CountingLemmas, SequenceTheorems, TLAPS

-----------------------------------------------------------------------------
(* Browsing stays in the reference list, and what it finds are elements.   *)
LEMMA BrowseInSpace ==
  ASSUME NEW sp, NEW n, NEW dir, NEW asked, NEW mask
  PROVE  Browse(sp, n, dir, asked, mask) \subseteq DOMAIN sp.refs
BY DEF Browse, Fitting

LEMMA CandidatesInSpace ==
  ASSUME NEW sp, NEW p, NEW n, NEW pos
  PROVE  Candidates(sp, p, n, pos) \subseteq DOMAIN sp.refs
BY BrowseInSpace DEF Candidates, First

LEMMA TargetIsElement ==
  ASSUME NEW sp \in Space, NEW i \in DOMAIN sp.refs
  PROVE  Target(sp, i) \in Element
<1>1. sp.refs[i] \in HalfRef
  BY ElementOfSeq, LenProperties DEF Space
<1>2. sp.refs[i].target \in NodeId
  BY <1>1 DEF HalfRef
<1> QED
  BY <1>2 DEF Target, ElementOf, Element, Space

-----------------------------------------------------------------------------
(* The halves of a split path have the lengths checkPath asserts.          *)
LEMMA ReverseNodesLength ==
  ASSUME NEW S, NEW nodes \in Seq(S)
  PROVE  Len(ReverseNodes(nodes)) = Len(nodes)
BY DEF ReverseNodes

SplittablePath(p, k) ==
  /\ p \in Path
  /\ k \in 0..(Size(p) - 1)
  /\ Len(p.relations) = Size(p) - 1

LEMMA PrefixLength ==
  ASSUME NEW S, NEW s \in Seq(S), NEW k \in 0..Len(s)
  PROVE  /\ SubSeq(s, 1, k) \in Seq(S)
         /\ Len(SubSeq(s, 1, k)) = k
         /\ \A i \in 1..k : SubSeq(s, 1, k)[i] = s[i]
<1>1. Len(s) \in Nat /\ \A i \in 1..k : s[i] \in S
  BY ElementOfSeq, LenProperties
<1> QED
  BY <1>1, SubSeqProperties

LEMMA SuffixLength ==
  ASSUME NEW S, NEW s \in Seq(S), NEW k \in 0..Len(s)
  PROVE  Len(SubSeq(s, k + 1, Len(s))) = Len(s) - k
<1>1. Len(s) \in Nat /\ \A i \in (k + 1)..Len(s) : s[i] \in S
  BY ElementOfSeq, LenProperties
<1> QED
  BY <1>1, SubSeqProperties

LEMMA SplittablePathSize ==
  ASSUME NEW p, NEW k, SplittablePath(p, k)
  PROVE  /\ p.nodes \in Seq(Node)
         /\ Size(p) \in Nat
         /\ k \in 0..Size(p)
         /\ k < Size(p)
<1>1. p.nodes \in Seq(Node)
  BY DEF SplittablePath, Path
<1>2. Size(p) \in Nat
  BY <1>1, LenProperties DEF Size
<1> QED
  BY <1>1, <1>2 DEF SplittablePath

LEMMA RightHalfLength ==
  ASSUME NEW p, NEW k, SplittablePath(p, k)
  PROVE  Size(SplitRight(p, k)) = Size(p) - k
BY SplittablePathSize, SuffixLength DEF SplitRight, Size

LEMMA LeftHalfLength ==
  ASSUME NEW p, NEW k, SplittablePath(p, k), k > 0
  PROVE  Size(TransformForLeftToRightTraversal(SplitLeft(p, k))) = k + 1
<1> DEFINE left == SubSeq(p.nodes, 1, k)
<1>1. left \in Seq(Node) /\ Len(left) = k
  BY SplittablePathSize, PrefixLength DEF Size
<1>2. left # <<>>
  <2>1. k \in Nat
    BY SplittablePathSize
  <2> HIDE DEF left
  <2>2. Len(left) # 0
    BY <1>1, <2>1
  <2> QED
    BY <2>2
<1>3. DummyNode \in Node
  BY DEF DummyNode, Node, OptionalId
<1>4. Append(left, DummyNode) \in Seq(Node) /\ Len(Append(left, DummyNode)) = k + 1
  BY <1>1, <1>3, AppendProperties
<1>5. Len(ReverseNodes(Append(left, DummyNode))) = k + 1
  BY <1>4, ReverseNodesLength
<1> QED
  BY <1>2, <1>5 DEF TransformForLeftToRightTraversal, SplitLeft, Invert, Size

-----------------------------------------------------------------------------
(***************************************************************************)
(* What a frame of a check of the half p may look like.  The row is at     *)
(* least as long as the pattern nodes before pos, and a row that is just   *)
(* as long is a chain.  It is longer only after a nested matcher has       *)
(* started too early, and base falls behind pos only after a named node.   *)
(***************************************************************************)
FrameInv(sp, p, f) ==
  /\ f \in FrameType(sp)
  /\ f.pos \in 2..Size(p)
  /\ f.base < f.pos
  /\ Len(f.row) >= f.pos - 1
  /\ f.pending \subseteq Candidates(sp, p, f.row[Len(f.row)].id, f.pos)
  /\ Len(f.row) = f.pos - 1 => Chained(sp, p, f.row)
  /\ ~Misaligned(p) => /\ Len(f.row) = f.pos - 1
                       /\ f.base < f.pos - 1 => ById(p.nodes[f.pos - 1])

LEMMA FirstFrame ==
  ASSUME NEW sp \in Space, NEW p, Size(p) \in Nat, Size(p) >= 2,
         NEW e \in Element
  PROVE  /\ FrameInv(sp, p, Frame(sp, p, 1, 2, <<e>>))
         /\ Frame(sp, p, 1, 2, <<e>>).row[1] = e
<1>1. <<e>> \in Row /\ Len(<<e>>) = 1 /\ <<e>>[1] = e
  BY DEF Row
<1>2. Candidates(sp, p, e.id, 2) \subseteq DOMAIN sp.refs
  BY CandidatesInSpace
<1>3. Chained(sp, p, <<e>>)
  BY <1>1 DEF Chained
<1> DEFINE f == Frame(sp, p, 1, 2, <<e>>)
<1>4. /\ f.base = 1
      /\ f.pos = 2
      /\ f.row = <<e>>
      /\ f.pending = Candidates(sp, p, f.row[Len(f.row)].id, 2)
      /\ f \in FrameType(sp)
  BY <1>1, <1>2 DEF Frame, FrameType
<1>5. Len(f.row) = 1 /\ f.row[1] = e
  BY <1>1, <1>4
<1>6. Chained(sp, p, f.row)
  BY <1>3, <1>4
<1> HIDE DEF f
<1>7. /\ f.pos \in 2..Size(p)
      /\ Len(f.row) = f.pos - 1
      /\ ~(f.base < f.pos - 1)
      /\ f.base < f.pos
  BY <1>4, <1>5
<1>8. FrameInv(sp, p, f)
  <2>1. f.pending \subseteq Candidates(sp, p, f.row[Len(f.row)].id, f.pos)
    BY <1>4
  <2> QED
    BY <1>4, <1>5, <1>6, <1>7, <2>1 DEF FrameInv
<1> QED
  BY <1>5, <1>8 DEF f

(* The element a frame's reference leads to, and the row it makes.         *)
LEMMA FollowedRow ==
  ASSUME NEW sp \in Space, NEW p, Size(p) \in Nat, NEW f,
         FrameInv(sp, p, f), NEW i \in f.pending
  PROVE  /\ Followed(sp, f, i) \in Row
         /\ Len(Followed(sp, f, i)) = Len(f.row) + 1
         /\ Followed(sp, f, i)[1] = f.row[1]
         /\ Len(f.row) = f.pos - 1 => Chained(sp, p, Followed(sp, f, i))
<1> DEFINE row == f.row
           e   == Target(sp, i)
<1>1. row \in Seq(Element) /\ Len(row) \in Nat \ {0} /\ i \in DOMAIN sp.refs
  BY LenProperties DEF FrameInv, FrameType, Row
<1>2. e \in Element
  BY <1>1, TargetIsElement
<1>3. /\ Append(row, e) \in Seq(Element)
      /\ Len(Append(row, e)) = Len(row) + 1
      /\ \A k \in 1..Len(row) : Append(row, e)[k] = row[k]
      /\ Append(row, e)[Len(row) + 1] = e
  BY <1>1, <1>2, AppendProperties
<1>4. ASSUME Len(row) = f.pos - 1
      PROVE  Chained(sp, p, Append(row, e))
  <2> SUFFICES ASSUME NEW k \in 2..(Len(row) + 1)
               PROVE  \E j \in Candidates(sp, p, Append(row, e)[k - 1].id, k) :
                        Append(row, e)[k] = Target(sp, j)
    BY <1>3 DEF Chained
  <2>1. CASE k <= Len(row)
    <3>1. \E j \in Candidates(sp, p, row[k - 1].id, k) : row[k] = Target(sp, j)
      BY <1>1, <1>4, <2>1 DEF FrameInv, Chained
    <3> QED
      BY <1>1, <1>3, <2>1, <3>1
  <2>2. CASE k = Len(row) + 1
    <3>1. i \in Candidates(sp, p, row[Len(row)].id, k)
      BY <1>1, <1>4, <2>2 DEF FrameInv, FrameType
    <3>2. Append(row, e)[k - 1] = row[Len(row)]
      BY <1>1, <1>3, <2>2
    <3> QED
      BY <1>3, <2>2, <3>1, <3>2
  <2> QED
    BY <1>1, <2>1, <2>2
<1> QED
  BY <1>1, <1>3, <1>4 DEF Followed, Row

(* Where the next frame stands in the pattern.                             *)
LEMMA NextPosition ==
  ASSUME NEW sp \in Space, NEW p, Size(p) \in Nat, NEW f,
         FrameInv(sp, p, f)
  PROVE  /\ NextBase(p, f) \in Nat \ {0}
         /\ NextPos(p, f) \in Nat
         /\ NextBase(p, f) < NextPos(p, f)
         /\ 2 <= NextPos(p, f)
         /\ NextPos(p, f) <= f.pos + 1
         /\ Len(f.row) + 1 = NextPos(p, f) - 1 => Len(f.row) = f.pos - 1
         /\ ~Misaligned(p) =>
              /\ NextPos(p, f) = f.pos + 1
              /\ NextBase(p, f) < NextPos(p, f) - 1 => ById(p.nodes[f.pos])
<1>1. /\ f.base \in Nat \ {0}
      /\ f.pos \in Nat
      /\ f.base < f.pos
      /\ 2 <= f.pos
      /\ f.pos <= Size(p)
      /\ Len(f.row) \in Nat
      /\ Len(f.row) >= f.pos - 1
  BY LenProperties DEF FrameInv, FrameType, Row
<1>2. CASE ById(p.nodes[f.pos])
  BY <1>1, <1>2 DEF NextBase, NextPos
<1>3. CASE ~ById(p.nodes[f.pos])
  <2>1. ASSUME ~Misaligned(p) PROVE f.base = f.pos - 1
    <3>1. f.base < f.pos - 1 => ById(p.nodes[f.pos - 1])
      BY <2>1 DEF FrameInv
    <3>2. f.base < f.pos - 1 => f.pos - 1 \in 2..(Size(p) - 1)
      BY <1>1
    <3>3. f.pos - 1 \in 2..(Size(p) - 1) => ~ById(p.nodes[f.pos - 1])
      <4>1. (f.pos - 1) + 1 = f.pos
        BY <1>1
      <4> QED
        BY <1>3, <2>1, <4>1 DEF Misaligned
    <3> QED
      BY <1>1, <3>1, <3>2, <3>3
  <2>2. NextBase(p, f) = f.base + 1 /\ NextPos(p, f) = f.base + 2
    BY <1>3 DEF NextBase, NextPos
  <2>3. /\ NextBase(p, f) \in Nat \ {0}
        /\ NextPos(p, f) \in Nat
        /\ NextBase(p, f) < NextPos(p, f)
        /\ 2 <= NextPos(p, f)
        /\ NextPos(p, f) <= f.pos + 1
        /\ Len(f.row) + 1 = NextPos(p, f) - 1 => Len(f.row) = f.pos - 1
    BY <1>1, <2>2
  <2>4. ASSUME ~Misaligned(p)
        PROVE  NextPos(p, f) = f.pos + 1 /\ ~(NextBase(p, f) < NextPos(p, f) - 1)
    BY <1>1, <2>1, <2>2, <2>4
  <2> QED
    BY <2>3, <2>4
<1> QED
  BY <1>2, <1>3

LEMMA NextFrame ==
  ASSUME NEW sp \in Space, NEW p, Size(p) \in Nat, NEW f,
         FrameInv(sp, p, f), NEW i \in f.pending,
         NextPos(p, f) <= Size(p)
  PROVE  LET g == Frame(sp, p, NextBase(p, f), NextPos(p, f), Followed(sp, f, i))
         IN  FrameInv(sp, p, g) /\ g.row[1] = f.row[1]
<1> DEFINE row  == Followed(sp, f, i)
           base == NextBase(p, f)
           pos  == NextPos(p, f)
           g    == Frame(sp, p, base, pos, row)
<1>1. /\ row \in Row
      /\ Len(row) = Len(f.row) + 1
      /\ row[1] = f.row[1]
      /\ Len(f.row) = f.pos - 1 => Chained(sp, p, row)
  BY FollowedRow
<1>2. /\ base \in Nat \ {0}
      /\ pos \in Nat
      /\ base < pos
      /\ 2 <= pos
      /\ pos <= f.pos + 1
      /\ Len(f.row) + 1 = pos - 1 => Len(f.row) = f.pos - 1
      /\ ~Misaligned(p) => /\ pos = f.pos + 1
                           /\ base < pos - 1 => ById(p.nodes[f.pos])
  BY NextPosition
<1>3. /\ f.pos \in Nat
      /\ Len(f.row) \in Nat
      /\ Len(f.row) >= f.pos - 1
      /\ ~Misaligned(p) => Len(f.row) = f.pos - 1
  BY LenProperties DEF FrameInv, FrameType, Row
<1>4. Candidates(sp, p, row[Len(row)].id, pos) \subseteq DOMAIN sp.refs
  BY CandidatesInSpace
<1>5. /\ g.base = base
      /\ g.pos = pos
      /\ g.row = row
      /\ g.pending = Candidates(sp, p, row[Len(row)].id, pos)
      /\ g \in FrameType(sp)
  BY <1>1, <1>2, <1>4 DEF Frame, FrameType
<1>6. ~Misaligned(p) => pos - 1 = f.pos
  BY <1>2, <1>3
<1> HIDE DEF row, base, pos, g
<1>7. /\ g.pos \in 2..Size(p)
      /\ Len(g.row) >= g.pos - 1
      /\ Len(g.row) = g.pos - 1 => Chained(sp, p, g.row)
      /\ ~Misaligned(p) => /\ Len(g.row) = g.pos - 1
                           /\ g.base < g.pos - 1 => ById(p.nodes[g.pos - 1])
  <2>1. pos \in 2..Size(p)
    BY <1>2 DEF pos
  <2>2. Len(row) >= pos - 1
    BY <1>1, <1>2, <1>3
  <2>3. Len(row) = pos - 1 => Chained(sp, p, row)
    BY <1>1, <1>2
  <2>4. ASSUME ~Misaligned(p)
        PROVE  Len(row) = pos - 1
    BY <2>4, <1>1, <1>2, <1>3
  <2>5. ASSUME ~Misaligned(p), base < pos - 1
        PROVE  ById(p.nodes[pos - 1])
    BY <2>5, <1>2, <1>6
  <2> QED
    BY <1>5, <2>1, <2>2, <2>3, <2>4, <2>5
<1>8. FrameInv(sp, p, g)
  BY <1>2, <1>5, <1>7 DEF FrameInv
<1> QED
  BY <1>1, <1>5, <1>8 DEF g, row, base, pos

(* Taking a reference off a frame keeps the frame as it should be.         *)
LEMMA RestOfFrame ==
  ASSUME NEW sp, NEW p, NEW f, FrameInv(sp, p, f), NEW i
  PROVE  LET g == [f EXCEPT !.pending = @ \ {i}]
         IN  FrameInv(sp, p, g) /\ g.row = f.row
<1> DEFINE g == [f EXCEPT !.pending = @ \ {i}]
<1>1. /\ g.base = f.base
      /\ g.pos = f.pos
      /\ g.row = f.row
      /\ g.pending = f.pending \ {i}
      /\ g \in FrameType(sp)
  BY DEF FrameInv, FrameType
<1> QED
  BY <1>1 DEF FrameInv

(* A row that is accepted is linked; the size of a row is not in question  *)
(* unless the pattern is misaligned.                                       *)
LEMMA AcceptedRow ==
  ASSUME NEW sp \in Space, NEW p, Size(p) \in Nat, NEW f,
         FrameInv(sp, p, f), NEW i \in f.pending,
         NextPos(p, f) > Size(p)
  PROVE  /\ Len(Followed(sp, f, i)) = Size(p) =>
              Linked(sp, p, Followed(sp, f, i))
         /\ ~Misaligned(p) => Len(Followed(sp, f, i)) = Size(p)
<1>1. /\ Len(Followed(sp, f, i)) = Len(f.row) + 1
      /\ Len(f.row) = f.pos - 1 => Chained(sp, p, Followed(sp, f, i))
  BY FollowedRow
<1>2. /\ NextPos(p, f) \in Nat
      /\ NextPos(p, f) <= f.pos + 1
  BY NextPosition
<1>3. /\ f.pos \in 2..Size(p)
      /\ Len(f.row) \in Nat
      /\ ~Misaligned(p) => Len(f.row) = f.pos - 1
  BY LenProperties DEF FrameInv, FrameType, Row
<1>4. f.pos = Size(p)
  BY <1>2, <1>3
<1> QED
  BY <1>1, <1>3, <1>4 DEF Linked

(* A check() begins well, whatever the pattern.                            *)
LEMMA CheckBegins ==
  ASSUME NEW sp \in Space, NEW p, Size(p) \in Nat, Size(p) >= 1,
         NEW e \in Element
  PROVE  /\ CheckFrames(sp, p, e) \in Seq(FrameType(sp))
         /\ \A f \in Range(CheckFrames(sp, p, e)) :
              FrameInv(sp, p, f) /\ f.row[1] = e
         /\ CheckRows(p, e) \in Seq(Row)
         /\ \A row \in Range(CheckRows(p, e)) :
              Linked(sp, p, row) /\ row[1] = e
<1>1. /\ CheckFrames(sp, p, e) \in Seq(FrameType(sp))
      /\ \A f \in Range(CheckFrames(sp, p, e)) : FrameInv(sp, p, f) /\ f.row[1] = e
  <2>1. CASE Size(p) = 1
    BY <2>1 DEF CheckFrames, Range
  <2>2. CASE Size(p) # 1
    <3> DEFINE f == Frame(sp, p, 1, 2, <<e>>)
    <3>0. Size(p) >= 2
      BY <2>2
    <3>1. FrameInv(sp, p, f) /\ f.row[1] = e
      BY <3>0, FirstFrame
    <3>2. CheckFrames(sp, p, e) = <<f>>
      BY <2>2 DEF CheckFrames
    <3>3. f \in FrameType(sp)
      BY <3>1 DEF FrameInv
    <3> HIDE DEF f
    <3>4. <<f>> \in Seq(FrameType(sp)) /\ Range(<<f>>) = {f}
      BY <3>3 DEF Range
    <3> QED
      BY <3>1, <3>2, <3>4
  <2> QED
    BY <2>1, <2>2
<1>2. /\ CheckRows(p, e) \in Seq(Row)
      /\ \A row \in Range(CheckRows(p, e)) : Linked(sp, p, row) /\ row[1] = e
  <2>1. <<e>> \in Row /\ Len(<<e>>) = 1 /\ <<e>>[1] = e
    BY DEF Row
  <2>2. CASE Size(p) = 1 /\ IsMatching(e, p.nodes[1])
    <3> DEFINE row == <<e>>
    <3>1. CheckRows(p, e) = <<row>>
      BY <2>2 DEF CheckRows
    <3>2. Linked(sp, p, row) /\ row \in Row /\ row[1] = e
      BY <2>1, <2>2 DEF Linked, Chained
    <3> HIDE DEF row
    <3>3. row \in Row => Range(<<row>>) = {row} /\ <<row>> \in Seq(Row)
      BY DEF Range
    <3> QED
      BY <3>1, <3>2, <3>3
  <2>3. CASE ~(Size(p) = 1 /\ IsMatching(e, p.nodes[1]))
    <3>1. CheckRows(p, e) = <<>>
      BY <2>3 DEF CheckRows
    <3> QED
      BY <3>1 DEF Range
  <2> QED
    BY <2>2, <2>3
<1> QED
  BY <1>1, <1>2

-----------------------------------------------------------------------------
(* What is in a sequence after the operations the actions use.             *)
LEMMA RangeOfConcat ==
  ASSUME NEW S, NEW s \in Seq(S), NEW t \in Seq(S)
  PROVE  s \o t \in Seq(S) /\ Range(s \o t) \subseteq Range(s) \cup Range(t)
BY ConcatProperties, LenProperties DEF Range

LEMMA RangeOfAppend ==
  ASSUME NEW S, NEW s \in Seq(S), NEW e \in S
  PROVE  Append(s, e) \in Seq(S) /\ Range(Append(s, e)) \subseteq Range(s) \cup {e}
BY AppendProperties, LenProperties DEF Range

LEMMA RangeOfTail ==
  ASSUME NEW S, NEW s \in Seq(S), s # <<>>
  PROVE  /\ Head(s) \in S
         /\ Head(s) \in Range(s)
         /\ Tail(s) \in Seq(S)
         /\ Range(Tail(s)) \subseteq Range(s)
         /\ Len(Tail(s)) = Len(s) - 1
BY HeadTailProperties, LenProperties DEF Range

LEMMA RangeOfInitial ==
  ASSUME NEW S, NEW s \in Seq(S), s # <<>>
  PROVE  /\ SubSeq(s, 1, Len(s) - 1) \in Seq(S)
         /\ Range(SubSeq(s, 1, Len(s) - 1)) \subseteq Range(s)
<1>1. Len(s) \in Nat /\ Len(s) >= 1
  BY EmptySeq, LenProperties
<1> DEFINE n == Len(s) - 1
<1>0. n \in 0..Len(s)
  BY <1>1
<1>2. /\ SubSeq(s, 1, n) \in Seq(S)
      /\ Len(SubSeq(s, 1, n)) = n
      /\ \A k \in 1..n : SubSeq(s, 1, n)[k] = s[k]
  BY <1>0, PrefixLength
<1>3. DOMAIN SubSeq(s, 1, n) = 1..n /\ DOMAIN s = 1..Len(s)
  BY <1>2, LenProperties
<1> QED
  BY <1>1, <1>2, <1>3 DEF Range

LEMMA RangeOfExcept ==
  ASSUME NEW S, NEW s \in Seq(S), NEW i \in 1..Len(s), NEW e \in S
  PROVE  /\ [s EXCEPT ![i] = e] \in Seq(S)
         /\ Range([s EXCEPT ![i] = e]) \subseteq Range(s) \cup {e}
<1>1. /\ [s EXCEPT ![i] = e] \in Seq(S)
      /\ Len([s EXCEPT ![i] = e]) = Len(s)
      /\ \A j \in 1..Len(s) : [s EXCEPT ![i] = e][j] = IF j = i THEN e ELSE s[j]
  BY ExceptSeq
<1>2. DOMAIN [s EXCEPT ![i] = e] = 1..Len(s) /\ DOMAIN s = 1..Len(s)
  BY LenProperties
<1> QED
  BY <1>1, <1>2 DEF Range

LEMMA InRange ==
  ASSUME NEW S, NEW s \in Seq(S)
  PROVE  /\ Range(s) \subseteq S
         /\ \A i \in 1..Len(s) : s[i] \in Range(s)
BY ElementOfSeq, LenProperties DEF Range

-----------------------------------------------------------------------------
(***************************************************************************)
(* The inductive invariant.  HalvesLinked alone says nothing of the rows   *)
(* in the making, RowsComplete nothing of the sizes of the halves, and     *)
(* MergedAtStart needs that the left rows begin where the right ones do.   *)
(***************************************************************************)
Checking == phase \in {"right", "left"}

CheckInv ==
  Checking =>
    /\ starts # <<>>
    /\ \A f \in Range(frames) :
         FrameInv(space, Half, f) /\ f.row[1] = Head(starts)
    /\ \A row \in Range(rows) :
         Linked(space, Half, row) /\ row[1] = Head(starts)

RightsInv ==
  /\ \A row \in Range(rights) :
       Linked(space, Rhs, row) /\ row[1] = Head(starts)
  /\ phase = "left" => rights # <<>> /\ idx > 0

IInv ==
  /\ TypeOK
  /\ SplittablePath(path, idx)
  /\ CheckInv
  /\ RightsInv
  /\ RowsComplete
  /\ MergedAtStart
  /\ AbortsOnlyIfMisaligned

LEMMA HalfSizes ==
  ASSUME SplittablePath(path, idx)
  PROVE  /\ Size(Rhs) \in Nat
         /\ Size(Rhs) >= 1
         /\ Size(Rhs) = Size(path) - idx
         /\ idx > 0 => Size(Lhs) = idx + 1
         /\ idx \in Nat
         /\ Size(path) \in Nat
         /\ phase = "left" /\ idx > 0 => Half = Lhs
         /\ phase = "right" => Half = Rhs
BY SplittablePathSize, RightHalfLength, LeftHalfLength DEF Rhs, Lhs, Half

LEMMA InitIInv == Init => IInv
<1> SUFFICES ASSUME Init PROVE IInv
  OBVIOUS
<1>1. PICK in \in Inputs : /\ space = in.space
                          /\ path = in.path
                          /\ idx = in.idx
                          /\ starts = in.starts
  BY DEF Init
<1>2. /\ space \in Space
      /\ path \in Path
      /\ Len(path.relations) = Size(path) - 1
      /\ idx \in 0..(Size(path) - 1)
      /\ starts \in Seq(Element)
  BY <1>1, InputsAssumption
<1>3. /\ phase = "idle"
      /\ frames = <<>>
      /\ rows = <<>>
      /\ rights = <<>>
      /\ found = <<>>
      /\ results = <<>>
  BY DEF Init
<1>4. Range(<<>>) = {}
  BY DEF Range
<1>5. SplittablePath(path, idx)
  BY <1>2 DEF SplittablePath
<1>6. idx \in Nat
  BY <1>5, HalfSizes
<1>7. TypeOK
  BY <1>2, <1>3, <1>6 DEF TypeOK
<1>8. CheckInv /\ RightsInv /\ AbortsOnlyIfMisaligned
  BY <1>3, <1>4 DEF CheckInv, Checking, RightsInv, AbortsOnlyIfMisaligned
<1>9. RowsComplete /\ MergedAtStart
  BY <1>3, <1>4 DEF RowsComplete, MergedAtStart, Merged
<1> QED
  BY <1>5, <1>7, <1>8, <1>9 DEF IInv

-----------------------------------------------------------------------------
(* No step changes the space, the pattern or what is derived from them.    *)
LEMMA HalvesUnchanged ==
  ASSUME UNCHANGED input
  PROVE  /\ space' = space
         /\ path' = path
         /\ idx' = idx
         /\ Rhs' = Rhs
         /\ Lhs' = Lhs
         /\ phase' = phase => Half' = Half
         /\ phase' = "right" => Half' = Rhs
         /\ phase' = "left" => Half' = Lhs
BY DEF input, Rhs, Lhs, Half

(* What holds of merged rows only depends on what never changes.           *)
LEMMA MergedUnchanged ==
  ASSUME RowsComplete, MergedAtStart, UNCHANGED <<input, found, results>>
  PROVE  RowsComplete' /\ MergedAtStart'
<1>1. UNCHANGED input
  OBVIOUS
<1>2. Merged' = Merged
  BY DEF Merged
<1> QED
  BY <1>1, <1>2, HalvesUnchanged DEF RowsComplete, MergedAtStart

LEMMA RightsUnchanged ==
  ASSUME RightsInv, UNCHANGED <<input, starts, rights>>,
         phase' = "left" => phase = "left"
  PROVE  RightsInv'
<1>1. UNCHANGED input
  OBVIOUS
<1> QED
  BY <1>1, HalvesUnchanged DEF RightsInv

(* The frames that are left when a reference has been taken up.            *)
LEMMA FollowingFrames ==
  ASSUME IInv, NEW i, Following(i)
  PROVE  /\ Checking
         /\ starts # <<>>
         /\ space \in Space
         /\ Size(Half) \in Nat
         /\ FrameInv(space, Half, Top)
         /\ Top.row[1] = Head(starts)
         /\ i \in Top.pending
         /\ Rest(i) \in Seq(FrameType(space))
         /\ \A f \in Range(Rest(i)) :
              FrameInv(space, Half, f) /\ f.row[1] = Head(starts)
<1>1. /\ Checking
      /\ starts # <<>>
      /\ frames # <<>>
      /\ frames \in Seq(FrameType(space))
      /\ space \in Space
      /\ SplittablePath(path, idx)
      /\ \A f \in Range(frames) : FrameInv(space, Half, f) /\ f.row[1] = Head(starts)
  BY DEF IInv, TypeOK, CheckInv, Checking, Following
<1>2. Size(Half) \in Nat
  BY <1>1, HalfSizes DEF IInv, RightsInv, Checking
<1>3. Len(frames) \in 1..Len(frames) /\ Top = frames[Len(frames)]
  BY <1>1, EmptySeq DEF Top
<1>4. Top \in Range(frames)
  BY <1>1, <1>3, InRange
<1>5. i \in Top.pending
  BY DEF Following, First
<1> DEFINE g == [Top EXCEPT !.pending = @ \ {i}]
<1>6. FrameInv(space, Half, g) /\ g.row = Top.row
  BY <1>1, <1>4, RestOfFrame
<1>7. Rest(i) = [frames EXCEPT ![Len(frames)] = g]
  BY <1>3 DEF Rest
<1>8. g \in FrameType(space)
  BY <1>6 DEF FrameInv
<1>9. /\ Rest(i) \in Seq(FrameType(space))
      /\ Range(Rest(i)) \subseteq Range(frames) \cup {g}
  <2> HIDE DEF g
  <2>1. PICK n \in 1..Len(frames) : n = Len(frames)
    BY <1>3
  <2>2. /\ [frames EXCEPT ![n] = g] \in Seq(FrameType(space))
        /\ Range([frames EXCEPT ![n] = g]) \subseteq Range(frames) \cup {g}
    BY <1>1, <1>8, RangeOfExcept
  <2> QED
    BY <1>7, <2>1, <2>2
<1>10. g.row[1] = Head(starts)
  BY <1>1, <1>4, <1>6
<1> HIDE DEF g
<1> QED
  BY <1>1, <1>2, <1>4, <1>5, <1>6, <1>9, <1>10

LEMMA DescendIInv ==
  ASSUME IInv, NEW i, Descend(i)
  PROVE  IInv'
<1> DEFINE g == Frame(space, Half, NextBase(Half, Top), NextPos(Half, Top),
                      Followed(space, Top, i))
<1>1. /\ Following(i)
      /\ NextPos(Half, Top) <= Size(Half)
      /\ frames' = Append(Rest(i), g)
      /\ UNCHANGED <<input, starts, phase, rows, rights, found, results>>
  BY DEF Descend
<1>2. UNCHANGED input
  BY <1>1
<1>3. FrameInv(space, Half, g) /\ g.row[1] = Head(starts)
  BY <1>1, FollowingFrames, NextFrame
<1>4. g \in FrameType(space)
  BY <1>3 DEF FrameInv
<1> HIDE DEF g
<1>5. /\ frames' \in Seq(FrameType(space))
      /\ \A f \in Range(frames') : FrameInv(space, Half, f) /\ f.row[1] = Head(starts)
  BY <1>1, <1>3, <1>4, FollowingFrames, RangeOfAppend
<1>6. TypeOK'
  BY <1>1, <1>2, <1>5, HalvesUnchanged DEF IInv, TypeOK
<1>7. CheckInv'
  BY <1>1, <1>2, <1>5, HalvesUnchanged DEF IInv, CheckInv, Checking
<1>8. RightsInv'
  BY <1>1, RightsUnchanged DEF IInv
<1>9. RowsComplete' /\ MergedAtStart'
  BY <1>1, MergedUnchanged DEF IInv
<1>10. AbortsOnlyIfMisaligned' /\ SplittablePath(path, idx)'
  BY <1>1, <1>2, HalvesUnchanged DEF IInv, AbortsOnlyIfMisaligned
<1> QED
  BY <1>6, <1>7, <1>8, <1>9, <1>10 DEF IInv

(* Rest(i) leaves everything but the frames alone.                         *)
LEMMA RejectIInv ==
  ASSUME IInv, NEW i, Reject(i)
  PROVE  IInv'
<1>1. /\ Following(i)
      /\ frames' = Rest(i)
      /\ UNCHANGED <<input, starts, phase, rows, rights, found, results>>
  BY DEF Reject, Ending
<1>2. UNCHANGED input
  BY <1>1
<1>3. /\ frames' \in Seq(FrameType(space))
      /\ \A f \in Range(frames') : FrameInv(space, Half, f) /\ f.row[1] = Head(starts)
  BY <1>1, FollowingFrames
<1>4. TypeOK'
  BY <1>1, <1>2, <1>3, HalvesUnchanged DEF IInv, TypeOK
<1>5. CheckInv'
  BY <1>1, <1>2, <1>3, HalvesUnchanged DEF IInv, CheckInv, Checking
<1>6. RightsInv'
  BY <1>1, RightsUnchanged DEF IInv
<1>7. RowsComplete' /\ MergedAtStart'
  BY <1>1, MergedUnchanged DEF IInv
<1>8. AbortsOnlyIfMisaligned' /\ SplittablePath(path, idx)'
  BY <1>1, <1>2, HalvesUnchanged DEF IInv, AbortsOnlyIfMisaligned
<1> QED
  BY <1>4, <1>5, <1>6, <1>7, <1>8 DEF IInv

LEMMA AcceptIInv ==
  ASSUME IInv, NEW i, Accept(i)
  PROVE  IInv'
<1> DEFINE row == Followed(space, Top, i)
<1>1. /\ Following(i)
      /\ NextPos(Half, Top) > Size(Half)
      /\ Len(row) = Size(Half)
      /\ frames' = Rest(i)
      /\ rows' = Append(rows, row)
      /\ UNCHANGED <<input, starts, phase, rights, found, results>>
  BY DEF Accept, Ending
<1>2. UNCHANGED input
  BY <1>1
<1>3. /\ frames' \in Seq(FrameType(space))
      /\ \A f \in Range(frames') : FrameInv(space, Half, f) /\ f.row[1] = Head(starts)
  BY <1>1, FollowingFrames
<1>4. row \in Row /\ row[1] = Head(starts)
  BY <1>1, FollowingFrames, FollowedRow
<1>5. Linked(space, Half, row)
  BY <1>1, FollowingFrames, AcceptedRow
<1> HIDE DEF row
<1>6. /\ rows' \in Seq(Row)
      /\ \A r \in Range(rows') : r \in Range(rows) \cup {row}
  BY <1>1, <1>4, RangeOfAppend DEF IInv, TypeOK
<1>7. TypeOK'
  BY <1>1, <1>2, <1>3, <1>6, HalvesUnchanged DEF IInv, TypeOK
<1>8. \A r \in Range(rows') : Linked(space, Half, r) /\ r[1] = Head(starts)
  BY <1>1, <1>4, <1>5, <1>6, FollowingFrames DEF IInv, CheckInv
<1>9. CheckInv'
  BY <1>1, <1>2, <1>3, <1>8, FollowingFrames, HalvesUnchanged DEF CheckInv, Checking
<1>10. RightsInv'
  BY <1>1, RightsUnchanged DEF IInv
<1>11. RowsComplete' /\ MergedAtStart'
  BY <1>1, MergedUnchanged DEF IInv
<1>12. AbortsOnlyIfMisaligned' /\ SplittablePath(path, idx)'
  BY <1>1, <1>2, HalvesUnchanged DEF IInv, AbortsOnlyIfMisaligned
<1> QED
  BY <1>7, <1>9, <1>10, <1>11, <1>12 DEF IInv

LEMMA AssertionFailsIInv ==
  ASSUME IInv, NEW i, AssertionFails(i)
  PROVE  IInv'
<1>1. /\ Following(i)
      /\ NextPos(Half, Top) > Size(Half)
      /\ Len(Followed(space, Top, i)) # Size(Half)
      /\ phase' = "aborted"
      /\ UNCHANGED <<input, starts, frames, rows, rights, found, results>>
  BY DEF AssertionFails, Ending
<1>2. UNCHANGED input
  BY <1>1
<1>3. Misaligned(Half)
  BY <1>1, FollowingFrames, AcceptedRow
<1>4. Misaligned(Rhs) \/ Misaligned(Lhs)
  BY <1>3 DEF Half
<1>5. AbortsOnlyIfMisaligned'
  BY <1>2, <1>4, HalvesUnchanged DEF AbortsOnlyIfMisaligned
<1>6. TypeOK'
  BY <1>1, <1>2, HalvesUnchanged DEF IInv, TypeOK
<1>7. CheckInv'
  BY <1>1 DEF CheckInv, Checking
<1>8. RightsInv'
  BY <1>1, RightsUnchanged DEF IInv
<1>9. RowsComplete' /\ MergedAtStart'
  BY <1>1, MergedUnchanged DEF IInv
<1>10. SplittablePath(path, idx)'
  BY <1>2, HalvesUnchanged DEF IInv
<1> QED
  BY <1>5, <1>6, <1>7, <1>8, <1>9, <1>10 DEF IInv

LEMMA ReturnIInv ==
  ASSUME IInv, Return
  PROVE  IInv'
<1>1. /\ Checking
      /\ frames # <<>>
      /\ frames' = SubSeq(frames, 1, Len(frames) - 1)
      /\ UNCHANGED <<input, starts, phase, rows, rights, found, results>>
  BY DEF Return, Checking
<1>2. UNCHANGED input
  BY <1>1
<1>3. /\ frames' \in Seq(FrameType(space))
      /\ Range(frames') \subseteq Range(frames)
  BY <1>1, RangeOfInitial DEF IInv, TypeOK
<1>4. TypeOK'
  BY <1>1, <1>2, <1>3, HalvesUnchanged DEF IInv, TypeOK
<1>5. CheckInv'
  BY <1>1, <1>2, <1>3, HalvesUnchanged DEF IInv, CheckInv, Checking
<1>6. RightsInv'
  BY <1>1, RightsUnchanged DEF IInv
<1>7. RowsComplete' /\ MergedAtStart'
  BY <1>1, MergedUnchanged DEF IInv
<1>8. AbortsOnlyIfMisaligned' /\ SplittablePath(path, idx)'
  BY <1>1, <1>2, HalvesUnchanged DEF IInv, AbortsOnlyIfMisaligned
<1> QED
  BY <1>4, <1>5, <1>6, <1>7, <1>8 DEF IInv

LEMMA FilterIInv ==
  ASSUME IInv, Filter
  PROVE  IInv'
<1>1. /\ phase = "idle"
      /\ starts # <<>>
      /\ phase' = "right"
      /\ frames' = CheckFrames(space, Rhs, Head(starts))
      /\ rows' = CheckRows(Rhs, Head(starts))
      /\ UNCHANGED <<input, starts, rights, found, results>>
  BY DEF Filter, Check
<1>2. UNCHANGED input
  BY <1>1
<1>3. Head(starts) \in Element
  BY <1>1, RangeOfTail DEF IInv, TypeOK
<1>4. /\ frames' \in Seq(FrameType(space))
      /\ \A f \in Range(frames') : FrameInv(space, Rhs, f) /\ f.row[1] = Head(starts)
      /\ rows' \in Seq(Row)
      /\ \A row \in Range(rows') : Linked(space, Rhs, row) /\ row[1] = Head(starts)
  BY <1>1, <1>3, CheckBegins, HalfSizes DEF IInv, TypeOK
<1>5. TypeOK'
  BY <1>1, <1>2, <1>4, HalvesUnchanged DEF IInv, TypeOK
<1>6. CheckInv'
  BY <1>1, <1>2, <1>4, HalvesUnchanged DEF CheckInv
<1>7. RightsInv'
  BY <1>1, RightsUnchanged DEF IInv
<1>8. RowsComplete' /\ MergedAtStart'
  BY <1>1, MergedUnchanged DEF IInv
<1>9. AbortsOnlyIfMisaligned' /\ SplittablePath(path, idx)'
  BY <1>1, <1>2, HalvesUnchanged DEF IInv, AbortsOnlyIfMisaligned
<1> QED
  BY <1>5, <1>6, <1>7, <1>8, <1>9 DEF IInv

-----------------------------------------------------------------------------
(* A row as checkPath returns it.                                          *)
MergedRow(row) ==
  /\ Len(row) = Size(path)
  /\ Linked(space, Rhs, SubSeq(row, idx + 1, Len(row)))
  /\ idx > 0 => Linked(space, Lhs, <<row[idx + 1]>> \o SubSeq(row, 1, idx))

(* filter() returns.                                                       *)
LEMMA EmplaceIInv ==
  ASSUME IInv, UNCHANGED input, starts # <<>>,
         NEW rs \in Seq(Row), \A row \in Range(rs) : MergedRow(row),
         results' = results \o rs,
         starts' = Tail(starts),
         phase' = "idle",
         frames' = <<>>, rows' = <<>>, rights' = <<>>, found' = <<>>
  PROVE  IInv'
<1>1. /\ results' \in Seq(Row)
      /\ Range(results') \subseteq Range(results) \cup Range(rs)
  BY RangeOfConcat DEF IInv, TypeOK
<1>2. starts' \in Seq(Element)
  BY RangeOfTail DEF IInv, TypeOK
<1>3. TypeOK'
  BY <1>1, <1>2, HalvesUnchanged DEF IInv, TypeOK
<1>4. Range(<<>>) = {}
  BY DEF Range
<1>5. CheckInv' /\ RightsInv' /\ AbortsOnlyIfMisaligned'
  BY <1>4 DEF CheckInv, Checking, RightsInv, AbortsOnlyIfMisaligned
<1>6. \A row \in Merged' : row \in Merged \/ row \in Range(rs)
  BY <1>1, <1>4 DEF Merged
<1>7. RowsComplete' /\ MergedAtStart'
  BY <1>6, HalvesUnchanged DEF IInv, RowsComplete, MergedAtStart, MergedRow
<1>8. SplittablePath(path, idx)'
  BY HalvesUnchanged DEF IInv
<1> QED
  BY <1>3, <1>5, <1>7, <1>8 DEF IInv

(* checkPath goes on to check the left half for the first of the rows rs.  *)
LEMMA BeginLeftIInv ==
  ASSUME IInv, UNCHANGED input, starts # <<>>, idx > 0,
         NEW rs \in Seq(Row), rs # <<>>,
         \A row \in Range(rs) : Linked(space, Rhs, row) /\ row[1] = Head(starts),
         NEW fs \in Seq(Row), \A row \in Range(fs) : MergedRow(row),
         Check("left", Lhs, Head(starts)),
         rights' = rs, found' = fs,
         UNCHANGED <<starts, results>>
  PROVE  IInv'
<1>1. /\ phase' = "left"
      /\ frames' = CheckFrames(space, Lhs, Head(starts))
      /\ rows' = CheckRows(Lhs, Head(starts))
  BY DEF Check
<1>2. Head(starts) \in Element
  BY RangeOfTail DEF IInv, TypeOK
<1>3. Size(Lhs) \in Nat /\ Size(Lhs) >= 1
  BY HalfSizes DEF IInv
<1>4. /\ frames' \in Seq(FrameType(space))
      /\ \A f \in Range(frames') : FrameInv(space, Lhs, f) /\ f.row[1] = Head(starts)
      /\ rows' \in Seq(Row)
      /\ \A row \in Range(rows') : Linked(space, Lhs, row) /\ row[1] = Head(starts)
  BY <1>1, <1>2, <1>3, CheckBegins DEF IInv, TypeOK
<1>5. TypeOK'
  BY <1>1, <1>4, HalvesUnchanged DEF IInv, TypeOK
<1>6. CheckInv'
  BY <1>1, <1>4, HalvesUnchanged DEF CheckInv
<1>7. RightsInv'
  BY HalvesUnchanged DEF RightsInv
<1>8. \A row \in Merged' : row \in Merged \/ row \in Range(fs)
  BY DEF Merged
<1>9. RowsComplete' /\ MergedAtStart'
  BY <1>8, HalvesUnchanged DEF IInv, RowsComplete, MergedAtStart, MergedRow
<1>10. AbortsOnlyIfMisaligned' /\ SplittablePath(path, idx)'
  BY <1>1, HalvesUnchanged DEF IInv, AbortsOnlyIfMisaligned
<1> QED
  BY <1>5, <1>6, <1>7, <1>9, <1>10 DEF IInv

LEMMA RightDoneIInv ==
  ASSUME IInv, RightDone
  PROVE  IInv'
<1>1. /\ phase = "right"
      /\ UNCHANGED input
  BY DEF RightDone
<1>2. /\ starts # <<>>
      /\ \A row \in Range(rows) : Linked(space, Rhs, row) /\ row[1] = Head(starts)
      /\ rows \in Seq(Row)
  BY <1>1, HalfSizes DEF IInv, CheckInv, Checking, TypeOK
<1>3. CASE idx = 0 \/ rows = <<>>
  <2>1. Emplace(rows)
    BY <1>3 DEF RightDone
  <2>2. ASSUME NEW row \in Range(rows) PROVE MergedRow(row)
    <3>1. idx = 0
      BY <1>3, <2>2 DEF Range
    <3>2. row \in Seq(Element) /\ Linked(space, Rhs, row)
      BY <1>2, <2>2, InRange DEF Row
    <3>3. Len(row) = Size(path)
      BY <3>1, <3>2, HalfSizes DEF IInv, Linked
    <3>4. SubSeq(row, idx + 1, Len(row)) = row
      BY <3>1, <3>2, SubSeqFull
    <3>5. Linked(space, Rhs, SubSeq(row, idx + 1, Len(row)))
      BY <3>2, <3>4
    <3>6. ~(idx > 0)
      BY <3>1
    <3> QED
      BY <3>3, <3>5, <3>6, Zenon DEF MergedRow
  <2>3. PICK rs \in Seq(Row) : rs = rows
    BY <1>2
  <2>4. /\ results' = results \o rs
        /\ starts' = Tail(starts)
        /\ phase' = "idle"
        /\ frames' = <<>> /\ rows' = <<>> /\ rights' = <<>> /\ found' = <<>>
    BY <2>1, <2>3 DEF Emplace
  <2>5. \A row \in Range(rs) : MergedRow(row)
    BY <2>2, <2>3
  <2> QED
    BY <1>1, <1>2, <2>4, <2>5, EmplaceIInv
<1>4. CASE ~(idx = 0 \/ rows = <<>>)
  <2>1. /\ Check("left", Lhs, Head(rows)[1])
        /\ rights' = rows
        /\ UNCHANGED <<starts, found, results>>
    BY <1>4 DEF RightDone
  <2>2. Head(rows)[1] = Head(starts)
    BY <1>2, <1>4, RangeOfTail
  <2>3. idx > 0
    BY <1>4, HalfSizes DEF IInv
  <2>4. PICK rs \in Seq(Row), fs \in Seq(Row) : rs = rows /\ fs = found
    BY <1>2 DEF IInv, TypeOK
  <2>5. /\ rs # <<>>
        /\ \A row \in Range(rs) : Linked(space, Rhs, row) /\ row[1] = Head(starts)
        /\ rights' = rs
        /\ found' = fs
        /\ Check("left", Lhs, Head(starts))
    BY <1>2, <1>4, <2>1, <2>2, <2>4
  <2>6. \A row \in Range(fs) : MergedRow(row)
    BY <2>4 DEF IInv, RowsComplete, MergedAtStart, Merged, MergedRow
  <2> QED
    BY <1>1, <1>2, <2>1, <2>3, <2>5, <2>6, BeginLeftIInv
<1> QED
  BY <1>3, <1>4

-----------------------------------------------------------------------------
(* A left row without its start, put before a right row with the same one. *)
LEMMA MergedRowIsMerged ==
  ASSUME SplittablePath(path, idx), idx > 0,
         NEW left \in Row, NEW right \in Row,
         Linked(space, Lhs, left), Linked(space, Rhs, right), left[1] = right[1]
  PROVE  /\ Tail(left) \o right \in Row
         /\ MergedRow(Tail(left) \o right)
         /\ (Tail(left) \o right)[idx + 1] = right[1]
<1>1. /\ left \in Seq(Element)
      /\ right \in Seq(Element)
      /\ Len(left) = idx + 1
      /\ Len(right) = Size(path) - idx
      /\ Len(right) >= 1
      /\ idx \in Nat
      /\ Size(path) \in Nat
  BY HalfSizes DEF Linked, Row
<1> DEFINE tail == Tail(left)
           row  == tail \o right
<1>2. left # <<>>
  BY <1>1
<1>3. /\ tail \in Seq(Element)
      /\ Len(tail) = idx
      /\ tail = SubSeq(left, 2, Len(left))
  BY <1>1, <1>2, HeadTailProperties, TailIsSubSeq
<1>4. left = <<left[1]>> \o tail
  <2>1. SubSeq(left, 1, Len(left)) = <<left[1]>> \o SubSeq(left, 1 + 1, Len(left))
    BY <1>1, SubSeqRecursiveFirst
  <2>2. SubSeq(left, 1, Len(left)) = left
    BY <1>1, SubSeqFull
  <2> QED
    BY <1>3, <2>1, <2>2
<1> HIDE DEF tail
<1>5. /\ row \in Seq(Element)
      /\ Len(row) = Len(tail) + Len(right)
      /\ Len(row) = Size(path)
      /\ row[idx + 1] = right[1]
  <2>1. /\ row \in Seq(Element)
        /\ Len(row) = Len(tail) + Len(right)
        /\ \A k \in 1..(Len(tail) + Len(right)) :
             row[k] = IF k <= Len(tail) THEN tail[k] ELSE right[k - Len(tail)]
    BY <1>1, <1>3, ConcatProperties
  <2> HIDE DEF row
  <2>2. idx + 1 \in 1..(Len(tail) + Len(right)) /\ ~(idx + 1 <= Len(tail))
    BY <1>1, <1>3
  <2>3. row[idx + 1] = right[(idx + 1) - Len(tail)]
    BY <2>1, <2>2
  <2>4. (idx + 1) - Len(tail) = 1
    BY <1>1, <1>3
  <2> QED
    BY <1>1, <1>3, <2>1, <2>3, <2>4
<1>6. SubSeq(row, idx + 1, Len(row)) = right
  <2>1. SubSeq(row, Len(tail) + 1, Len(tail) + Len(right))
          = SubSeq(right, (Len(tail) + 1) - Len(tail), (Len(tail) + Len(right)) - Len(tail))
    BY <1>1, <1>3, SubSeqOfConcat2
  <2>2. SubSeq(right, 1, Len(right)) = right
    BY <1>1, SubSeqFull
  <2>3. /\ (Len(tail) + 1) - Len(tail) = 1
        /\ (Len(tail) + Len(right)) - Len(tail) = Len(right)
    BY <1>1, <1>3
  <2> QED
    BY <1>3, <1>5, <2>1, <2>2, <2>3
<1>7. SubSeq(row, 1, idx) = tail
  <2>1. SubSeq(row, 1, Len(tail)) = SubSeq(tail, 1, Len(tail))
    BY <1>1, <1>3, SubSeqOfConcat1
  <2> QED
    BY <1>3, <2>1, SubSeqFull
<1> HIDE DEF row
<1>8. MergedRow(row)
  BY <1>4, <1>5, <1>6, <1>7 DEF MergedRow
<1> QED
  BY <1>5, <1>8 DEF row, tail, Row

LEMMA MergeRows ==
  ASSUME SplittablePath(path, idx), idx > 0, NEW right \in Row,
         Linked(space, Rhs, right), NEW lefts \in Seq(Row),
         \A left \in Range(lefts) : Linked(space, Lhs, left) /\ left[1] = right[1]
  PROVE  /\ Merge(lefts, right) \in Seq(Row)
         /\ \A row \in Range(Merge(lefts, right)) :
              MergedRow(row) /\ row[idx + 1] = right[1]
<1> DEFINE n == Len(lefts)
           m == Merge(lefts, right)
<1>1. n \in Nat
  BY LenProperties
<1>2. ASSUME NEW k \in 1..n
      PROVE  m[k] \in Row /\ MergedRow(m[k]) /\ m[k][idx + 1] = right[1]
  <2>1. (n - k) + 1 \in 1..n
    BY <1>1
  <2>2. m[k] = Tail(lefts[(n - k) + 1]) \o right
    BY <1>1 DEF Merge
  <2>3. lefts[(n - k) + 1] \in Row /\ lefts[(n - k) + 1] \in Range(lefts)
    BY <2>1, InRange
  <2> QED
    BY <2>2, <2>3, MergedRowIsMerged
<1>3. m = [k \in 1..n |-> m[k]] /\ DOMAIN m = 1..n
  BY DEF Merge
<1> HIDE DEF m
<1>4. m \in [1..n -> Row]
  BY <1>2, <1>3
<1>5. m \in Seq(Row)
  BY <1>1, <1>4, SeqDef
<1> QED
  BY <1>2, <1>3, <1>5 DEF Range, m

LEMMA LeftDoneIInv ==
  ASSUME IInv, LeftDone
  PROVE  IInv'
<1> DEFINE merged == found \o Merge(rows, Head(rights))
<1>1. /\ phase = "left"
      /\ UNCHANGED input
      /\ IF Len(rights) = 1
         THEN Emplace(merged)
         ELSE /\ Check("left", Lhs, rights[2][1])
              /\ rights' = Tail(rights)
              /\ found' = merged
              /\ UNCHANGED <<starts, results>>
  BY DEF LeftDone
<1>2. /\ starts # <<>>
      /\ idx > 0
      /\ rights # <<>>
      /\ rights \in Seq(Row)
      /\ rows \in Seq(Row)
      /\ found \in Seq(Row)
      /\ SplittablePath(path, idx)
      /\ Half = Lhs
  BY <1>1, HalfSizes DEF IInv, CheckInv, Checking, RightsInv, TypeOK
<1>3. /\ Head(rights) \in Row
      /\ Linked(space, Rhs, Head(rights))
      /\ Head(rights)[1] = Head(starts)
  BY <1>2, RangeOfTail DEF IInv, RightsInv
<1>4. \A left \in Range(rows) :
        Linked(space, Lhs, left) /\ left[1] = Head(rights)[1]
  BY <1>1, <1>2, <1>3 DEF IInv, CheckInv, Checking
<1>5. /\ Merge(rows, Head(rights)) \in Seq(Row)
      /\ \A row \in Range(Merge(rows, Head(rights))) : MergedRow(row)
  BY <1>2, <1>3, <1>4, MergeRows
<1>6. \A row \in Range(found) : MergedRow(row)
  BY DEF IInv, RowsComplete, MergedAtStart, Merged, MergedRow
<1>7. /\ merged \in Seq(Row)
      /\ \A row \in Range(merged) : MergedRow(row)
  BY <1>2, <1>5, <1>6, RangeOfConcat
<1> HIDE DEF merged
<1>8. PICK rs \in Seq(Row) : rs = merged
  BY <1>7
<1>9. \A row \in Range(rs) : MergedRow(row)
  BY <1>7, <1>8
<1>10. CASE Len(rights) = 1
  <2>1. /\ results' = results \o rs
        /\ starts' = Tail(starts)
        /\ phase' = "idle"
        /\ frames' = <<>> /\ rows' = <<>> /\ rights' = <<>> /\ found' = <<>>
    BY <1>1, <1>8, <1>10 DEF Emplace
  <2> QED
    BY <1>1, <1>2, <1>9, <2>1, EmplaceIInv
<1>11. CASE Len(rights) # 1
  <2>1. /\ Check("left", Lhs, rights[2][1])
        /\ rights' = Tail(rights)
        /\ found' = rs
        /\ UNCHANGED <<starts, results>>
    BY <1>1, <1>8, <1>11
  <2>2. Len(rights) \in Nat /\ Len(rights) >= 2
    <3>1. Len(rights) \in Nat \ {0}
      BY <1>2, EmptySeq
    <3>2. \A n \in Nat \ {0} : n # 1 => n >= 2
      OBVIOUS
    <3> QED
      BY <1>11, <3>1, <3>2
  <2>3. rights[2] \in Range(rights)
    BY <1>2, <2>2, InRange
  <2>4. rights[2][1] = Head(starts)
    BY <2>3 DEF IInv, RightsInv
  <2>5. /\ Tail(rights) \in Seq(Row)
        /\ Len(Tail(rights)) = Len(rights) - 1
        /\ Range(Tail(rights)) \subseteq Range(rights)
    BY <1>2, RangeOfTail
  <2>6. PICK ts \in Seq(Row) : ts = Tail(rights)
    BY <2>5
  <2>7. ts # <<>>
    <3>1. Len(ts) # 0
      BY <2>2, <2>5, <2>6
    <3>2. Len(<<>>) = 0
      BY EmptySeq
    <3> QED
      BY <3>1, <3>2, Zenon
  <2>8. \A row \in Range(ts) : Linked(space, Rhs, row) /\ row[1] = Head(starts)
    BY <2>5, <2>6 DEF IInv, RightsInv
  <2>9. Check("left", Lhs, Head(starts)) /\ rights' = ts
    BY <2>1, <2>4, <2>6
  <2> QED
    BY <1>1, <1>2, <1>9, <2>1, <2>7, <2>8, <2>9, BeginLeftIInv
<1> QED
  BY <1>10, <1>11

LEMMA StutterIInv ==
  ASSUME IInv, UNCHANGED vars
  PROVE  IInv'
<1>1. UNCHANGED input
  BY DEF vars, input
<1>2. UNCHANGED <<starts, phase, frames, rows, rights, found, results>>
  BY DEF vars
<1>3. TypeOK'
  BY <1>1, <1>2, HalvesUnchanged DEF IInv, TypeOK
<1>4. CheckInv'
  BY <1>1, <1>2, HalvesUnchanged DEF IInv, CheckInv, Checking
<1>5. RightsInv'
  BY <1>1, <1>2, RightsUnchanged DEF IInv
<1>6. RowsComplete' /\ MergedAtStart'
  BY <1>1, <1>2, MergedUnchanged DEF IInv
<1>7. AbortsOnlyIfMisaligned' /\ SplittablePath(path, idx)'
  BY <1>1, <1>2, HalvesUnchanged DEF IInv, AbortsOnlyIfMisaligned
<1> QED
  BY <1>3, <1>4, <1>5, <1>6, <1>7 DEF IInv

-----------------------------------------------------------------------------
LEMMA NextIInv ==
  ASSUME IInv, Next
  PROVE  IInv'
<1>1. CASE Filter
  BY <1>1, FilterIInv
<1>2. ASSUME NEW i \in DOMAIN space.refs,
             Descend(i) \/ Reject(i) \/ Accept(i) \/ AssertionFails(i)
      PROVE  IInv'
  BY <1>2, DescendIInv, RejectIInv, AcceptIInv, AssertionFailsIInv
<1>3. CASE Return
  BY <1>3, ReturnIInv
<1>4. CASE RightDone
  BY <1>4, RightDoneIInv
<1>5. CASE LeftDone
  BY <1>5, LeftDoneIInv
<1> QED
  BY <1>1, <1>2, <1>3, <1>4, <1>5 DEF Next

-----------------------------------------------------------------------------
(***************************************************************************)
(* Two invariants more, for those who compose the matcher with a source:   *)
(* nothing is left of a filter() that has returned, and the start column   *)
(* of what has been found holds only elements that the source handed over. *)
(***************************************************************************)
IdleInv == phase = "idle" => rights = <<>> /\ found = <<>>

LEMMA NextIdleInv ==
  ASSUME IdleInv, Next
  PROVE  IdleInv'
BY DEF IdleInv, Next, Filter, Descend, Reject, Accept, AssertionFails, Ending,
       Following, Return, RightDone, LeftDone, Emplace, Check

StartsIn(S) ==
  /\ Range(starts) \subseteq S
  /\ \A row \in Merged : row[idx + 1] \in S

(* filter() returns the rows rs.                                           *)
LEMMA EmplaceStartsIn ==
  ASSUME IInv, NEW S, StartsIn(S), idx' = idx, starts # <<>>,
         NEW rs \in Seq(Row), \A row \in Range(rs) : row[idx + 1] \in S,
         Emplace(rs)
  PROVE  StartsIn(S)'
<1>1. starts' = Tail(starts) /\ results' = results \o rs /\ found' = <<>>
  BY DEF Emplace
<1>2. starts \in Seq(Element) /\ results \in Seq(Row)
  BY DEF IInv, TypeOK
<1>3. Range(starts') \subseteq Range(starts)
  BY <1>1, <1>2, RangeOfTail
<1>4. Range(results') \subseteq Range(results) \cup Range(rs) /\ Range(found') = {}
  BY <1>1, <1>2, RangeOfConcat DEF Range
<1> QED
  BY <1>3, <1>4 DEF StartsIn, Merged

LEMMA NextStartsIn ==
  ASSUME IInv, NEW S, StartsIn(S), Next
  PROVE  StartsIn(S)'
<1>1. CASE UNCHANGED <<idx, starts, found, results>>
  BY <1>1 DEF StartsIn, Merged
<1>2. Filter \/ Return => UNCHANGED <<idx, starts, found, results>>
  BY DEF Filter, Return, input
<1>3. ASSUME NEW i, Descend(i) \/ Reject(i) \/ Accept(i) \/ AssertionFails(i)
      PROVE  UNCHANGED <<idx, starts, found, results>>
  BY <1>3 DEF Descend, Reject, Accept, AssertionFails, input
<1>4. starts # <<>> => Head(starts) \in S
  BY RangeOfTail DEF IInv, TypeOK, StartsIn
<1>5. CASE RightDone
  <2>1. /\ phase = "right" /\ idx' = idx /\ starts # <<>> /\ rows \in Seq(Row)
        /\ \A row \in Range(rows) : row[1] = Head(starts)
    BY <1>5 DEF RightDone, input, IInv, CheckInv, Checking, TypeOK
  <2>2. CASE idx = 0 \/ rows = <<>>
    <3>1. Emplace(rows)
      BY <1>5, <2>2 DEF RightDone
    <3>2. PICK rs \in Seq(Row) : rs = rows
      BY <2>1
    <3>3. \A row \in Range(rs) : row[idx + 1] \in S
      <4>1. idx = 0 \/ Range(rs) = {}
        BY <2>2, <3>2 DEF Range
      <4> QED
        BY <1>4, <2>1, <3>2, <4>1
    <3> QED
      BY <2>1, <3>1, <3>2, <3>3, EmplaceStartsIn
  <2>3. CASE ~(idx = 0 \/ rows = <<>>)
    BY <1>1, <1>5, <2>1, <2>3 DEF RightDone
  <2> QED
    BY <2>2, <2>3
<1>6. CASE LeftDone
  <2>1. /\ phase = "left" /\ idx' = idx /\ starts # <<>> /\ idx > 0
        /\ rights # <<>> /\ rights \in Seq(Row) /\ rows \in Seq(Row)
        /\ found \in Seq(Row) /\ SplittablePath(path, idx) /\ Half = Lhs
    BY <1>6, HalfSizes
       DEF LeftDone, input, IInv, CheckInv, Checking, RightsInv, TypeOK
  <2>2. PICK right \in Row : right = Head(rights)
    BY <2>1, RangeOfTail
  <2>3. Linked(space, Rhs, right) /\ right[1] = Head(starts)
    BY <2>1, <2>2, RangeOfTail DEF IInv, RightsInv
  <2>4. \A left \in Range(rows) : Linked(space, Lhs, left) /\ left[1] = right[1]
    BY <2>1, <2>3 DEF IInv, CheckInv, Checking
  <2>5. /\ Merge(rows, right) \in Seq(Row)
        /\ \A row \in Range(Merge(rows, right)) : row[idx + 1] = right[1]
    BY <2>1, <2>3, <2>4, MergeRows
  <2>6. PICK rs \in Seq(Row) : rs = found \o Merge(rows, right)
    BY <2>1, <2>5, RangeOfConcat
  <2>7. Range(rs) \subseteq Range(found) \cup Range(Merge(rows, right))
    BY <2>1, <2>5, <2>6, RangeOfConcat
  <2>8. \A row \in Range(rs) : row[idx + 1] \in S
    BY <1>4, <2>1, <2>3, <2>5, <2>7 DEF StartsIn, Merged
  <2>9. CASE Len(rights) = 1
    <3>1. Emplace(rs)
      BY <1>6, <2>2, <2>6, <2>9 DEF LeftDone
    <3> QED
      BY <2>1, <2>8, <3>1, EmplaceStartsIn
  <2>10. CASE Len(rights) # 1
    <3>1. found' = rs /\ UNCHANGED <<idx, starts, results>>
      BY <1>6, <2>1, <2>2, <2>6, <2>10 DEF LeftDone
    <3> QED
      BY <2>8, <3>1 DEF StartsIn, Merged
  <2> QED
    BY <2>9, <2>10
<1> QED
  BY <1>1, <1>2, <1>3, <1>5, <1>6 DEF Next

-----------------------------------------------------------------------------
(* IInv holds in every reachable state of the matcher.                     *)
THEOREM Invariance == Spec => []IInv
<1>1. IInv /\ [Next]_vars => IInv'
  BY NextIInv, StutterIInv
<1> QED
  BY InitIInv, <1>1, PTL DEF Spec

(* The variables of the matcher always hold values of their types.         *)
THEOREM TypeCorrect == Spec => []TypeOK
<1>1. IInv => TypeOK
  BY DEF IInv
<1> QED
  BY <1>1, Invariance, PTL

(* Rows that a check() returns are connected paths of the half it checked, *)
(* for every pattern, address space and failing browse.                    *)
THEOREM HalvesAreLinked == Spec => []HalvesLinked
<1>1. IInv => HalvesLinked
  BY DEF IInv, CheckInv, Checking, RightsInv, HalvesLinked
<1> QED
  BY <1>1, Invariance, PTL

(* Every row that checkPath returns has as many columns as the pattern has *)
(* nodes.                                                                  *)
THEOREM RowsAreComplete == Spec => []RowsComplete
<1>1. IInv => RowsComplete
  BY DEF IInv
<1> QED
  BY <1>1, Invariance, PTL

(* Every merged row consists of a right row and, from the start outwards,  *)
(* of a left row with the same start element.                              *)
THEOREM RowsAreMergedAtStart == Spec => []MergedAtStart
<1>1. IInv => MergedAtStart
  BY DEF IInv
<1> QED
  BY <1>1, Invariance, PTL

(* The size assertion of check() holds for every pattern without a named   *)
(* node that is followed by an unnamed one.                                *)
THEOREM AbortNeedsMisalignment == Spec => []AbortsOnlyIfMisaligned
<1>1. IInv => AbortsOnlyIfMisaligned
  BY DEF IInv
<1> QED
  BY <1>1, Invariance, PTL

-----------------------------------------------------------------------------
(***************************************************************************)
(* What a check() finds.  A walk of the half p chooses a reference for     *)
(* every relation of p; a check() from e lists the rows of all walks that  *)
(* its browse results and its comparisons allow, each once.                *)
(***************************************************************************)
WalkRefs(sp, p) == [1..(Size(p) - 1) -> DOMAIN sp.refs]

(* The k-th element on a walk from e.                                      *)
Reached(sp, e, w, k) == IF k = 1 THEN e ELSE Target(sp, w[k - 1])

Follows(sp, p, e, w, k) ==
  w[k] \in Candidates(sp, p, Reached(sp, e, w, k).id, k + 1)

EndFits(sp, p, e, w) ==
  \/ Size(p) > 1 /\ ById(p.nodes[Size(p)])
  \/ IsMatching(Reached(sp, e, w, Size(p)), p.nodes[Size(p)])

HalfWalks(sp, p, e) ==
  {w \in WalkRefs(sp, p) :
     (\A k \in 1..(Size(p) - 1) : Follows(sp, p, e, w, k)) /\ EndFits(sp, p, e, w)}

RowsAlong(sp, p, e) ==
  [w \in WalkRefs(sp, p) |-> [k \in 1..Size(p) |-> Reached(sp, e, w, k)]]

(* The frame f is for step d of the walk c.                                *)
OnWalk(sp, e, f, d, c) ==
  /\ f.pos = d + 1 /\ Len(f.row) = d
  /\ \A k \in 1..d : f.row[k] = Reached(sp, e, c, k)

(* The frames fs stand on the walk c: the frame d is for its step d, and   *)
(* all but the last have taken up the reference that c goes on with.       *)
Standing(sp, p, e, fs, n, c) ==
  /\ c \in [1..(Size(p) - 1) -> Nat]
  /\ n = Len(fs) /\ n <= Size(p) - 1
  /\ \A d \in 1..n : OnWalk(sp, e, fs[d], d, c)
  /\ \A d \in 1..(n - 1) : Follows(sp, p, e, c, d) /\ c[d] \notin fs[d].pending

(* A walk that leaves c at step d, for a reference that is done with.      *)
LeavesAt(fs, n, c, w, d) ==
  /\ \A k \in 1..(d - 1) : w[k] = c[k]
  /\ w[d] \notin fs[d].pending
  /\ d < n => w[d] # c[d]

Done(fs, n, c, w) == \E d \in 1..n : LeavesAt(fs, n, c, w, d)

WalksDone(sp, p, e, fs, n, c) == {w \in HalfWalks(sp, p, e) : Done(fs, n, c, w)}

Progress(sp, p, e, fs, rs) ==
  IF fs = <<>>
  THEN Lists(rs, HalfWalks(sp, p, e), RowsAlong(sp, p, e))
  ELSE \E n \in Nat, c \in [1..(Size(p) - 1) -> Nat] :
         /\ Standing(sp, p, e, fs, n, c)
         /\ Lists(rs, WalksDone(sp, p, e, fs, n, c), RowsAlong(sp, p, e))

(* The frames of a check() as IInv has them, for a pattern without a named *)
(* node before an unnamed one.                                             *)
Stack(sp, p, fs) ==
  /\ sp \in Space /\ Size(p) \in Nat /\ ~Misaligned(p)
  /\ fs \in Seq(FrameType(sp)) /\ \A f \in Range(fs) : FrameInv(sp, p, f)

RestOf(fs, i) == [fs EXCEPT ![Len(fs)].pending = @ \ {i}]

(* The frames gs are the n frames fs without reference i in the last one.  *)
TakenUp(fs, n, i, gs) ==
  /\ Len(gs) = n
  /\ \A d \in 1..n : gs[d].pos = fs[d].pos /\ gs[d].row = fs[d].row
  /\ \A d \in 1..(n - 1) : gs[d].pending = fs[d].pending
  /\ gs[n].pending = fs[n].pending \ {i}

LEMMA OnSameWalk ==
  ASSUME NEW sp, NEW e, NEW f, NEW g, f.pos = g.pos, f.row = g.row,
         NEW d \in Nat, NEW c, NEW q, \A k \in 1..(d - 1) : q[k] = c[k],
         OnWalk(sp, e, g, d, c)
  PROVE  OnWalk(sp, e, f, d, q)
<1>1. ASSUME NEW k \in 1..d PROVE Reached(sp, e, q, k) = Reached(sp, e, c, k)
  <2>1. k # 1 => k - 1 \in 1..(d - 1)
    OBVIOUS
  <2> QED
    BY <2>1 DEF Reached
<1> QED
  BY <1>1 DEF OnWalk

LEMMA CheckProgress ==
  ASSUME NEW sp \in Space, NEW p, Size(p) \in Nat, Size(p) >= 1, NEW e
  PROVE  Progress(sp, p, e, CheckFrames(sp, p, e), CheckRows(p, e))
<1> DEFINE W == HalfWalks(sp, p, e)
           h == RowsAlong(sp, p, e)
<1>1. CASE Size(p) = 1
  <2>1. PICK w : w = [k \in 1..0 |-> 0]
    OBVIOUS
  <2>2. WalkRefs(sp, p) = {w}
    <3>1. Size(p) - 1 = 0 /\ 1..0 = {}
      BY <1>1
    <3>2. WalkRefs(sp, p) = [{} -> DOMAIN sp.refs] /\ w = [k \in {} |-> 0]
      BY <2>1, <3>1 DEF WalkRefs
    <3>3. \A v \in [{} -> DOMAIN sp.refs] : v = w
      BY <3>2
    <3> QED
      BY <3>2, <3>3
  <2>3. Reached(sp, e, w, 1) = e
    BY DEF Reached
  <2>4. h[w] = <<e>>
    <3>1. h[w] = [k \in 1..1 |-> Reached(sp, e, w, k)]
      BY <1>1, <2>2 DEF RowsAlong
    <3>2. \A k \in 1..1 : Reached(sp, e, w, k) = e
      BY <2>3
    <3>3. [k \in 1..1 |-> Reached(sp, e, w, k)] = [k \in 1..1 |-> e]
      BY <3>2
    <3>4. [k \in 1..1 |-> e] = <<e>>
      OBVIOUS
    <3> QED
      BY <3>1, <3>3, <3>4
  <2>5. W = IF IsMatching(e, p.nodes[1]) THEN {w} ELSE {}
    BY <1>1, <2>2, <2>3 DEF HalfWalks, EndFits
  <2>6. CheckFrames(sp, p, e) = <<>>
    BY <1>1 DEF CheckFrames
  <2>7. CheckRows(p, e) = IF IsMatching(e, p.nodes[1]) THEN <<h[w]>> ELSE <<>>
    BY <1>1, <2>4 DEF CheckRows
  <2> HIDE DEF W, h
  <2>8. Lists(CheckRows(p, e), W, h)
    BY <2>5, <2>7, SingleLists, EmptyLists
  <2> QED
    BY <2>6, <2>8 DEF Progress, W, h
<1>2. CASE Size(p) # 1
  <2> DEFINE f == Frame(sp, p, 1, 2, <<e>>)
             c == [k \in 1..(Size(p) - 1) |-> 0]
  <2>1. CheckFrames(sp, p, e) = <<f>> /\ CheckRows(p, e) = <<>>
    BY <1>2 DEF CheckFrames, CheckRows
  <2>2. /\ f.pos = 2 /\ f.row = <<e>> /\ Len(f.row) = 1 /\ f.row[1] = e
        /\ f.pending = Candidates(sp, p, e.id, 2)
    BY DEF Frame
  <2>3. c \in [1..(Size(p) - 1) -> Nat]
    OBVIOUS
  <2> HIDE DEF f, c
  <2>4. <<f>> # <<>> /\ Len(<<f>>) = 1 /\ <<f>>[1] = f
    OBVIOUS
  <2>5. Standing(sp, p, e, <<f>>, 1, c)
    <3>1. PICK fs : fs = <<f>>
      OBVIOUS
    <3>2. Len(fs) = 1 /\ fs[1] = f /\ 1 <= Size(p) - 1
      BY <1>2, <2>4, <3>1
    <3>3. Reached(sp, e, c, 1) = e
      BY DEF Reached
    <3>4. 1..1 = {1} /\ 1..(1 - 1) = {}
      OBVIOUS
    <3>5. f.pos = 1 + 1
      BY <2>2
    <3>6. \A k \in 1..1 : f.row[k] = Reached(sp, e, c, k)
      BY <2>2, <3>3, <3>4
    <3>7. OnWalk(sp, e, f, 1, c)
      BY <2>2, <3>5, <3>6 DEF OnWalk
    <3>8. Standing(sp, p, e, fs, 1, c)
      BY <2>3, <3>2, <3>4, <3>7 DEF Standing
    <3> QED
      BY <3>1, <3>8
  <2>6. WalksDone(sp, p, e, <<f>>, 1, c) = {}
    <3>1. ASSUME NEW w \in HalfWalks(sp, p, e), NEW d \in 1..1, LeavesAt(<<f>>, 1, c, w, d)
          PROVE  FALSE
      <4>1. w[1] \notin Candidates(sp, p, e.id, 2)
        BY <2>2, <2>4, <3>1 DEF LeavesAt
      <4>2. Follows(sp, p, e, w, 1)
        BY <1>2 DEF HalfWalks
      <4> QED
        BY <4>1, <4>2 DEF Follows, Reached
    <3> QED
      BY <2>4, <3>1 DEF WalksDone, Done
  <2>7. Lists(<<>>, WalksDone(sp, p, e, <<f>>, 1, c), h)
    BY <2>6, EmptyLists
  <2> QED
    BY <2>1, <2>3, <2>4, <2>5, <2>7 DEF Progress
<1> QED
  BY <1>1, <1>2

(* The frame that a check() is at, for step n of the walk c.               *)
AtTop(sp, p, e, f, n, c) ==
  /\ n >= 1 /\ n <= Size(p) - 1
  /\ FrameInv(sp, p, f) /\ OnWalk(sp, e, f, n, c)
  /\ f.pending \subseteq Candidates(sp, p, Reached(sp, e, c, n).id, n + 1)
  /\ f.pending \subseteq DOMAIN sp.refs
  /\ NextPos(p, f) = n + 2
  /\ ~ById(p.nodes[n + 1]) => NextBase(p, f) = n + 1

LEMMA TopFrame ==
  ASSUME NEW sp, NEW p, NEW e, NEW fs, Stack(sp, p, fs), fs # <<>>,
         NEW c, NEW n \in Nat, Standing(sp, p, e, fs, n, c), NEW f, f = fs[n]
  PROVE  AtTop(sp, p, e, f, n, c)
<1>1. n = Len(fs) /\ n \in Nat /\ n >= 1
  BY LenProperties, EmptySeq DEF Stack, Standing
<1>3. FrameInv(sp, p, f)
  BY <1>1, InRange DEF Stack
<1>4. /\ f.pos = n + 1 /\ Len(f.row) = n /\ n <= Size(p) - 1
      /\ \A k \in 1..n : f.row[k] = Reached(sp, e, c, k)
  BY <1>1 DEF Standing, OnWalk
<1>5. f.row[n] = Reached(sp, e, c, n)
  BY <1>1, <1>4
<1>6. f.pending \subseteq Candidates(sp, p, Reached(sp, e, c, n).id, n + 1)
  BY <1>3, <1>4, <1>5 DEF FrameInv
<1>7. NextPos(p, f) = n + 2
  <2>1. NextPos(p, f) = f.pos + 1
    BY <1>3, NextPosition DEF Stack
  <2> QED
    BY <1>1, <1>4, <2>1
<1>8. f.base \in Nat
  BY <1>3 DEF FrameInv, FrameType
<1>9. ~ById(p.nodes[n + 1]) => NextBase(p, f) = n + 1
  BY <1>1, <1>4, <1>7, <1>8 DEF NextBase, NextPos
<1>10. f.pending \subseteq DOMAIN sp.refs
  BY <1>3 DEF FrameInv, FrameType
<1>11. OnWalk(sp, e, f, n, c)
  BY <1>1 DEF Standing
<1> QED
  BY <1>1, <1>3, <1>4, <1>6, <1>7, <1>9, <1>10, <1>11 DEF AtTop

LEMMA RestOfStack ==
  ASSUME NEW sp, NEW p, NEW fs, Stack(sp, p, fs), fs # <<>>, NEW i,
         NEW n \in Nat, n = Len(fs), NEW g, g = RestOf(fs, i)
  PROVE  g \in Seq(FrameType(sp)) /\ g # <<>> /\ TakenUp(fs, n, i, g)
<1>1. n >= 1
  BY EmptySeq DEF Stack
<1>2. PICK f : f = fs[n]
  OBVIOUS
<1>3. f \in FrameType(sp)
  BY <1>1, <1>2, ElementOfSeq DEF Stack
<1> DEFINE r == [f EXCEPT !.pending = @ \ {i}]
<1>4. r \in FrameType(sp) /\ r.pos = f.pos /\ r.row = f.row /\ r.pending = f.pending \ {i}
  BY <1>3 DEF FrameType
<1>5. g = [fs EXCEPT ![n] = r]
  BY <1>2 DEF RestOf
<1> HIDE DEF r
<1>6. n \in 1..Len(fs)
  BY <1>1
<1>7. /\ [fs EXCEPT ![n] = r] \in Seq(FrameType(sp))
      /\ Len([fs EXCEPT ![n] = r]) = Len(fs)
      /\ \A d \in 1..Len(fs) : [fs EXCEPT ![n] = r][d] = IF d = n THEN r ELSE fs[d]
  BY <1>4, <1>6, ExceptSeq DEF Stack
<1>8. g # <<>>
  BY <1>1, <1>5, <1>7, EmptySeq
<1>9. TakenUp(fs, n, i, g)
  <2>1. Len(g) = n /\ \A d \in 1..n : g[d] = IF d = n THEN r ELSE fs[d]
    BY <1>5, <1>7
  <2>2. g[n] = r /\ \A d \in 1..(n - 1) : g[d] = fs[d] /\ d \in 1..n
    BY <1>1, <2>1
  <2> QED
    BY <1>2, <1>4, <2>1, <2>2 DEF TakenUp
<1> QED
  BY <1>5, <1>7, <1>8, <1>9

LEMMA RestStands ==
  ASSUME NEW sp, NEW p, NEW e, NEW fs, NEW g, NEW i, NEW n \in Nat,
         TakenUp(fs, n, i, g), NEW c, Standing(sp, p, e, fs, n, c)
  PROVE  Standing(sp, p, e, g, n, c)
<1>1. ASSUME NEW d \in 1..n PROVE OnWalk(sp, e, g[d], d, c)
  <2>1. OnWalk(sp, e, fs[d], d, c)
    BY DEF Standing
  <2>2. g[d].pos = fs[d].pos /\ g[d].row = fs[d].row
    BY DEF TakenUp
  <2> QED
    BY <2>1, <2>2, OnSameWalk
<1>2. \A d \in 1..(n - 1) : c[d] \notin g[d].pending
  BY DEF TakenUp, Standing
<1>3. Len(g) = n
  BY DEF TakenUp
<1> QED
  BY <1>1, <1>2, <1>3 DEF Standing

(* A reference is taken up: nothing more is done, and one step more is     *)
(* under way.                                                              *)
LEMMA DescendProgress ==
  ASSUME NEW sp, NEW p, NEW e, NEW fs, Stack(sp, p, fs), fs # <<>>,
         NEW rs, Progress(sp, p, e, fs, rs), NEW f, f = fs[Len(fs)],
         NEW i \in f.pending, NextPos(p, f) <= Size(p),
         NEW r, r = RestOf(fs, i),
         NEW g, g = Frame(sp, p, NextBase(p, f), NextPos(p, f), Followed(sp, f, i))
  PROVE  Progress(sp, p, e, Append(r, g), rs)
<1>1. PICK n \in Nat, c \in [1..(Size(p) - 1) -> Nat] :
        Standing(sp, p, e, fs, n, c)
          /\ Lists(rs, WalksDone(sp, p, e, fs, n, c), RowsAlong(sp, p, e))
  BY DEF Progress
<1>2. PICK m \in Nat : n = Len(fs) /\ n >= 1 /\ m = Size(p) /\ f = fs[n]
  <2>1. Size(p) \in Nat
    BY DEF Stack
  <2>2. n = Len(fs)
    BY <1>1 DEF Standing
  <2>3. n >= 1
    BY <2>2, EmptySeq DEF Stack
  <2> QED
    BY <2>1, <2>2, <2>3
<1>3. AtTop(sp, p, e, f, n, c)
  BY <1>1, <1>2, TopFrame
<1>4. n + 2 <= m /\ n <= m - 1
  BY <1>2, <1>3 DEF AtTop
<1>5. i \in Nat /\ i \in DOMAIN sp.refs
  BY <1>3, LenProperties DEF Stack, Space, AtTop
<1>6. PICK q : q = [c EXCEPT ![n] = i]
  OBVIOUS
<1>7. /\ q \in [1..(m - 1) -> Nat] /\ q[n] = i
      /\ \A k \in 1..(m - 1) : k # n => q[k] = c[k]
  BY <1>1, <1>2, <1>4, <1>5, <1>6
<1>8. /\ \A k \in 1..n : Reached(sp, e, q, k) = Reached(sp, e, c, k)
      /\ Reached(sp, e, q, n + 1) = Target(sp, i)
  BY <1>2, <1>4, <1>7 DEF Reached
<1>9. PICK row : row = Followed(sp, f, i)
  OBVIOUS
<1>10. /\ Len(row) = n + 1 /\ row[n + 1] = Target(sp, i)
       /\ \A k \in 1..n : row[k] = f.row[k]
  <2>1. Target(sp, i) \in Element /\ f.row \in Seq(Element)
    BY <1>3, <1>5, TargetIsElement DEF Stack, FrameInv, FrameType, Row, AtTop
  <2> QED
    BY <1>3, <1>9, <2>1, AppendProperties DEF Followed, OnWalk, AtTop
<1>12. /\ g \in FrameType(sp) /\ g.pos = n + 2 /\ g.row = row
       /\ g.pending = Candidates(sp, p, Target(sp, i).id, n + 2)
  <2>1. FrameInv(sp, p, g)
    <3>1. LET h == Frame(sp, p, NextBase(p, f), NextPos(p, f), Followed(sp, f, i))
          IN  FrameInv(sp, p, h) /\ h.row[1] = f.row[1]
      BY <1>3, NextFrame DEF Stack, AtTop
    <3> QED
      BY <3>1, Zenon
  <2>2. g.pos = n + 2 /\ g.row = row
        /\ g.pending = Candidates(sp, p, row[Len(row)].id, n + 2)
    BY <1>3, <1>9 DEF Frame, AtTop
  <2> QED
    BY <1>10, <2>1, <2>2 DEF FrameInv
<1>14. r \in Seq(FrameType(sp)) /\ TakenUp(fs, n, i, r)
  BY <1>2, RestOfStack, Zenon
<1>15. PICK t : t = Append(r, g)
  OBVIOUS
<1>16. /\ t # <<>> /\ Len(t) = n + 1 /\ t[n + 1] = g
       /\ \A d \in 1..n : t[d] = r[d]
  <2>0. Len(r) = n
    BY <1>14 DEF TakenUp
  <2>1. /\ t \in Seq(FrameType(sp)) /\ Len(t) = n + 1 /\ t[n + 1] = g
        /\ \A d \in 1..n : t[d] = r[d]
    BY <1>12, <1>14, <1>15, <2>0, AppendProperties
  <2> QED
    BY <1>2, <2>1, EmptySeq
<1>17. Standing(sp, p, e, t, n + 1, q)
  <2>1. ASSUME NEW d \in 1..n PROVE OnWalk(sp, e, t[d], d, q)
    <3>1. OnWalk(sp, e, fs[d], d, c)
      BY <1>1 DEF Standing
    <3>2. t[d].pos = fs[d].pos /\ t[d].row = fs[d].row
      BY <1>14, <1>16 DEF TakenUp
    <3>3. \A k \in 1..(d - 1) : q[k] = c[k]
      BY <1>2, <1>4, <1>7
    <3>4. d \in Nat
      OBVIOUS
    <3> QED
      BY <3>1, <3>2, <3>3, <3>4, OnSameWalk, Zenon
  <2>2. OnWalk(sp, e, g, n + 1, q)
    <3>1. ASSUME NEW k \in 1..(n + 1) PROVE g.row[k] = Reached(sp, e, q, k)
      <4>1. CASE k \in 1..n
        <5>1. row[k] = f.row[k] /\ f.row[k] = Reached(sp, e, c, k)
          BY <1>3, <1>10, <4>1 DEF OnWalk, AtTop
        <5> QED
          BY <1>8, <1>12, <4>1, <5>1
      <4>2. CASE k = n + 1
        BY <1>8, <1>10, <1>12, <4>2
      <4> QED
        BY <4>1, <4>2
    <3>2. g.pos = (n + 1) + 1 /\ Len(g.row) = n + 1
      BY <1>10, <1>12
    <3> QED
      BY <3>1, <3>2 DEF OnWalk
  <2>3. ASSUME NEW d \in 1..n PROVE Follows(sp, p, e, q, d) /\ q[d] \notin t[d].pending
    <3>1. CASE d = n
      <4>1. i \in Candidates(sp, p, Reached(sp, e, q, n).id, n + 1)
        BY <1>2, <1>3, <1>8 DEF AtTop
      <4>2. i \notin t[n].pending
        BY <1>2, <1>14, <1>16 DEF TakenUp
      <4> QED
        BY <1>7, <3>1, <4>1, <4>2 DEF Follows
    <3>2. CASE d # n
      <4>1. d \in 1..(n - 1) /\ d \in 1..(m - 1)
        BY <1>2, <1>4, <3>2
      <4>2. Follows(sp, p, e, c, d) /\ c[d] \notin fs[d].pending
        BY <1>1, <4>1 DEF Standing
      <4>3. t[d].pending = fs[d].pending
        BY <1>14, <1>16, <4>1 DEF TakenUp
      <4>4. q[d] = c[d] /\ Reached(sp, e, q, d) = Reached(sp, e, c, d)
        BY <1>7, <1>8, <3>2, <4>1
      <4> QED
        BY <4>2, <4>3, <4>4 DEF Follows
    <3> QED
      BY <3>1, <3>2
  <2>4. ASSUME NEW d \in 1..(n + 1) PROVE OnWalk(sp, e, t[d], d, q)
    BY <1>16, <2>1, <2>2
  <2>5. (n + 1) - 1 = n /\ n + 1 <= Size(p) - 1
    BY <1>2, <1>4
  <2>6. q \in [1..(Size(p) - 1) -> Nat]
    BY <1>2, <1>7
  <2> QED
    BY <1>16, <2>3, <2>4, <2>5, <2>6 DEF Standing
<1>18. ASSUME NEW w \in HalfWalks(sp, p, e)
       PROVE  (\E d \in 1..(n + 1) : LeavesAt(t, n + 1, q, w, d))
                <=> (\E d \in 1..n : LeavesAt(fs, n, c, w, d))
  <2>1. ASSUME NEW d \in 1..(n - 1)
        PROVE  LeavesAt(t, n + 1, q, w, d) <=> LeavesAt(fs, n, c, w, d)
    <3>1. d \in 1..n /\ d \in 1..(m - 1) /\ d # n /\ d < n + 1 /\ d < n
      BY <1>2, <1>4
    <3>2. \A k \in 1..(d - 1) : q[k] = c[k]
      BY <1>4, <1>7, <3>1
    <3>3. t[d].pending = fs[d].pending
      BY <1>14, <1>16, <3>1 DEF TakenUp
    <3>4. q[d] = c[d]
      BY <1>7, <3>1
    <3> QED
      BY <3>1, <3>2, <3>3, <3>4 DEF LeavesAt
  <2>2. LeavesAt(t, n + 1, q, w, n) <=> LeavesAt(fs, n, c, w, n)
    <3>1. \A k \in 1..(n - 1) : q[k] = c[k]
      BY <1>2, <1>4, <1>7
    <3>2. t[n].pending = fs[n].pending \ {i} /\ i \in fs[n].pending
      BY <1>2, <1>14, <1>16 DEF TakenUp
    <3>3. n < n + 1 /\ ~(n < n)
      OBVIOUS
    <3> QED
      BY <1>7, <3>1, <3>2, <3>3 DEF LeavesAt
  <2>3. ~LeavesAt(t, n + 1, q, w, n + 1)
    <3>1. SUFFICES ASSUME LeavesAt(t, n + 1, q, w, n + 1) PROVE FALSE
      OBVIOUS
    <3>2. n \in 1..((n + 1) - 1) /\ n + 1 \in 1..(m - 1)
      BY <1>2, <1>4
    <3>3. w[n] = i /\ w[n + 1] \notin Candidates(sp, p, Target(sp, i).id, n + 2)
      BY <1>7, <1>12, <1>16, <3>1, <3>2 DEF LeavesAt
    <3>4. Follows(sp, p, e, w, n + 1)
      BY <1>2, <3>2 DEF HalfWalks
    <3>5. Reached(sp, e, w, n + 1) = Target(sp, i) /\ (n + 1) + 1 = n + 2
      BY <1>2, <3>3 DEF Reached
    <3> QED
      BY <3>3, <3>4, <3>5 DEF Follows
  <2>4. \A d \in 1..(n + 1) : d \in 1..(n - 1) \/ d = n \/ d = n + 1
    BY <1>2
  <2>5. \A d \in 1..n : d \in 1..(n - 1) \/ d = n
    BY <1>2
  <2>6. n \in 1..n /\ n \in 1..(n + 1) /\ \A d \in 1..(n - 1) : d \in 1..n /\ d \in 1..(n + 1)
    BY <1>2
  <2> QED
    BY <2>1, <2>2, <2>3, <2>4, <2>5, <2>6
<1>19. WalksDone(sp, p, e, t, n + 1, q) = WalksDone(sp, p, e, fs, n, c)
  BY <1>18 DEF WalksDone, Done
<1>20. Progress(sp, p, e, t, rs)
  BY <1>1, <1>2, <1>7, <1>16, <1>17, <1>19 DEF Progress
<1> QED
  BY <1>15, <1>20

(***************************************************************************)
(* The last step of a walk is taken: of the walks that were not done yet,  *)
(* only the one that has been stood on is done now.                        *)
(***************************************************************************)
LastWalk(c, n, i) == [c EXCEPT ![n] = i]

LastStep(sp, p, e, f, n, c, i, w) ==
  /\ w \in WalkRefs(sp, p)
  /\ w \in HalfWalks(sp, p, e) <=> Fits(sp, p, f, i)
  /\ RowsAlong(sp, p, e)[w] = Followed(sp, f, i)

LEMMA WalkOfLastStep ==
  ASSUME NEW sp, NEW p, NEW e \in Element, NEW fs, Stack(sp, p, fs),
         NEW n \in Nat, NEW c \in [1..(Size(p) - 1) -> Nat],
         Standing(sp, p, e, fs, n, c), NEW f, AtTop(sp, p, e, f, n, c),
         NEW i \in f.pending, NextPos(p, f) > Size(p),
         NEW w, w = LastWalk(c, n, i)
  PROVE  n = Size(p) - 1 /\ LastStep(sp, p, e, f, n, c, i, w)
<1>1. PICK m \in Nat : m = Size(p)
  BY DEF Stack
<1>2. n = m - 1 /\ n >= 1
  BY <1>1 DEF AtTop
<1>3. i \in DOMAIN sp.refs /\ i \in Candidates(sp, p, Reached(sp, e, c, n).id, n + 1)
  BY DEF AtTop
<1>4. /\ w \in [1..n -> Nat \cup DOMAIN sp.refs] /\ w[n] = i
      /\ \A k \in 1..n : k # n => w[k] = c[k]
  BY <1>1, <1>2, <1>3 DEF LastWalk
<1>5. ASSUME NEW k \in 1..n PROVE Reached(sp, e, w, k) = Reached(sp, e, c, k)
  <2>1. k # 1 => k - 1 \in 1..n /\ k - 1 # n
    BY <1>2
  <2> QED
    BY <1>4, <2>1 DEF Reached
<1>6. Reached(sp, e, w, m) = Target(sp, i)
  <2>1. m # 1 /\ m - 1 = n
    BY <1>2
  <2> QED
    BY <1>4, <2>1 DEF Reached
<1>7. ASSUME NEW k \in 1..n PROVE Follows(sp, p, e, w, k)
  <2>1. CASE k = n
    BY <1>3, <1>4, <1>5, <2>1 DEF Follows
  <2>2. CASE k # n
    <3>1. k \in 1..(n - 1)
      BY <1>2, <2>2
    <3>2. Follows(sp, p, e, c, k)
      BY <3>1 DEF Standing
    <3> QED
      BY <1>4, <1>5, <2>2, <3>2 DEF Follows
  <2> QED
    BY <2>1, <2>2
<1>8. w \in WalkRefs(sp, p)
  <2>1. \A k \in 1..n : w[k] \in DOMAIN sp.refs
    BY <1>7, CandidatesInSpace DEF Follows
  <2> QED
    BY <1>1, <1>2, <1>4, <2>1 DEF WalkRefs
<1>9. w \in HalfWalks(sp, p, e) <=> Fits(sp, p, f, i)
  <2>1. w \in HalfWalks(sp, p, e) <=> EndFits(sp, p, e, w)
    BY <1>1, <1>2, <1>7, <1>8 DEF HalfWalks
  <2>2. f.pos = m
    BY <1>1, <1>2 DEF AtTop, OnWalk
  <2>3. n + 1 = m /\ m > 1
    BY <1>2
  <2>4. ~ById(p.nodes[m]) => NextBase(p, f) = m
    BY <2>3, Zenon DEF AtTop
  <2>5. EndFits(sp, p, e, w) <=> (ById(p.nodes[m]) \/ IsMatching(Target(sp, i), p.nodes[m]))
    BY <1>1, <1>6, <2>3 DEF EndFits
  <2>6. Fits(sp, p, f, i) <=> (ById(p.nodes[m]) \/ IsMatching(Target(sp, i), p.nodes[m]))
    BY <2>2, <2>4, Zenon DEF Fits
  <2> QED
    BY <2>1, <2>5, <2>6
<1>10. RowsAlong(sp, p, e)[w] = Followed(sp, f, i)
  <2>1. Target(sp, i) \in Element /\ f.row \in Seq(Element)
    BY <1>3, TargetIsElement DEF Stack, AtTop, FrameInv, FrameType, Row
  <2>2. Len(f.row) = n /\ \A k \in 1..n : f.row[k] = Reached(sp, e, c, k)
    BY DEF AtTop, OnWalk
  <2>3. PICK row : row = Followed(sp, f, i)
    OBVIOUS
  <2>4. /\ row \in Seq(Element) /\ Len(row) = n + 1 /\ row[n + 1] = Target(sp, i)
        /\ \A k \in 1..n : row[k] = f.row[k]
    BY <2>1, <2>2, <2>3, AppendProperties DEF Followed
  <2>5. row = [k \in 1..m |-> row[k]]
    BY <1>2, <2>4, SeqDef
  <2>6. \A k \in 1..m : row[k] = Reached(sp, e, w, k)
    <3>1. \A k \in 1..m : k \in 1..n \/ k = m
      BY <1>2
    <3>2. n + 1 = m
      BY <1>2
    <3> QED
      BY <1>5, <1>6, <2>2, <2>4, <3>1, <3>2
  <2>7. RowsAlong(sp, p, e)[w] = [k \in 1..m |-> Reached(sp, e, w, k)]
    BY <1>1, <1>8 DEF RowsAlong
  <2> QED
    BY <2>3, <2>5, <2>6, <2>7
<1> QED
  BY <1>1, <1>2, <1>8, <1>9, <1>10 DEF LastStep

LEMMA DoneByLastStep ==
  ASSUME NEW fs, NEW n \in Nat, n >= 1, NEW c \in [1..n -> Nat], NEW g, NEW i,
         i \in fs[n].pending, TakenUp(fs, n, i, g), NEW S, NEW w \in [1..n -> S]
  PROVE  Done(g, n, c, w) <=> (w = LastWalk(c, n, i) \/ Done(fs, n, c, w))
<1>0. PICK v : v = LastWalk(c, n, i)
  OBVIOUS
<1>1. /\ DOMAIN v = 1..n /\ v = [k \in 1..n |-> v[k]]
      /\ v[n] = i /\ \A k \in 1..(n - 1) : v[k] = c[k]
  <2>1. n \in 1..n /\ \A k \in 1..(n - 1) : k \in 1..n /\ k # n
    OBVIOUS
  <2>2. DOMAIN v = 1..n /\ v[n] = i /\ \A k \in 1..n : k # n => v[k] = c[k]
    BY <1>0, <2>1 DEF LastWalk
  <2>3. v = [k \in 1..n |-> IF k = n THEN i ELSE c[k]]
    BY <1>0, <2>1 DEF LastWalk
  <2>4. v = [k \in 1..n |-> v[k]]
    BY <2>3
  <2> QED
    BY <2>1, <2>2, <2>4
<1>2. w = [k \in 1..n |-> w[k]]
  OBVIOUS
<1>3. w = v <=> (w[n] = i /\ \A k \in 1..(n - 1) : w[k] = c[k])
  <2>1. ASSUME w[n] = i, \A k \in 1..(n - 1) : w[k] = c[k] PROVE w = v
    <3>1. \A k \in 1..n : k = n \/ k \in 1..(n - 1)
      OBVIOUS
    <3>2. \A k \in 1..n : w[k] = v[k]
      BY <1>1, <2>1, <3>1
    <3> QED
      BY <1>1, <1>2, <3>2
  <2> QED
    BY <1>1, <2>1
<1>4. ASSUME NEW d \in 1..(n - 1)
      PROVE  LeavesAt(g, n, c, w, d) <=> LeavesAt(fs, n, c, w, d)
  <2>1. g[d].pending = fs[d].pending
    BY DEF TakenUp
  <2> QED
    BY <2>1 DEF LeavesAt
<1>5. LeavesAt(g, n, c, w, n) <=> (w = v \/ LeavesAt(fs, n, c, w, n))
  <2>1. g[n].pending = fs[n].pending \ {i}
    BY DEF TakenUp
  <2>2. ~(n < n)
    OBVIOUS
  <2> QED
    BY <1>3, <2>1, <2>2 DEF LeavesAt
<1>6. \A d \in 1..n : d = n \/ d \in 1..(n - 1)
  OBVIOUS
<1>7. n \in 1..n /\ \A d \in 1..(n - 1) : d \in 1..n
  OBVIOUS
<1> QED
  BY <1>0, <1>4, <1>5, <1>6, <1>7 DEF Done

(* The walk that is stood on has not been done before.                     *)
LEMMA NotDoneBefore ==
  ASSUME NEW fs, NEW n \in Nat, n >= 1, NEW c \in [1..n -> Nat], NEW i \in fs[n].pending,
         NEW v, v = LastWalk(c, n, i)
  PROVE  ~Done(fs, n, c, v)
<1> SUFFICES ASSUME NEW d \in 1..n PROVE ~LeavesAt(fs, n, c, v, d)
  BY DEF Done
<1>1. CASE d = n
  <2>1. v[n] = i
    BY DEF LastWalk
  <2> QED
    BY <1>1, <2>1 DEF LeavesAt
<1>2. CASE d # n
  <2>1. v[d] = c[d] /\ d < n
    BY <1>2 DEF LastWalk
  <2> QED
    BY <2>1 DEF LeavesAt
<1> QED
  BY <1>1, <1>2

LEMMA RejectProgress ==
  ASSUME NEW sp, NEW p, NEW e \in Element, NEW fs, Stack(sp, p, fs), fs # <<>>,
         NEW rs, Progress(sp, p, e, fs, rs), NEW f, f = fs[Len(fs)],
         NEW i \in f.pending, NextPos(p, f) > Size(p), ~Fits(sp, p, f, i),
         NEW g, g = RestOf(fs, i)
  PROVE  Progress(sp, p, e, g, rs)
<1>1. PICK n \in Nat, c \in [1..(Size(p) - 1) -> Nat] :
        Standing(sp, p, e, fs, n, c)
          /\ Lists(rs, WalksDone(sp, p, e, fs, n, c), RowsAlong(sp, p, e))
  BY DEF Progress
<1>2. n = Len(fs)
  BY <1>1 DEF Standing
<1>3. AtTop(sp, p, e, f, n, c)
  BY <1>1, <1>2, TopFrame
<1>4. PICK w : w = LastWalk(c, n, i)
  OBVIOUS
<1>5. n = Size(p) - 1 /\ LastStep(sp, p, e, f, n, c, i, w)
  BY <1>1, <1>3, <1>4, WalkOfLastStep
<1>6. g # <<>> /\ TakenUp(fs, n, i, g)
  BY <1>2, RestOfStack
<1>10. c \in [1..n -> Nat] /\ i \in fs[n].pending
  BY <1>2, <1>5
<1>11. n >= 1
  BY <1>3 DEF AtTop
<1>7. WalksDone(sp, p, e, g, n, c) = WalksDone(sp, p, e, fs, n, c)
  <2>1. ASSUME NEW v \in HalfWalks(sp, p, e)
        PROVE  Done(g, n, c, v) <=> Done(fs, n, c, v)
    <3>1. Done(g, n, c, v) <=> (v = w \/ Done(fs, n, c, v))
      <4>1. v \in [1..n -> DOMAIN sp.refs]
        BY <1>5 DEF HalfWalks, WalkRefs
      <4> QED
        BY <1>4, <1>6, <1>10, <1>11, <4>1, DoneByLastStep
    <3>2. v # w
      BY <1>5 DEF LastStep
    <3> QED
      BY <3>1, <3>2, Zenon
  <2> QED
    BY <2>1 DEF WalksDone
<1>8. Standing(sp, p, e, g, n, c)
  BY <1>1, <1>6, RestStands
<1> QED
  BY <1>1, <1>6, <1>7, <1>8 DEF Progress

LEMMA AcceptProgress ==
  ASSUME NEW sp, NEW p, NEW e \in Element, NEW fs, Stack(sp, p, fs), fs # <<>>,
         NEW rs \in Seq(Row), Progress(sp, p, e, fs, rs), NEW f, f = fs[Len(fs)],
         NEW i \in f.pending, NextPos(p, f) > Size(p), Fits(sp, p, f, i),
         NEW g, g = RestOf(fs, i)
  PROVE  Progress(sp, p, e, g, Append(rs, Followed(sp, f, i)))
<1>1. PICK n \in Nat, c \in [1..(Size(p) - 1) -> Nat] :
        Standing(sp, p, e, fs, n, c)
          /\ Lists(rs, WalksDone(sp, p, e, fs, n, c), RowsAlong(sp, p, e))
  BY DEF Progress
<1>2. n = Len(fs)
  BY <1>1 DEF Standing
<1>3. AtTop(sp, p, e, f, n, c)
  BY <1>1, <1>2, TopFrame
<1>4. PICK w : w = LastWalk(c, n, i)
  OBVIOUS
<1>5. n = Size(p) - 1 /\ LastStep(sp, p, e, f, n, c, i, w)
  BY <1>1, <1>3, <1>4, WalkOfLastStep
<1>6. g # <<>> /\ TakenUp(fs, n, i, g)
  BY <1>2, RestOfStack
<1>14. c \in [1..n -> Nat] /\ i \in fs[n].pending
  BY <1>2, <1>5
<1>15. n >= 1
  BY <1>3 DEF AtTop
<1>7. PICK D, E : D = WalksDone(sp, p, e, fs, n, c) /\ E = WalksDone(sp, p, e, g, n, c)
  OBVIOUS
<1>8. E = D \cup {w}
  <2>1. ASSUME NEW v \in HalfWalks(sp, p, e) PROVE v \in E <=> (v = w \/ v \in D)
    <3>1. Done(g, n, c, v) <=> (v = w \/ Done(fs, n, c, v))
      <4>1. v \in [1..n -> DOMAIN sp.refs]
        BY <1>5 DEF HalfWalks, WalkRefs
      <4> QED
        BY <1>4, <1>6, <1>14, <1>15, <4>1, DoneByLastStep
    <3> QED
      BY <1>7, <3>1 DEF WalksDone
  <2>2. w \in HalfWalks(sp, p, e)
    BY <1>5 DEF LastStep
  <2>3. D \subseteq HalfWalks(sp, p, e) /\ E \subseteq HalfWalks(sp, p, e)
    BY <1>7 DEF WalksDone
  <2> QED
    BY <2>1, <2>2, <2>3
<1>9. w \notin D
  <2>1. ~Done(fs, n, c, w)
    BY <1>3, <1>4, <1>14, NotDoneBefore DEF AtTop
  <2> QED
    BY <1>7, <2>1 DEF WalksDone
<1>10. PICK h, row : h = RowsAlong(sp, p, e) /\ row = Followed(sp, f, i)
  OBVIOUS
<1>11. h[w] = row /\ row \in Row
  <2>1. row \in Row
    BY <1>3, <1>10, FollowedRow DEF AtTop, Stack
  <2> QED
    BY <1>5, <1>10, <2>1 DEF LastStep
<1>12. Lists(Append(rs, row), E, h)
  <2>1. Lists(rs, D, h)
    BY <1>1, <1>7, <1>10
  <2> QED
    BY <1>8, <1>9, <1>11, <2>1, AppendLists
<1>13. Standing(sp, p, e, g, n, c)
  BY <1>1, <1>6, RestStands
<1> QED
  BY <1>1, <1>6, <1>7, <1>10, <1>12, <1>13 DEF Progress

(* A check() without references left: its walks are all done.              *)
LEMMA ReturnProgress ==
  ASSUME NEW sp, NEW p, NEW e, NEW fs, Stack(sp, p, fs), fs # <<>>,
         NEW rs, Progress(sp, p, e, fs, rs), fs[Len(fs)].pending = {}
  PROVE  Progress(sp, p, e, SubSeq(fs, 1, Len(fs) - 1), rs)
<1>1. PICK n \in Nat, c \in [1..(Size(p) - 1) -> Nat] :
        Standing(sp, p, e, fs, n, c)
          /\ Lists(rs, WalksDone(sp, p, e, fs, n, c), RowsAlong(sp, p, e))
  BY DEF Progress
<1>2. n = Len(fs) /\ n <= Size(p) - 1
  BY <1>1 DEF Standing
<1>3. n >= 1
  BY <1>2, EmptySeq DEF Stack
<1>4. PICK m \in Nat : m = n - 1
  BY <1>3
<1>5. PICK g : g = SubSeq(fs, 1, Len(fs) - 1)
  OBVIOUS
<1>6. g \in Seq(FrameType(sp)) /\ Len(g) = m /\ \A d \in 1..m : g[d] = fs[d]
  <2>1. fs \in Seq(FrameType(sp)) /\ m \in 0..Len(fs)
    BY <1>2, <1>4 DEF Stack
  <2>2. g = SubSeq(fs, 1, m)
    BY <1>2, <1>4, <1>5
  <2> QED
    BY <2>1, <2>2, PrefixLength
<1>7. CASE m = 0
  <2>1. n = 1 /\ g = <<>>
    BY <1>4, <1>6, <1>7, EmptySeq
  <2>2. ASSUME NEW w \in HalfWalks(sp, p, e) PROVE LeavesAt(fs, 1, c, w, 1)
    BY <1>2, <2>1 DEF LeavesAt
  <2>3. WalksDone(sp, p, e, fs, n, c) = HalfWalks(sp, p, e)
    BY <2>1, <2>2 DEF WalksDone, Done
  <2> QED
    BY <1>1, <1>5, <2>1, <2>3 DEF Progress
<1>8. CASE m # 0
  <2>1. m >= 1 /\ m + 1 = n
    BY <1>4, <1>8
  <2>2. g # <<>>
    BY <1>6, <1>8, EmptySeq
  <2>3. Standing(sp, p, e, g, m, c)
    <3>1. ASSUME NEW d \in 1..m PROVE OnWalk(sp, e, g[d], d, c)
      <4>1. d \in 1..n
        BY <1>4
      <4> QED
        BY <1>1, <1>6, <4>1 DEF Standing
    <3>2. ASSUME NEW d \in 1..(m - 1)
          PROVE  Follows(sp, p, e, c, d) /\ c[d] \notin g[d].pending
      <4>1. d \in 1..(n - 1) /\ d \in 1..m
        BY <1>4
      <4> QED
        BY <1>1, <1>6, <4>1 DEF Standing
    <3>3. m <= Size(p) - 1
      BY <1>2, <1>4 DEF Stack
    <3> QED
      BY <1>1, <1>6, <3>1, <3>2, <3>3 DEF Standing
  <2>4. ASSUME NEW w \in HalfWalks(sp, p, e)
        PROVE  Done(g, m, c, w) <=> Done(fs, n, c, w)
    <3>1. ASSUME NEW d \in 1..(m - 1)
          PROVE  LeavesAt(g, m, c, w, d) <=> LeavesAt(fs, n, c, w, d)
      <4>1. g[d] = fs[d] /\ d < m /\ d < n
        BY <1>4, <1>6
      <4> QED
        BY <4>1 DEF LeavesAt
    <3>2. g[m] = fs[m] /\ ~(m < m) /\ m < n /\ ~(n < n)
      BY <1>6, <2>1
    <3>3. c[m] \notin fs[m].pending
      BY <1>1, <1>4, <2>1 DEF Standing
    <3>4. \A k \in 1..(n - 1) : k \in 1..(m - 1) \/ k = m
      BY <1>4, <2>1
    <3>5. m \in 1..(n - 1) /\ \A k \in 1..(m - 1) : k \in 1..(n - 1)
      BY <1>4, <2>1
    <3>6. LeavesAt(g, m, c, w, m) <=> (LeavesAt(fs, n, c, w, m) \/ LeavesAt(fs, n, c, w, n))
      <4>1. LeavesAt(g, m, c, w, m)
              <=> (\A k \in 1..(m - 1) : w[k] = c[k]) /\ w[m] \notin fs[m].pending
        BY <3>2 DEF LeavesAt
      <4>2. LeavesAt(fs, n, c, w, m)
              <=> (\A k \in 1..(m - 1) : w[k] = c[k]) /\ w[m] \notin fs[m].pending
                    /\ w[m] # c[m]
        BY <3>2 DEF LeavesAt
      <4>3. LeavesAt(fs, n, c, w, n) <=> \A k \in 1..(n - 1) : w[k] = c[k]
        BY <1>2, <3>2 DEF LeavesAt
      <4>4. (\A k \in 1..(n - 1) : w[k] = c[k])
              <=> (\A k \in 1..(m - 1) : w[k] = c[k]) /\ w[m] = c[m]
        BY <3>4, <3>5
      <4> QED
        BY <3>3, <4>1, <4>2, <4>3, <4>4
    <3>7. (\A d \in 1..n : d \in 1..(m - 1) \/ d = m \/ d = n)
            /\ (\A d \in 1..m : d \in 1..(m - 1) \/ d = m)
      BY <1>4, <2>1
    <3>8. /\ m \in 1..n /\ n \in 1..n /\ m \in 1..m
          /\ \A d \in 1..(m - 1) : d \in 1..n /\ d \in 1..m
      BY <1>4, <2>1
    <3> QED
      BY <3>1, <3>6, <3>7, <3>8 DEF Done
  <2>5. WalksDone(sp, p, e, g, m, c) = WalksDone(sp, p, e, fs, n, c)
    BY <2>4 DEF WalksDone
  <2> QED
    BY <1>1, <1>5, <2>2, <2>3, <2>5 DEF Progress
<1> QED
  BY <1>7, <1>8

-----------------------------------------------------------------------------
(***************************************************************************)
(* The rows of both halves together.  Every right row, from the first on,  *)
(* is joined with all left rows; the right walks in D have had their turn. *)
(***************************************************************************)
Joined(sp, r, l, e) ==
  [x \in HalfWalks(sp, r, e) \X HalfWalks(sp, l, e) |->
     Tail(RowsAlong(sp, l, e)[x[2]]) \o RowsAlong(sp, r, e)[x[1]]]

MergedSoFar(sp, r, l, e, rts, fnd) ==
  \E D \in SUBSET HalfWalks(sp, r, e) :
    /\ Lists(rts, HalfWalks(sp, r, e) \ D, RowsAlong(sp, r, e))
    /\ Lists(fnd, D \X HalfWalks(sp, l, e), Joined(sp, r, l, e))

LEMMA MergeBegins ==
  ASSUME NEW sp, NEW r, NEW l, NEW e, NEW rs,
         Lists(rs, HalfWalks(sp, r, e), RowsAlong(sp, r, e))
  PROVE  MergedSoFar(sp, r, l, e, rs, <<>>)
<1>1. PICK D : D = {}
  OBVIOUS
<1>2. HalfWalks(sp, r, e) \ D = HalfWalks(sp, r, e) /\ D \X HalfWalks(sp, l, e) = {}
  BY <1>1
<1>3. Lists(<<>>, D \X HalfWalks(sp, l, e), Joined(sp, r, l, e))
  BY <1>2, EmptyLists
<1>4. D \in SUBSET HalfWalks(sp, r, e)
  BY <1>1
<1> QED
  BY <1>2, <1>3, <1>4 DEF MergedSoFar

LEMMA MergeProgress ==
  ASSUME NEW sp, NEW r, NEW l, NEW e,
         NEW rts \in Seq(Row), rts # <<>>, NEW fnd \in Seq(Row),
         MergedSoFar(sp, r, l, e, rts, fnd),
         NEW lefts \in Seq(Row),
         Lists(lefts, HalfWalks(sp, l, e), RowsAlong(sp, l, e)),
         NEW new \in Seq(Row), new = Merge(lefts, Head(rts))
  PROVE  MergedSoFar(sp, r, l, e, Tail(rts), fnd \o new)
<1>1. PICK R, L, hr, hl, j :
        /\ R = HalfWalks(sp, r, e) /\ hr = RowsAlong(sp, r, e)
        /\ L = HalfWalks(sp, l, e) /\ hl = RowsAlong(sp, l, e)
        /\ j = Joined(sp, r, l, e)
  OBVIOUS
<1>2. PICK D \in SUBSET R : Lists(rts, R \ D, hr) /\ Lists(fnd, D \X L, j)
  BY <1>1 DEF MergedSoFar
<1>3. PICK x \in R \ D : Head(rts) = hr[x] /\ Lists(Tail(rts), (R \ D) \ {x}, hr)
  BY <1>2, TailLists
<1>4. \A y \in L : j[<<x, y>>] = Tail(hl[y]) \o hr[x]
  BY <1>1, <1>3 DEF Joined
<1>5. PICK n \in Nat : n = Len(lefts)
  BY LenProperties
<1>6. PICK back : back = [i \in 1..n |-> lefts[(n - i) + 1]]
  OBVIOUS
<1>7. back \in Seq(Row) /\ Len(back) = n /\ \A i \in 1..n : back[i] = lefts[n + 1 - i]
  <2>1. back = [i \in 1..n |-> lefts[(n - i) + 1]]
    BY <1>6
  <2>2. ASSUME NEW i \in 1..n PROVE lefts[(n - i) + 1] \in Row /\ (n - i) + 1 = n + 1 - i
    <3>1. (n - i) + 1 \in 1..n /\ (n - i) + 1 = n + 1 - i
      OBVIOUS
    <3> QED
      BY <1>5, <3>1, ElementOfSeq
  <2>3. back \in [1..n -> Row]
    BY <2>1, <2>2
  <2> QED
    BY <2>1, <2>2, <2>3, SeqDef, LenProperties
<1>8. Lists(back, L, hl)
  BY <1>1, <1>5, <1>7, ReverseLists
<1>9. Lists(new, {x} \X L, j)
  <2>1. new = [i \in 1..n |-> Tail(back[i]) \o hr[x]]
    BY <1>3, <1>5, <1>6 DEF Merge
  <2>2. Len(new) = n /\ \A i \in 1..n : new[i] = Tail(back[i]) \o hr[x]
    <3>1. DOMAIN new = 1..n /\ \A i \in 1..n : new[i] = Tail(back[i]) \o hr[x]
      BY <2>1
    <3>2. PICK m \in Nat : m = Len(new) /\ DOMAIN new = 1..m
      BY LenProperties
    <3>3. n = m
      BY <3>1, <3>2
    <3> QED
      BY <3>1, <3>2, <3>3
  <2>3. PICK T, g : T = {x} \X L /\ g = [y \in L |-> <<x, y>>]
    OBVIOUS
  <2>4. Bijects(g, L, T)
    BY <2>3 DEF Bijects
  <2>5. Rewrites(back, L, hl, new, j, g)
    <3>1. ASSUME NEW i \in 1..n, NEW y \in L, back[i] = hl[y] PROVE new[i] = j[g[y]]
      <4>1. g[y] = <<x, y>> /\ j[<<x, y>>] = Tail(hl[y]) \o hr[x]
        BY <1>4, <2>3
      <4>2. new[i] = Tail(back[i]) \o hr[x]
        BY <2>2
      <4> QED
        BY <3>1, <4>1, <4>2, Zenon
    <3>2. Len(new) = n /\ Len(back) = n
      BY <1>7, <2>2
    <3> QED
      BY <3>1, <3>2 DEF Rewrites
  <2>6. Lists(new, T, j)
    BY <1>7, <1>8, <2>4, <2>5, MapLists
  <2> QED
    BY <2>3, <2>6
<1>10. PICK E \in SUBSET R : E = D \cup {x}
  BY <1>3
<1>11. /\ (R \ D) \ {x} = R \ E
       /\ E \X L = (D \X L) \cup ({x} \X L)
       /\ (D \X L) \cap ({x} \X L) = {}
  BY <1>3, <1>10
<1>12. Lists(fnd \o new, E \X L, j)
  BY <1>2, <1>9, <1>11, ConcatLists
<1> QED
  BY <1>1, <1>3, <1>10, <1>11, <1>12 DEF MergedSoFar

LEMMA MergeEnds ==
  ASSUME NEW sp, NEW r, NEW l, NEW e, NEW fnd,
         MergedSoFar(sp, r, l, e, <<>>, fnd)
  PROVE  Lists(fnd, HalfWalks(sp, r, e) \X HalfWalks(sp, l, e), Joined(sp, r, l, e))
<1>1. PICK R : R = HalfWalks(sp, r, e)
  OBVIOUS
<1>2. PICK D \in SUBSET R :
        /\ Lists(<<>>, R \ D, RowsAlong(sp, r, e))
        /\ Lists(fnd, D \X HalfWalks(sp, l, e), Joined(sp, r, l, e))
  BY <1>1 DEF MergedSoFar
<1>3. <<>> \in Seq(Row)
  OBVIOUS
<1>4. R \ D = {}
  BY <1>2, <1>3, OnlyEmptyListsNothing
<1>5. D = R
  BY <1>4
<1> QED
  BY <1>1, <1>2, <1>5

-----------------------------------------------------------------------------
(***************************************************************************)
(* The invariant for the patterns that the code handles: how far the       *)
(* running check() and the merging of its rows have come.                  *)
(***************************************************************************)
PromiseInv ==
  /\ Supported(space, path, idx)
  /\ phase \in {"idle", "right"} => found = <<>>
  /\ Checking => Progress(space, Half, Head(starts), frames, rows)
  /\ phase = "left" => MergedSoFar(space, Rhs, Lhs, Head(starts), rights, found)

(* The rows a start element e contributes, as the halves give them.        *)
Contributes(rs, e) ==
  IF idx = 0
  THEN Lists(rs, HalfWalks(space, Rhs, e), RowsAlong(space, Rhs, e))
  ELSE Lists(rs, HalfWalks(space, Rhs, e) \X HalfWalks(space, Lhs, e),
             Joined(space, Rhs, Lhs, e))

Keeps ==
  \/ UNCHANGED <<space, path, idx, starts, results>>
  \/ /\ starts # <<>>
     /\ \E rs \in Seq(Row) : Emplace(rs) /\ Contributes(rs, Head(starts))

LEMMA SupportedParts ==
  ASSUME Supported(space, path, idx)
  PROVE  /\ idx <= 1
         /\ ~Misaligned(Rhs)
         /\ \A c \in DOMAIN path.nodes \ {idx + 1} :
              ById(path.nodes[c]) \/ c \in 2..(Len(path.nodes) - 1)
                => path.nodes[c].type = NoId
         /\ \A n \in NodeId :
              Cardinality(Fitting(space, n, "both", AnyRef, NodeClass)) <= MaxRefs
BY DEF Supported, Rhs

LEMMA SupportStays ==
  ASSUME Supported(space, path, idx), UNCHANGED input
  PROVE  Supported(space, path, idx)'
BY DEF input

LEMMA StackOfCheck ==
  ASSUME IInv, PromiseInv, Checking
  PROVE  /\ Stack(space, Half, frames)
         /\ Size(Half) >= 1
         /\ starts # <<>>
         /\ Head(starts) \in Element
         /\ Progress(space, Half, Head(starts), frames, rows)
         /\ rows \in Seq(Row)
<1>1. /\ space \in Space /\ starts \in Seq(Element) /\ starts # <<>>
      /\ frames \in Seq(FrameType(space)) /\ rows \in Seq(Row)
      /\ \A f \in Range(frames) : FrameInv(space, Half, f)
      /\ SplittablePath(path, idx)
      /\ phase = "left" => idx > 0
  BY DEF IInv, TypeOK, CheckInv, RightsInv
<1>2. Head(starts) \in Element
  BY <1>1, RangeOfTail
<1>3. Size(Half) \in Nat /\ Size(Half) >= 1 /\ ~Misaligned(Half)
  <2>1. CASE phase = "right"
    BY <1>1, <2>1, HalfSizes, SupportedParts DEF PromiseInv
  <2>2. CASE phase = "left"
    <3>1. Half = Lhs /\ Size(Lhs) = idx + 1 /\ idx \in Nat /\ idx > 0
      BY <1>1, <2>2, HalfSizes
    <3>2. idx + 1 <= 2
      BY <3>1, SupportedParts DEF PromiseInv
    <3>3. Size(Lhs) = 2 /\ 2..(2 - 1) = {}
      BY <3>1, <3>2
    <3> QED
      BY <3>1, <3>3 DEF Misaligned
  <2> QED
    BY <2>1, <2>2 DEF Checking
<1> QED
  BY <1>1, <1>2, <1>3 DEF Stack, PromiseInv

LEMMA CheckedHalf ==
  ASSUME IInv, PromiseInv, Checking, frames = <<>>
  PROVE  Lists(rows, HalfWalks(space, Half, Head(starts)),
               RowsAlong(space, Half, Head(starts)))
BY StackOfCheck DEF Progress

(* A step within a check() concerns its progress alone.                    *)
LEMMA StepOfCheck ==
  ASSUME IInv, PromiseInv, Checking,
         UNCHANGED <<input, starts, phase, rights, found, results>>,
         Progress(space, Half, Head(starts), frames', rows')
  PROVE  PromiseInv' /\ Keeps
<1>1. UNCHANGED input /\ space' = space /\ Half' = Half /\ Rhs' = Rhs /\ Lhs' = Lhs
      /\ starts' = starts /\ rights' = rights /\ found' = found /\ phase' = phase
  BY HalvesUnchanged
<1>2. Supported(space, path, idx)'
  BY <1>1, SupportStays DEF PromiseInv
<1>3. Progress(space, Half, Head(starts), frames, rows)'
  BY <1>1
<1>4. phase' = "left" => MergedSoFar(space, Rhs, Lhs, Head(starts), rights, found)'
  BY <1>1 DEF PromiseInv
<1>5. phase' \in {"idle", "right"} => found' = <<>>
  BY <1>1 DEF PromiseInv
<1>6. UNCHANGED <<space, path, idx, starts, results>>
  BY DEF input
<1> QED
  BY <1>2, <1>3, <1>4, <1>5, <1>6 DEF PromiseInv, Keeps

LEMMA FollowKeeps ==
  ASSUME IInv, PromiseInv, NEW i, Descend(i) \/ Reject(i) \/ Accept(i)
  PROVE  PromiseInv' /\ Keeps
<1>1. /\ Following(i)
      /\ UNCHANGED <<input, starts, phase, rights, found, results>>
  BY DEF Descend, Reject, Accept, Ending
<1>2. Checking /\ frames # <<>> /\ i \in Top.pending
  BY <1>1 DEF Following, Checking, First
<1>3. PICK sp, p, e, fs, rs, f, r :
        /\ sp = space /\ p = Half /\ e = Head(starts) /\ fs = frames /\ rs = rows
        /\ f = Top /\ r = Rest(i)
  OBVIOUS
<1>4. /\ Stack(sp, p, fs) /\ e \in Element /\ rs \in Seq(Row)
      /\ Progress(sp, p, e, fs, rs) /\ fs # <<>>
      /\ f = fs[Len(fs)] /\ i \in f.pending /\ r = RestOf(fs, i)
  BY <1>2, <1>3, StackOfCheck DEF Top, Rest, RestOf
<1>5. Progress(sp, p, e, frames', rows')
  <2>1. CASE Descend(i)
    <3>1. PICK g : g = Frame(sp, p, NextBase(p, f), NextPos(p, f), Followed(sp, f, i))
      OBVIOUS
    <3>2. NextPos(p, f) <= Size(p) /\ frames' = Append(r, g) /\ rows' = rs
      BY <1>3, <2>1, <3>1 DEF Descend
    <3> QED
      BY <1>4, <3>1, <3>2, DescendProgress
  <2>2. CASE Reject(i)
    <3>1. NextPos(p, f) > Size(p) /\ ~Fits(sp, p, f, i) /\ frames' = r /\ rows' = rs
      BY <1>3, <2>2 DEF Reject, Ending
    <3> QED
      BY <1>4, <3>1, RejectProgress
  <2>3. CASE Accept(i)
    <3>1. /\ NextPos(p, f) > Size(p) /\ Fits(sp, p, f, i)
          /\ frames' = r /\ rows' = Append(rs, Followed(sp, f, i))
      BY <1>3, <2>3 DEF Accept, Ending
    <3> QED
      BY <1>4, <3>1, AcceptProgress
  <2> QED
    BY <2>1, <2>2, <2>3
<1> QED
  BY <1>1, <1>2, <1>3, <1>5, StepOfCheck

LEMMA ReturnKeeps ==
  ASSUME IInv, PromiseInv, Return
  PROVE  PromiseInv' /\ Keeps
<1>1. /\ Checking /\ frames # <<>> /\ frames[Len(frames)].pending = {}
      /\ frames' = SubSeq(frames, 1, Len(frames) - 1) /\ rows' = rows
      /\ UNCHANGED <<input, starts, phase, rights, found, results>>
  BY DEF Return, Checking, Top
<1>2. Progress(space, Half, Head(starts), frames', rows')
  BY <1>1, StackOfCheck, ReturnProgress
<1> QED
  BY <1>1, <1>2, StepOfCheck

LEMMA FilterKeeps ==
  ASSUME IInv, PromiseInv, Filter
  PROVE  PromiseInv' /\ Keeps
<1>1. /\ phase = "idle" /\ starts # <<>> /\ phase' = "right"
      /\ frames' = CheckFrames(space, Rhs, Head(starts))
      /\ rows' = CheckRows(Rhs, Head(starts))
      /\ UNCHANGED input /\ UNCHANGED <<starts, rights, found, results>>
  BY DEF Filter, Check
<1>2. /\ space' = space /\ Half' = Rhs
  BY <1>1, HalvesUnchanged
<1>3. Supported(space, path, idx)'
  BY <1>1, SupportStays DEF PromiseInv
<1>4. Progress(space, Half, Head(starts), frames, rows)'
  <2>1. space \in Space /\ Size(Rhs) \in Nat /\ Size(Rhs) >= 1
    BY HalfSizes DEF IInv, TypeOK
  <2>2. Progress(space, Rhs, Head(starts), CheckFrames(space, Rhs, Head(starts)),
                 CheckRows(Rhs, Head(starts)))
    BY <2>1, CheckProgress
  <2> QED
    BY <1>1, <1>2, <2>2
<1>5. found' = <<>> /\ phase' # "left"
  BY <1>1 DEF PromiseInv
<1>6. UNCHANGED <<space, path, idx, starts, results>>
  BY <1>1 DEF input
<1> QED
  BY <1>3, <1>4, <1>5, <1>6 DEF PromiseInv, Keeps

(* filter() returns.                                                       *)
LEMMA EmplaceKeeps ==
  ASSUME IInv, PromiseInv, UNCHANGED input, starts # <<>>,
         NEW rs \in Seq(Row), Contributes(rs, Head(starts)), Emplace(rs)
  PROVE  PromiseInv' /\ Keeps
<1>1. Supported(space, path, idx)'
  BY SupportStays DEF PromiseInv, Emplace
<1>2. phase' = "idle" /\ found' = <<>>
  BY DEF Emplace
<1> QED
  BY <1>1, <1>2 DEF PromiseInv, Keeps, Checking

(* checkPath goes on to check the left half.                               *)
LEMMA BeginLeftKeeps ==
  ASSUME IInv, PromiseInv, UNCHANGED input, idx > 0, starts # <<>>,
         Check("left", Lhs, Head(starts)), UNCHANGED <<starts, results>>,
         MergedSoFar(space, Rhs, Lhs, Head(starts), rights', found')
  PROVE  PromiseInv' /\ Keeps
<1>1. phase' = "left" /\ frames' = CheckFrames(space, Lhs, Head(starts))
      /\ rows' = CheckRows(Lhs, Head(starts))
  BY DEF Check
<1>2. space' = space /\ Half' = Lhs /\ Rhs' = Rhs /\ Lhs' = Lhs
  BY <1>1, HalvesUnchanged
<1>3. Supported(space, path, idx)'
  BY SupportStays DEF PromiseInv
<1>4. Progress(space, Half, Head(starts), frames, rows)'
  <2>1. space \in Space /\ Size(Lhs) \in Nat /\ Size(Lhs) >= 1
    BY HalfSizes DEF IInv, TypeOK
  <2>2. Progress(space, Lhs, Head(starts), CheckFrames(space, Lhs, Head(starts)),
                 CheckRows(Lhs, Head(starts)))
    BY <2>1, CheckProgress
  <2> QED
    BY <1>1, <1>2, <2>2
<1>5. MergedSoFar(space, Rhs, Lhs, Head(starts), rights, found)'
  BY <1>2
<1>6. UNCHANGED <<space, path, idx, starts, results>>
  BY DEF input
<1> QED
  BY <1>1, <1>3, <1>4, <1>5, <1>6 DEF PromiseInv, Keeps

LEMMA RightDoneKeeps ==
  ASSUME IInv, PromiseInv, RightDone
  PROVE  PromiseInv' /\ Keeps
<1>1. phase = "right" /\ frames = <<>> /\ UNCHANGED input
  BY DEF RightDone
<1>2. /\ Checking /\ Half = Rhs
      /\ starts # <<>> /\ rows \in Seq(Row) /\ found = <<>>
      /\ \A row \in Range(rows) : row[1] = Head(starts)
  BY <1>1, HalfSizes DEF IInv, CheckInv, Checking, TypeOK, PromiseInv
<1>3. PICK e, rs : e = Head(starts) /\ rs = rows
  OBVIOUS
<1>4. Lists(rs, HalfWalks(space, Rhs, e), RowsAlong(space, Rhs, e))
  BY <1>1, <1>2, <1>3, CheckedHalf
<1>5. CASE idx = 0 \/ rows = <<>>
  <2>1. Emplace(rs)
    BY <1>3, <1>5 DEF RightDone
  <2>2. Contributes(rs, e)
    <3>1. CASE idx = 0
      BY <1>4, <3>1 DEF Contributes
    <3>2. CASE idx # 0 /\ rs = <<>>
      <4>1. PICK W, L : W = HalfWalks(space, Rhs, e) /\ L = HalfWalks(space, Lhs, e)
        OBVIOUS
      <4>2. W = {}
        BY <1>2, <1>3, <1>4, <3>2, <4>1, OnlyEmptyListsNothing
      <4>3. W \X L = {}
        BY <4>2
      <4>4. Lists(rs, W \X L, Joined(space, Rhs, Lhs, e))
        BY <3>2, <4>3, EmptyLists
      <4> QED
        BY <3>2, <4>1, <4>4 DEF Contributes
    <3> QED
      BY <1>3, <1>5, <3>1, <3>2
  <2> QED
    BY <1>1, <1>2, <1>3, <2>1, <2>2, EmplaceKeeps
<1>6. CASE ~(idx = 0 \/ rows = <<>>)
  <2>1. /\ Check("left", Lhs, Head(rows)[1]) /\ rights' = rs
        /\ UNCHANGED <<starts, found, results>>
    BY <1>3, <1>6 DEF RightDone
  <2>2. Head(rows)[1] = Head(starts)
    BY <1>2, <1>6, RangeOfTail
  <2>3. idx > 0
    BY <1>6, HalfSizes DEF IInv
  <2>4. found' = <<>>
    BY <1>2, <2>1
  <2>5. MergedSoFar(space, Rhs, Lhs, e, rights', found')
    BY <1>4, <2>1, <2>4, MergeBegins
  <2>6. Check("left", Lhs, Head(starts))
    BY <2>1, <2>2
  <2> QED
    BY <1>1, <1>2, <1>3, <2>1, <2>3, <2>5, <2>6, BeginLeftKeeps
<1> QED
  BY <1>5, <1>6

LEMMA LeftDoneKeeps ==
  ASSUME IInv, PromiseInv, LeftDone
  PROVE  PromiseInv' /\ Keeps
<1>1. /\ phase = "left" /\ frames = <<>> /\ UNCHANGED input
      /\ IF Len(rights) = 1
         THEN Emplace(found \o Merge(rows, Head(rights)))
         ELSE /\ Check("left", Lhs, rights[2][1])
              /\ rights' = Tail(rights)
              /\ found' = found \o Merge(rows, Head(rights))
              /\ UNCHANGED <<starts, results>>
  BY DEF LeftDone
<1>2. /\ Checking /\ Half = Lhs /\ idx > 0 /\ SplittablePath(path, idx)
      /\ starts # <<>> /\ rights # <<>> /\ rights \in Seq(Row)
      /\ rows \in Seq(Row) /\ found \in Seq(Row)
  BY <1>1, HalfSizes DEF IInv, CheckInv, Checking, RightsInv, TypeOK
<1>3. /\ Head(rights) \in Row /\ Linked(space, Rhs, Head(rights))
      /\ Head(rights)[1] = Head(starts)
  BY <1>2, RangeOfTail DEF IInv, RightsInv
<1>4. \A left \in Range(rows) : Linked(space, Lhs, left) /\ left[1] = Head(rights)[1]
  BY <1>2, <1>3 DEF IInv, CheckInv
<1>5. PICK new \in Seq(Row) : new = Merge(rows, Head(rights))
  BY <1>2, <1>3, <1>4, MergeRows
<1>6. PICK e : e = Head(starts)
  OBVIOUS
<1>7. Lists(rows, HalfWalks(space, Lhs, e), RowsAlong(space, Lhs, e))
  BY <1>1, <1>2, <1>6, CheckedHalf
<1>8. MergedSoFar(space, Rhs, Lhs, e, rights, found)
  BY <1>1, <1>6 DEF PromiseInv
<1>9. PICK merged \in Seq(Row) : merged = found \o new
  BY <1>2, ConcatProperties
<1>10. MergedSoFar(space, Rhs, Lhs, e, Tail(rights), merged)
  BY <1>2, <1>5, <1>7, <1>8, <1>9, MergeProgress
<1>11. PICK n \in Nat : n = Len(rights) /\ Len(Tail(rights)) = n - 1
  BY <1>2, RangeOfTail, LenProperties
<1>12. CASE Len(rights) = 1
  <2>1. Emplace(merged)
    BY <1>1, <1>5, <1>9, <1>12
  <2>2. Tail(rights) = <<>>
    <3>1. Tail(rights) \in Seq(Row) /\ Len(Tail(rights)) = 0
      BY <1>2, <1>11, <1>12, RangeOfTail
    <3> QED
      BY <3>1, EmptySeq
  <2>3. MergedSoFar(space, Rhs, Lhs, e, <<>>, merged)
    BY <1>10, <2>2
  <2>4. Contributes(merged, e)
    <3>1. idx # 0
      BY <1>2
    <3> QED
      BY <2>3, <3>1, MergeEnds DEF Contributes
  <2> QED
    BY <1>1, <1>2, <1>6, <2>1, <2>4, EmplaceKeeps
<1>13. CASE Len(rights) # 1
  <2>1. /\ Check("left", Lhs, rights[2][1]) /\ rights' = Tail(rights) /\ found' = merged
        /\ UNCHANGED <<starts, results>>
    BY <1>1, <1>5, <1>9, <1>13
  <2>2. n >= 2
    <3>1. n # 0
      BY <1>2, <1>11, EmptySeq
    <3> QED
      BY <1>11, <1>13, <3>1
  <2>3. rights[2] \in Range(rights)
    BY <1>2, <1>11, <2>2, InRange
  <2>4. rights[2][1] = Head(starts)
    BY <2>3 DEF IInv, RightsInv
  <2>5. Check("left", Lhs, Head(starts))
    BY <2>1, <2>4
  <2>6. MergedSoFar(space, Rhs, Lhs, Head(starts), rights', found')
    BY <1>6, <1>10, <2>1
  <2> QED
    BY <1>1, <1>2, <2>1, <2>5, <2>6, BeginLeftKeeps
<1> QED
  BY <1>12, <1>13

LEMMA AbortKeeps ==
  ASSUME IInv, PromiseInv, NEW i, AssertionFails(i)
  PROVE  PromiseInv' /\ Keeps
<1>1. /\ phase' = "aborted" /\ UNCHANGED input
      /\ UNCHANGED <<starts, frames, rows, rights, found, results>>
  BY DEF AssertionFails
<1>2. Supported(space, path, idx)'
  BY <1>1, SupportStays DEF PromiseInv
<1>3. UNCHANGED <<space, path, idx, starts, results>>
  BY <1>1 DEF input
<1> QED
  BY <1>1, <1>2, <1>3 DEF PromiseInv, Keeps, Checking

LEMMA NextKeeps ==
  ASSUME IInv, PromiseInv, Next
  PROVE  PromiseInv' /\ Keeps
<1>1. ASSUME NEW i \in DOMAIN space.refs,
             Descend(i) \/ Reject(i) \/ Accept(i) \/ AssertionFails(i)
      PROVE  PromiseInv' /\ Keeps
  BY <1>1, FollowKeeps, AbortKeeps
<1> QED
  BY <1>1, FilterKeeps, ReturnKeeps, RightDoneKeeps, LeftDoneKeeps DEF Next

LEMMA StutterKeeps ==
  ASSUME IInv, PromiseInv, UNCHANGED vars
  PROVE  PromiseInv' /\ Keeps
<1>1. UNCHANGED input /\ UNCHANGED <<starts, phase, frames, rows, rights, found, results>>
  BY DEF vars, input
<1>2. CASE Checking
  <2>1. Progress(space, Half, Head(starts), frames', rows')
    BY <1>1, <1>2 DEF PromiseInv
  <2> QED
    BY <1>1, <1>2, <2>1, StepOfCheck
<1>3. CASE ~Checking
  <2>1. Supported(space, path, idx)'
    BY <1>1, SupportStays DEF PromiseInv
  <2>2. UNCHANGED <<space, path, idx, starts, results>>
    BY <1>1 DEF input
  <2> QED
    BY <1>1, <1>3, <2>1, <2>2 DEF PromiseInv, Keeps, Checking
<1> QED
  BY <1>2, <1>3

LEMMA InitPromiseInv ==
  ASSUME \A in \in Inputs : Handled(in), Init
  PROVE  PromiseInv
<1>1. PICK in \in Inputs : /\ space = in.space
                          /\ path = in.path
                          /\ idx = in.idx
                          /\ starts = in.starts
  BY DEF Init
<1>2. Handled(in)
  OBVIOUS
<1>3. Supported(space, path, idx)
  BY <1>1, <1>2 DEF Handled
<1>4. phase = "idle" /\ found = <<>>
  BY DEF Init
<1> QED
  BY <1>3, <1>4 DEF PromiseInv, Checking

-----------------------------------------------------------------------------
(***************************************************************************)
(* What a browse and a comparison find together, in the words of the       *)
(* promise: reference i of node n serves a relation rel to a node pattern. *)
(***************************************************************************)
Carry(sp, n, rel, i) ==
  n \notin sp.bad /\ i \in Fitting(sp, n, rel.dir, rel.type, NodeClass)

Serves(sp, n, rel, node, i) ==
  /\ Carry(sp, n, rel, i)
  /\ IsMatching(Target(sp, i), node)
  /\ node.id # NoId =>
       \A j \in DOMAIN sp.refs :
         Carry(sp, n, rel, j) /\ Target(sp, j) = Target(sp, i) => i <= j

Uncut(sp) ==
  \A n \in NodeId : Cardinality(Fitting(sp, n, "both", AnyRef, NodeClass)) <= MaxRefs

(* A browse result is not cut off if all references of the node fit in.    *)
LEMMA UncutBrowse ==
  ASSUME NEW sp \in Space, Uncut(sp), NEW n \in NodeId \ sp.bad,
         NEW dir, NEW asked, NEW mask \in SUBSET NodeClass
  PROVE  Browse(sp, n, dir, asked, mask) = Fitting(sp, n, dir, asked, mask)
<1>1. PICK F, B : /\ F = Fitting(sp, n, dir, asked, mask)
                  /\ B = Fitting(sp, n, "both", AnyRef, NodeClass)
  OBVIOUS
<1>2. F \subseteq B
  BY <1>1 DEF Fitting, DirectionFits, TypeFits
<1>3. PICK m \in Nat : DOMAIN sp.refs = 1..m
  BY LenProperties DEF Space
<1>4. B \subseteq 1..m
  BY <1>1, <1>3 DEF Fitting
<1>5. IsFiniteSet(B)
  <2>1. IsFiniteSet(1..m)
    BY FS_Interval
  <2> QED
    BY <1>4, <2>1, FS_Subset
<1>6. PICK b \in Nat : b = Cardinality(B)
  BY <1>5, FS_CardinalityType
<1>7. b <= MaxRefs
  BY <1>1, <1>6 DEF Uncut
<1>8. ASSUME NEW i \in F PROVE Cardinality({j \in F : j < i}) < MaxRefs
  <2>1. PICK L : L = {j \in F : j < i}
    OBVIOUS
  <2>2. i \in B /\ L \subseteq B \ {i}
    <3>1. i \in B /\ i \in 1..m
      BY <1>2, <1>4
    <3>2. ASSUME NEW j \in L PROVE j \in B /\ j # i
      BY <1>2, <1>4, <2>1, <3>1
    <3> QED
      BY <3>1, <3>2
  <2>3. IsFiniteSet(B \ {i}) /\ Cardinality(B \ {i}) = b - 1
    BY <1>5, <1>6, <2>2, FS_RemoveElement
  <2>4. IsFiniteSet(L) /\ Cardinality(L) <= Cardinality(B \ {i})
    BY <2>2, <2>3, FS_Subset
  <2>5. PICK l \in Nat : l = Cardinality(L)
    BY <2>4, FS_CardinalityType
  <2> QED
    BY <1>6, <1>7, <2>1, <2>3, <2>4, <2>5, SpaceAssumption
<1>9. {i \in F : Cardinality({j \in F : j < i}) < MaxRefs} = F
  BY <1>8
<1> QED
  BY <1>1, <1>9 DEF Browse

(* What a browse for the class of a node pattern finds.                    *)
LEMMA BrowseCarries ==
  ASSUME NEW sp \in Space, Uncut(sp), NEW n \in NodeId, NEW rel, NEW node \in Node, NEW i
  PROVE  i \in Browse(sp, n, rel.dir, rel.type, MaskOf(node.class))
           <=> Carry(sp, n, rel, i) /\ IsMatchingClass(node.class, Target(sp, i).class)
<1>1. CASE n \in sp.bad
  BY <1>1 DEF Browse, Carry
<1>2. CASE n \notin sp.bad
  <2>1. MaskOf(node.class) \in SUBSET NodeClass
    BY DEF Node, MaskOf
  <2>2. i \in Browse(sp, n, rel.dir, rel.type, MaskOf(node.class))
          <=> i \in Fitting(sp, n, rel.dir, rel.type, MaskOf(node.class))
    BY <1>2, <2>1, UncutBrowse
  <2>3. Target(sp, i).class = sp.class[sp.refs[i].target]
    BY DEF Target, ElementOf
  <2>4. i \in DOMAIN sp.refs => sp.class[sp.refs[i].target] \in NodeClass
    <3>1. i \in DOMAIN sp.refs => Target(sp, i).class \in NodeClass
      BY TargetIsElement DEF Element
    <3> QED
      BY <2>3, <3>1
  <2>5. sp.class[sp.refs[i].target] \in MaskOf(node.class)
          <=> sp.class[sp.refs[i].target] \in NodeClass
                /\ IsMatchingClass(node.class, sp.class[sp.refs[i].target])
    <3>1. CASE node.class = Unspecified
      BY <3>1 DEF MaskOf, IsMatchingClass
    <3>2. CASE node.class # Unspecified
      BY <3>2 DEF MaskOf, IsMatchingClass, Node
    <3> QED
      BY <3>1, <3>2
  <2> QED
    BY <1>2, <2>2, <2>3, <2>4, <2>5 DEF Carry, Fitting
<1> QED
  BY <1>1, <1>2

(* A node pattern without a type is served by the references that are      *)
(* followed to it.                                                         *)
LEMMA CandidatesServe ==
  ASSUME NEW sp \in Space, Uncut(sp), NEW n \in NodeId, NEW p, NEW pos,
         NEW rel, rel = p.relations[pos - 1],
         NEW node \in Node, node = p.nodes[pos], node.type = NoId, NEW i
  PROVE  i \in Candidates(sp, p, n, pos) <=> Serves(sp, n, rel, node, i)
<1>1. PICK br : br = Browse(sp, n, rel.dir, rel.type, MaskOf(node.class))
  OBVIOUS
<1>2. \A j : j \in br <=> Carry(sp, n, rel, j)
                            /\ IsMatchingClass(node.class, Target(sp, j).class)
  BY <1>1, BrowseCarries
<1>3. \A j : /\ Target(sp, j).id = sp.refs[j].target
             /\ IsMatching(Target(sp, j), node)
                  <=> (node.id = NoId \/ node.id = sp.refs[j].target)
                        /\ IsMatchingClass(node.class, Target(sp, j).class)
  BY DEF Target, ElementOf, IsMatching, IsMatchingId
<1>4. CASE node.id = NoId
  <2>1. Candidates(sp, p, n, pos) = br
    BY <1>1, <1>4 DEF Candidates, ById
  <2> QED
    BY <1>2, <1>3, <1>4, <2>1 DEF Serves
<1>5. CASE node.id # NoId
  <2>1. Candidates(sp, p, n, pos) = First({j \in br : sp.refs[j].target = node.id})
    BY <1>1, <1>5 DEF Candidates, ById
  <2>2. i \in Candidates(sp, p, n, pos)
          <=> /\ i \in br /\ sp.refs[i].target = node.id
              /\ \A j \in br : sp.refs[j].target = node.id => i <= j
    BY <2>1 DEF First
  <2>3. \A j : Carry(sp, n, rel, j) => j \in DOMAIN sp.refs
    BY DEF Carry, Fitting
  <2>4. ASSUME i \in br, sp.refs[i].target = node.id
        PROVE  \A j : (j \in br /\ sp.refs[j].target = node.id)
                        <=> (Carry(sp, n, rel, j) /\ Target(sp, j) = Target(sp, i))
    <3>1. ASSUME NEW j
          PROVE  Target(sp, j) = Target(sp, i) <=> sp.refs[j].target = node.id
      <4>1. Target(sp, j) = Target(sp, i) => sp.refs[j].target = sp.refs[i].target
        BY <1>3
      <4>2. sp.refs[j].target = sp.refs[i].target => Target(sp, j) = Target(sp, i)
        BY DEF Target
      <4> QED
        BY <2>4, <4>1, <4>2
    <3>2. IsMatchingClass(node.class, Target(sp, i).class)
      BY <1>2, <2>4
    <3> QED
      BY <1>2, <3>1, <3>2
  <2>5. i \in br /\ sp.refs[i].target = node.id
          <=> Carry(sp, n, rel, i) /\ IsMatching(Target(sp, i), node)
    BY <1>2, <1>3, <1>5
  <2> QED
    BY <1>5, <2>2, <2>3, <2>4, <2>5 DEF Serves
<1> QED
  BY <1>4, <1>5

(* ... and one that is not named by those of them that lead to what fits.  *)
LEMMA MatchingCandidatesServe ==
  ASSUME NEW sp \in Space, Uncut(sp), NEW n \in NodeId, NEW p, NEW pos,
         NEW rel, rel = p.relations[pos - 1],
         NEW node \in Node, node = p.nodes[pos], ~ById(node), NEW i
  PROVE  i \in Candidates(sp, p, n, pos) /\ IsMatching(Target(sp, i), node)
           <=> Serves(sp, n, rel, node, i)
<1>1. Candidates(sp, p, n, pos) = Browse(sp, n, rel.dir, rel.type, MaskOf(node.class))
  BY DEF Candidates
<1>2. i \in Candidates(sp, p, n, pos)
        <=> Carry(sp, n, rel, i) /\ IsMatchingClass(node.class, Target(sp, i).class)
  BY <1>1, BrowseCarries
<1>3. IsMatching(Target(sp, i), node) => IsMatchingClass(node.class, Target(sp, i).class)
  BY DEF IsMatching
<1> QED
  BY <1>2, <1>3 DEF Serves, ById

LEMMA HalfWalksServe ==
  ASSUME NEW sp \in Space, Uncut(sp), NEW p, NEW m \in Nat, m = Size(p), m >= 2,
         \A k \in 1..m : p.nodes[k] \in Node,
         \A k \in 2..m : ById(p.nodes[k]) \/ k < m => p.nodes[k].type = NoId,
         NEW e \in Element, NEW w \in WalkRefs(sp, p)
  PROVE  w \in HalfWalks(sp, p, e)
           <=> \A k \in 1..(m - 1) :
                 Serves(sp, Reached(sp, e, w, k).id, p.relations[k], p.nodes[k + 1], w[k])
<1>1. PICK n \in Nat : n = m - 1 /\ n + 1 = m
  OBVIOUS
<1> DEFINE S(k) == Serves(sp, Reached(sp, e, w, k).id, p.relations[k], p.nodes[k + 1], w[k])
           F(k) == Follows(sp, p, e, w, k)
<1>2. w \in HalfWalks(sp, p, e) <=> (\A k \in 1..n : F(k)) /\ EndFits(sp, p, e, w)
  BY <1>1 DEF HalfWalks
<1>3. ASSUME NEW k \in 1..n PROVE Reached(sp, e, w, k).id \in NodeId
  <2>1. k # 1 => w[k - 1] \in DOMAIN sp.refs
    BY <1>1 DEF WalkRefs
  <2>2. k # 1 => Target(sp, w[k - 1]) \in Element
    BY <2>1, TargetIsElement
  <2> QED
    BY <2>2 DEF Reached, Element
<1>4. ASSUME NEW k \in 1..n
      PROVE  /\ k + 1 \in 2..m /\ (k + 1) - 1 = k
             /\ p.relations[k] = p.relations[(k + 1) - 1] /\ p.nodes[k + 1] \in Node
  BY <1>1
<1>5. ASSUME NEW k \in 1..n, ById(p.nodes[k + 1]) \/ k < n PROVE F(k) <=> S(k)
  <2>1. p.nodes[k + 1].type = NoId
    BY <1>1, <1>4, <1>5
  <2> QED
    BY <1>3, <1>4, <2>1, CandidatesServe DEF Follows
<1>6. EndFits(sp, p, e, w)
        <=> ById(p.nodes[m]) \/ IsMatching(Target(sp, w[n]), p.nodes[m])
  <2>1. Reached(sp, e, w, m) = Target(sp, w[n])
    BY <1>1 DEF Reached
  <2> QED
    BY <2>1 DEF EndFits
<1>7. F(n) /\ EndFits(sp, p, e, w) <=> S(n)
  <2>1. n \in 1..n
    BY <1>1
  <2>2. CASE ById(p.nodes[m])
    BY <1>1, <1>5, <1>6, <2>1, <2>2
  <2>3. CASE ~ById(p.nodes[m])
    BY <1>1, <1>3, <1>4, <1>6, <2>1, <2>3, MatchingCandidatesServe DEF Follows
  <2> QED
    BY <2>2, <2>3
<1>8. (\A k \in 1..n : k \in 1..(n - 1) \/ k = n) /\ n \in 1..n
        /\ \A k \in 1..(n - 1) : k \in 1..n /\ k < n
  BY <1>1
<1> HIDE DEF S, F
<1>9. (\A k \in 1..n : F(k)) /\ EndFits(sp, p, e, w) <=> \A k \in 1..n : S(k)
  BY <1>5, <1>7, <1>8
<1> QED
  BY <1>1, <1>2, <1>9 DEF S

-----------------------------------------------------------------------------
(***************************************************************************)
(* The walks of the promise.  The promise is stated in a module of its     *)
(* own, whose copies of the definitions of GraphPath are the same.         *)
(***************************************************************************)
LEMMA PromiseTerms ==
  ASSUME NEW sp, NEW i, NEW n, NEW dir, NEW type, NEW mask, NEW e, NEW node
  PROVE  /\ Promise!Target(sp, i) = Target(sp, i)
         /\ Promise!Fitting(sp, n, dir, type, mask) = Fitting(sp, n, dir, type, mask)
         /\ Promise!IsMatching(e, node) <=> IsMatching(e, node)
         /\ Promise!InvertDirection(dir) = InvertDirection(dir)
         /\ Promise!NodeClass = NodeClass
<1>1. Promise!Target(sp, i) = Target(sp, i)
  BY DEF Promise!Target, Promise!ElementOf, Target, ElementOf
<1>2. Promise!Fitting(sp, n, dir, type, mask) = Fitting(sp, n, dir, type, mask)
  BY Zenon DEF Promise!Fitting, Promise!DirectionFits, Promise!TypeFits,
               Fitting, DirectionFits, TypeFits
<1>3. Promise!IsMatching(e, node) <=> IsMatching(e, node)
  BY Zenon DEF Promise!IsMatching, Promise!IsMatchingId, Promise!IsMatchingClass,
               IsMatching, IsMatchingId, IsMatchingClass,
               Promise!Unspecified, Unspecified
<1>4. Promise!InvertDirection(dir) = InvertDirection(dir)
  BY DEF Promise!InvertDirection, InvertDirection
<1>5. Promise!NodeClass = NodeClass
  BY DEF Promise!NodeClass, NodeClass
<1> QED
  BY <1>1, <1>2, <1>3, <1>4, <1>5

LEMMA PromiseColumns ==
  /\ Promise!Columns = 1..Size(path)
  /\ Promise!StartColumn = idx + 1
  /\ Promise!Choice = [1..Size(path) \ {idx + 1} -> DOMAIN space.refs]
BY Zenon DEF Promise!Columns, Promise!StartColumn, Promise!Choice, Promise!Size, Size

(* A walk of the promise serves every column but the start.                *)
LEMMA PromiseWalks ==
  ASSUME NEW e, NEW v \in Promise!Choice
  PROVE  v \in Promise!Walks(e)
           <=> \A c \in 1..Size(path) \ {idx + 1} :
                 Serves(space, Promise!RowOf(e, v)[Promise!Inner(c)].id,
                        Promise!RelationTo(c), path.nodes[c], v[c])
<1> DEFINE Cs == 1..Size(path) \ {idx + 1}
           row == Promise!RowOf(e, v)
           n(c) == row[Promise!Inner(c)].id
           rel(c) == Promise!RelationTo(c)
<1>1. DOMAIN v = Cs
  BY PromiseColumns
<1>2. \A c \in Cs : row[c] = Target(space, v[c])
  BY PromiseColumns, PromiseTerms DEF Promise!RowOf
<1>3. \A c, j : Promise!Carries(n(c), c, j) <=> Carry(space, n(c), rel(c), j)
  BY PromiseTerms DEF Promise!Carries, Carry
<1>4. v \in Promise!Walks(e) <=> Promise!IsWalk(e, v)
  BY DEF Promise!Walks
<1>5. Promise!IsWalk(e, v)
        <=> \A c \in DOMAIN v :
              /\ Promise!Carries(n(c), c, v[c])
              /\ Promise!IsMatching(row[c], path.nodes[c])
              /\ path.nodes[c].id # NoId =>
                   \A j \in DOMAIN space.refs :
                     Promise!Carries(n(c), c, j) /\ Promise!Target(space, j) = row[c]
                       => v[c] <= j
  BY DEF Promise!IsWalk
<1> HIDE DEF Cs, row, n, rel
<1>6. ASSUME NEW c \in Cs
      PROVE  (/\ Promise!Carries(n(c), c, v[c])
              /\ Promise!IsMatching(row[c], path.nodes[c])
              /\ path.nodes[c].id # NoId =>
                   \A j \in DOMAIN space.refs :
                     Promise!Carries(n(c), c, j) /\ Promise!Target(space, j) = row[c]
                       => v[c] <= j)
               <=> Serves(space, n(c), rel(c), path.nodes[c], v[c])
  <2>1. row[c] = Target(space, v[c])
    BY <1>2
  <2>2. Promise!IsMatching(row[c], path.nodes[c])
          <=> IsMatching(Target(space, v[c]), path.nodes[c])
    BY <2>1, PromiseTerms
  <2>3. \A j : Promise!Target(space, j) = Target(space, j)
    BY PromiseTerms
  <2> QED
    BY <1>3, <2>1, <2>2, <2>3 DEF Serves
<1>7. Promise!IsWalk(e, v) <=> \A c \in Cs : Serves(space, n(c), rel(c), path.nodes[c], v[c])
  BY <1>1, <1>5, <1>6
<1> QED
  BY <1>4, <1>7 DEF Cs, row, n, rel

(* ... with a half of a single node, whose element is compared.            *)
LEMMA AllHalfWalksServe ==
  ASSUME NEW sp \in Space, Uncut(sp), NEW p, NEW m \in Nat, m = Size(p), m >= 1,
         \A k \in 1..m : p.nodes[k] \in Node,
         \A k \in 2..m : ById(p.nodes[k]) \/ k < m => p.nodes[k].type = NoId,
         NEW e \in Element, m = 1 => IsMatching(e, p.nodes[1]), NEW w \in WalkRefs(sp, p)
  PROVE  w \in HalfWalks(sp, p, e)
           <=> \A k \in 1..(m - 1) :
                 Serves(sp, Reached(sp, e, w, k).id, p.relations[k], p.nodes[k + 1], w[k])
<1>1. CASE m >= 2
  BY <1>1, HalfWalksServe
<1>2. CASE m = 1
  <2>1. EndFits(sp, p, e, w)
    BY <1>2 DEF EndFits, Reached
  <2>2. 1..(m - 1) = {} /\ 1..(Size(p) - 1) = {}
    BY <1>2
  <2> QED
    BY <2>1, <2>2 DEF HalfWalks
<1> QED
  BY <1>1, <1>2

LEMMA ListsThrough ==
  ASSUME NEW R, NEW s \in Seq(R), NEW S, NEW h, Lists(s, S, h), NEW T, NEW f, NEW g,
         Bijects(g, S, T), \A x \in S : f[g[x]] = h[x]
  PROVE  Lists(s, T, f)
<1>1. Rewrites(s, S, h, s, f, g)
  BY DEF Rewrites
<1> QED
  BY <1>1, MapLists

-----------------------------------------------------------------------------
PromisedRows(e) == [v \in Promise!Walks(e) |-> Promise!RowOf(e, v)]

LEMMA PathParts ==
  ASSUME IInv, Supported(space, path, idx)
  PROVE  /\ space \in Space /\ Uncut(space)
         /\ Size(path) \in Nat /\ Size(path) = Len(path.nodes) /\ Size(path) >= 1
         /\ idx = 0 \/ idx = 1
         /\ idx < Size(path)
         /\ path.nodes \in Seq(Node)
         /\ path.relations \in Seq(Relation)
         /\ Len(path.relations) = Size(path) - 1
         /\ \A k \in 1..Size(path) : path.nodes[k] \in Node
         /\ \A c \in 1..Size(path) \ {idx + 1} :
              ById(path.nodes[c]) \/ c \in 2..(Size(path) - 1) => path.nodes[c].type = NoId
<1>1. SplittablePath(path, idx) /\ space \in Space
  BY DEF IInv, TypeOK
<1>2. /\ path.nodes \in Seq(Node) /\ path.relations \in Seq(Relation)
      /\ Size(path) \in Nat /\ Len(path.relations) = Size(path) - 1
      /\ idx \in Nat /\ idx < Size(path)
  BY <1>1, SplittablePathSize DEF SplittablePath, Path
<1>3. idx <= 1 /\ Uncut(space)
      /\ \A c \in DOMAIN path.nodes \ {idx + 1} :
           ById(path.nodes[c]) \/ c \in 2..(Len(path.nodes) - 1) => path.nodes[c].type = NoId
  BY SupportedParts DEF Uncut
<1>4. DOMAIN path.nodes = 1..Size(path) /\ Size(path) = Len(path.nodes)
  BY <1>2, LenProperties DEF Size
<1>5. \A k \in 1..Size(path) : path.nodes[k] \in Node
  BY <1>2, <1>4, ElementOfSeq
<1>6. (idx = 0 \/ idx = 1) /\ Size(path) >= 1
  BY <1>2, <1>3
<1> QED
  BY <1>1, <1>2, <1>3, <1>4, <1>5, <1>6

(* A start in the first column: the right half is the whole pattern.       *)
LEMMA StartInFirstColumn ==
  ASSUME IInv, Supported(space, path, idx), idx = 0, NEW e \in Element,
         IsMatching(e, path.nodes[1]), NEW rs \in Seq(Row), Contributes(rs, e)
  PROVE  Lists(rs, Promise!Walks(e), PromisedRows(e))
<1>1. PICK m \in Nat : m = Size(path) /\ m >= 1
  BY PathParts
<1>2. PICK p : p = Rhs
  OBVIOUS
<1>3. p.nodes = path.nodes /\ p.relations = path.relations
  <2>1. SubSeq(path.nodes, 1, Len(path.nodes)) = path.nodes
    BY PathParts, SubSeqFull
  <2>2. SubSeq(path.relations, 1, Len(path.relations)) = path.relations
    BY PathParts, SubSeqFull
  <2> QED
    BY <1>2, <2>1, <2>2 DEF Rhs, SplitRight
<1>4. Size(p) = m
  BY <1>1, <1>3 DEF Size
<1>5. PICK W, h, T, f : /\ W = HalfWalks(space, p, e) /\ h = RowsAlong(space, p, e)
                        /\ T = Promise!Walks(e) /\ f = PromisedRows(e)
  OBVIOUS
<1>6. Lists(rs, W, h)
  BY <1>2, <1>5 DEF Contributes
<1>7. PICK Cs : /\ Cs = 1..m \ {1} /\ Cs = 1..Size(path) \ {idx + 1}
                /\ Promise!Choice = [Cs -> DOMAIN space.refs]
  <2>1. idx + 1 = 1
    OBVIOUS
  <2>2. 1..Size(path) \ {idx + 1} = 1..m \ {1}
    BY <1>1, <2>1
  <2> QED
    BY <2>2, PromiseColumns
<1>8. /\ \A c \in Cs : c - 1 \in 1..(m - 1) /\ c \in 1..m /\ c > 1 /\ (c - 1) + 1 = c
      /\ \A k \in 1..(m - 1) : k + 1 \in Cs /\ (k + 1) - 1 = k
  BY <1>7
<1> DEFINE V(w) == [c \in Cs |-> w[c - 1]]
<1>9. WalkRefs(space, p) = [1..(m - 1) -> DOMAIN space.refs]
  BY <1>4 DEF WalkRefs
<1>10. ASSUME NEW w \in WalkRefs(space, p)
       PROVE  /\ V(w) \in Promise!Choice
              /\ Promise!RowOf(e, V(w)) = h[w]
              /\ V(w) \in T <=> w \in W
  <2>1. PICK v : v = V(w)
    OBVIOUS
  <2>2. v \in Promise!Choice /\ \A c \in Cs : v[c] = w[c - 1]
    BY <1>7, <1>8, <1>9, <2>1
  <2>3. \A c \in 1..m : c # 1 => c \in Cs
    BY <1>7
  <2>4. Promise!RowOf(e, v) = [c \in 1..m |-> Reached(space, e, w, c)]
    <3>1. Promise!RowOf(e, v)
            = [c \in 1..m |-> IF c = 1 THEN e ELSE Promise!Target(space, v[c])]
      BY <1>1, PromiseColumns DEF Promise!RowOf
    <3>2. ASSUME NEW c \in 1..m
          PROVE  (IF c = 1 THEN e ELSE Promise!Target(space, v[c])) = Reached(space, e, w, c)
      BY <2>2, <2>3, PromiseTerms DEF Reached
    <3> QED
      BY <3>1, <3>2
  <2>5. Promise!RowOf(e, v) = h[w]
    BY <1>4, <1>5, <2>4 DEF RowsAlong
  <2>6. v \in T <=> \A c \in Cs : Serves(space, Reached(space, e, w, c - 1).id,
                                         path.relations[c - 1], path.nodes[c], w[c - 1])
    <3>1. v \in T <=> \A c \in Cs :
                        Serves(space, Promise!RowOf(e, v)[Promise!Inner(c)].id,
                               Promise!RelationTo(c), path.nodes[c], v[c])
      BY <1>1, <1>5, <1>7, <2>2, PromiseWalks
    <3>2. ASSUME NEW c \in Cs
          PROVE  /\ Promise!Inner(c) = c - 1 /\ c - 1 \in 1..m
                 /\ Promise!RelationTo(c) = path.relations[c - 1]
      <4>1. c > 0 + 1
        BY <1>8
      <4> QED
        BY <1>8, <4>1, PromiseColumns DEF Promise!Inner, Promise!RelationTo
    <3>3. ASSUME NEW c \in Cs
          PROVE  Promise!RowOf(e, v)[Promise!Inner(c)] = Reached(space, e, w, c - 1)
      BY <2>4, <3>2
    <3> QED
      BY <2>2, <3>1, <3>2, <3>3
  <2>7. w \in W <=> \A k \in 1..(m - 1) :
                      Serves(space, Reached(space, e, w, k).id, path.relations[k],
                             path.nodes[k + 1], w[k])
    <3>1. \A k \in 2..m : k \in 1..Size(path) \ {idx + 1} /\ (k < m => k \in 2..(m - 1))
      BY <1>1
    <3>2. \A k \in 2..m : ById(p.nodes[k]) \/ k < m => p.nodes[k].type = NoId
      BY <1>1, <1>3, <3>1, PathParts
    <3>3. \A k \in 1..m : p.nodes[k] \in Node
      BY <1>1, <1>3, PathParts
    <3>4. IsMatching(e, p.nodes[1]) /\ space \in Space /\ Uncut(space)
      BY <1>3, PathParts
    <3>5. w \in W <=> \A k \in 1..(m - 1) :
                        Serves(space, Reached(space, e, w, k).id, p.relations[k],
                               p.nodes[k + 1], w[k])
      BY <1>1, <1>4, <1>5, <3>2, <3>3, <3>4, AllHalfWalksServe
    <3> QED
      BY <1>3, <3>5
  <2>8. v \in T <=> w \in W
    <3>1. ASSUME NEW c \in Cs
          PROVE  \E k \in 1..(m - 1) : k = c - 1 /\ k + 1 = c
      BY <1>8
    <3>2. ASSUME NEW k \in 1..(m - 1)
          PROVE  \E c \in Cs : k = c - 1 /\ k + 1 = c
      BY <1>8
    <3>3. ASSUME w \in W PROVE v \in T
      <4>1. ASSUME NEW c \in Cs
            PROVE  Serves(space, Reached(space, e, w, c - 1).id, path.relations[c - 1],
                          path.nodes[c], w[c - 1])
        <5>1. PICK k \in 1..(m - 1) : k = c - 1 /\ k + 1 = c
          BY <3>1
        <5> QED
          BY <2>7, <3>3, <5>1
      <4> QED
        BY <2>6, <4>1
    <3>4. ASSUME v \in T PROVE w \in W
      <4>1. ASSUME NEW k \in 1..(m - 1)
            PROVE  Serves(space, Reached(space, e, w, k).id, path.relations[k],
                          path.nodes[k + 1], w[k])
        <5>1. PICK c \in Cs : k = c - 1 /\ k + 1 = c
          BY <3>2
        <5> QED
          BY <2>6, <3>4, <5>1
      <4> QED
        BY <2>7, <4>1
    <3> QED
      BY <3>3, <3>4
  <2> QED
    BY <2>1, <2>2, <2>5, <2>8
<1>11. PICK g : g = [w \in W |-> V(w)]
  OBVIOUS
<1>12. W \subseteq WalkRefs(space, p) /\ T \subseteq Promise!Choice
  BY <1>5 DEF HalfWalks, Promise!Walks
<1>13. Bijects(g, W, T)
  <2>1. g \in [W -> T]
    BY <1>10, <1>11, <1>12
  <2>2. ASSUME NEW x \in W, NEW y \in W, g[x] = g[y] PROVE x = y
    <3>1. x \in [1..(m - 1) -> DOMAIN space.refs] /\ y \in [1..(m - 1) -> DOMAIN space.refs]
      BY <1>9, <1>12
    <3>2. ASSUME NEW k \in 1..(m - 1) PROVE x[k] = y[k]
      <4>1. g[x][k + 1] = x[(k + 1) - 1] /\ g[y][k + 1] = y[(k + 1) - 1]
        BY <1>8, <1>11
      <4> QED
        BY <1>8, <2>2, <4>1
    <3> QED
      BY <3>1, <3>2
  <2>3. ASSUME NEW v \in T PROVE \E w \in W : g[w] = v
    <3>1. v \in [Cs -> DOMAIN space.refs]
      BY <1>7, <1>12
    <3>2. PICK w : w = [k \in 1..(m - 1) |-> v[k + 1]]
      OBVIOUS
    <3>3. w \in WalkRefs(space, p)
      BY <1>8, <1>9, <3>1, <3>2
    <3>4. V(w) = v
      <4>1. \A c \in Cs : w[c - 1] = v[c]
        BY <1>8, <3>2
      <4> QED
        BY <3>1, <4>1
    <3>5. w \in W
      BY <1>10, <3>3, <3>4
    <3> QED
      BY <1>11, <3>4, <3>5
  <2> QED
    BY <2>1, <2>2, <2>3 DEF Bijects
<1>14. \A w \in W : f[g[w]] = h[w]
  <2> SUFFICES ASSUME NEW w \in W PROVE f[g[w]] = h[w]
    OBVIOUS
  <2>1. V(w) \in T /\ Promise!RowOf(e, V(w)) = h[w] /\ g[w] = V(w)
    BY <1>10, <1>11, <1>12
  <2> QED
    BY <1>5, <2>1 DEF PromisedRows
<1> QED
  BY <1>5, <1>6, <1>13, <1>14, ListsThrough

(* A start in the second column: the halves are turned around it.          *)
LEMMA HalvesAroundSecond ==
  ASSUME IInv, Supported(space, path, idx), idx = 1, NEW m \in Nat, m = Size(path)
  PROVE  /\ m >= 2 /\ Size(Rhs) = m - 1 /\ Size(Lhs) = 2
         /\ \A k \in 1..(m - 1) : Rhs.nodes[k] = path.nodes[k + 1]
         /\ \A k \in 1..(m - 2) : Rhs.relations[k] = path.relations[k + 1]
         /\ Lhs.nodes[1] \in Node /\ Lhs.nodes[2] = path.nodes[1]
         /\ Lhs.relations[1] = [path.relations[1] EXCEPT !.dir = InvertDirection(@)]
<1>1. /\ m >= 2 /\ m - 1 \in Nat /\ m - 1 >= 1 /\ Len(path.nodes) = m
      /\ Len(path.relations) = m - 1
      /\ path.nodes \in Seq(Node) /\ path.relations \in Seq(Relation)
  BY PathParts DEF Size
<1>2. Rhs.nodes = SubSeq(path.nodes, 2, m)
      /\ Rhs.relations = SubSeq(path.relations, 2, m - 1)
  <2>1. idx + 1 = 2
    OBVIOUS
  <2> QED
    BY <1>1, <2>1 DEF Rhs, SplitRight
<1>3. PICK N \in Seq(Node), R \in Seq(Relation) : N = path.nodes /\ R = path.relations
  BY <1>1
<1>4. /\ Len(SubSeq(N, 2, m)) = m - 1
      /\ \A k \in 1..(m - 1) : SubSeq(N, 2, m)[k] = N[k + 1]
  BY <1>1, <1>3
<1>5. \A k \in 1..(m - 2) : SubSeq(R, 2, m - 1)[k] = R[k + 1]
  BY <1>1, <1>3
<1>6. PICK n \in Node : n = path.nodes[1]
  BY <1>1, ElementOfSeq
<1>7. PICK r \in Relation : r = path.relations[1]
  BY <1>1, ElementOfSeq
<1>8. SubSeq(N, 1, 1) = <<n>> /\ SubSeq(R, 1, 1) = <<r>>
  <2>1. \A S, x : \A s \in Seq(S) : Len(s) = 1 /\ s[1] = x => s = <<x>>
    OBVIOUS
  <2>2. /\ SubSeq(N, 1, 1) \in Seq(Node) /\ Len(SubSeq(N, 1, 1)) = 1
        /\ SubSeq(N, 1, 1)[1] = n
    BY <1>1, <1>3, <1>6
  <2>3. /\ SubSeq(R, 1, 1) \in Seq(Relation) /\ Len(SubSeq(R, 1, 1)) = 1
        /\ SubSeq(R, 1, 1)[1] = r
    BY <1>1, <1>3, <1>7
  <2> QED
    BY <2>1, <2>2, <2>3
<1>9. SplitLeft(path, 1) = [nodes |-> <<n>>, relations |-> <<r>>]
  BY <1>3, <1>8 DEF SplitLeft
<1>10. PICK q : q = [nodes |-> <<n, DummyNode>>, relations |-> <<r>>]
  OBVIOUS
<1>11. Lhs = Invert(q)
  <2>1. PICK z : z = [nodes |-> <<n>>, relations |-> <<r>>]
    OBVIOUS
  <2>2. <<n>> # <<>> /\ Append(<<n>>, DummyNode) = <<n, DummyNode>>
    <3>1. \A x : <<x>> \in Seq({x}) /\ Len(<<x>>) = 1 /\ Len(<<>>) = 0
      OBVIOUS
    <3>2. <<n>> # <<>>
      BY <3>1
    <3>3. PICK S : n \in S /\ DummyNode \in S
      <4>1. n \in {n, DummyNode} /\ DummyNode \in {n, DummyNode}
        OBVIOUS
      <4> QED
        BY <4>1
    <3>4. <<n>> \in Seq(S) /\ Len(<<n>>) = 1 /\ <<n>>[1] = n
      BY <3>3
    <3>5. PICK t \in Seq(S) : /\ t = Append(<<n>>, DummyNode)
                             /\ Len(t) = 2 /\ t[1] = n /\ t[2] = DummyNode
      <4>1. PICK u \in Seq(S) : u = <<n>> /\ Len(u) = 1 /\ u[1] = n
        BY <3>4
      <4>2. PICK d \in S : d = DummyNode
        BY <3>3
      <4>3. PICK t \in Seq(S) :
              /\ t = Append(u, d) /\ Len(t) = Len(u) + 1
              /\ \A i \in 1..Len(u) : t[i] = u[i]
              /\ t[Len(u) + 1] = d
        BY AppendProperties
      <4>4. t = Append(<<n>>, DummyNode) /\ t[2] = DummyNode
        BY <4>1, <4>2, <4>3
      <4>5. Len(t) = 2 /\ t[1] = n
        BY <4>1, <4>3
      <4> QED
        BY <4>4, <4>5
    <3>6. \A U, x, y : \A w \in Seq(U) : Len(w) = 2 /\ w[1] = x /\ w[2] = y => w = <<x, y>>
      OBVIOUS
    <3>7. t = <<n, DummyNode>>
      BY <3>5, <3>6
    <3> QED
      BY <3>2, <3>5, <3>7
  <2>3. z.nodes = <<n>> /\ [z EXCEPT !.nodes = Append(@, DummyNode)] = q
    <3>1. PICK nn, rr, dd : nn = <<n>> /\ rr = <<r>> /\ dd = Append(<<n>>, DummyNode)
      OBVIOUS
    <3>2. z = [nodes |-> nn, relations |-> rr]
      BY <2>1, <3>1
    <3>3. z.nodes = nn /\ [z EXCEPT !.nodes = dd] = [nodes |-> dd, relations |-> rr]
      BY <3>2
    <3>4. q = [nodes |-> dd, relations |-> rr]
      BY <1>10, <2>2, <3>1
    <3> QED
      BY <3>1, <3>3, <3>4
  <2>4. Lhs = TransformForLeftToRightTraversal(z)
    BY <1>9, <2>1 DEF Lhs
  <2> QED
    BY <2>2, <2>3, <2>4 DEF TransformForLeftToRightTraversal
<1>12. Lhs.nodes = ReverseNodes(<<n, DummyNode>>) /\ Lhs.relations = InvertRelations(<<r>>)
  BY <1>10, <1>11 DEF Invert
<1>13. Lhs.nodes = [i \in 1..2 |-> AssignNode(<<n, DummyNode>>[i], <<n, DummyNode>>[3 - i])]
  <2>1. ReverseNodes(<<n, DummyNode>>)
          = [i \in 1..2 |-> IF i = 3 - i THEN <<n, DummyNode>>[i]
                            ELSE AssignNode(<<n, DummyNode>>[i], <<n, DummyNode>>[3 - i])]
    BY DEF ReverseNodes
  <2>2. \A i \in 1..2 : i # 3 - i
    OBVIOUS
  <2> QED
    BY <1>12, <2>1, <2>2
<1>14. Lhs.nodes[1] = AssignNode(n, DummyNode) /\ Lhs.nodes[2] = AssignNode(DummyNode, n)
  BY <1>13
<1>15. Len(Lhs.nodes) = 2
  BY <1>13
<1>16. AssignNode(DummyNode, n) = n
  <2>1. AssignOptional(NoId, n.id) = n.id /\ AssignOptional(NoId, n.type) = n.type
    BY DEF AssignOptional
  <2>2. AssignNode(DummyNode, n) = [class |-> n.class, id |-> n.id, type |-> n.type]
    BY <2>1 DEF AssignNode, DummyNode
  <2> QED
    BY <2>2 DEF Node
<1>17. AssignNode(n, DummyNode) \in Node
  <2>1. /\ AssignOptional(n.id, NoId) \in OptionalId
        /\ AssignOptional(n.type, NoId) \in OptionalId
    BY DEF AssignOptional, OptionalId
  <2> QED
    BY <2>1 DEF AssignNode, DummyNode, Node
<1>18. Lhs.relations[1] = [r EXCEPT !.dir = InvertDirection(@)]
  <2>1. InvertRelations(<<r>>)
          = [i \in 1..1 |-> [<<r>>[1 + 1 - i] EXCEPT !.dir = InvertDirection(@)]]
    BY DEF InvertRelations
  <2>2. InvertRelations(<<r>>)[1] = [<<r>>[1 + 1 - 1] EXCEPT !.dir = InvertDirection(@)]
    BY <2>1
  <2>3. <<r>>[1 + 1 - 1] = r
    OBVIOUS
  <2> QED
    BY <1>12, <2>2, <2>3
<1>19. Size(Rhs) = m - 1 /\ Size(Lhs) = 2
  BY <1>2, <1>3, <1>4, <1>15 DEF Size
<1> QED
  BY <1>1, <1>2, <1>3, <1>4, <1>5, <1>6, <1>7, <1>14, <1>16, <1>17, <1>18, <1>19

(* A joined row holds the target of the left walk, and then the right row. *)
LEMMA JoinedRow ==
  ASSUME IInv, Supported(space, path, idx), idx = 1, NEW m \in Nat, m = Size(path), NEW e,
         NEW r \in HalfWalks(space, Rhs, e), NEW l \in HalfWalks(space, Lhs, e)
  PROVE  Joined(space, Rhs, Lhs, e)[<<r, l>>]
           = [c \in 1..m |-> IF c = 1 THEN Target(space, l[1])
                                      ELSE Reached(space, e, r, c - 1)]
<1>1. m >= 2 /\ Size(Rhs) = m - 1 /\ Size(Lhs) = 2 /\ m - 1 \in Nat
  BY HalvesAroundSecond
<1>2. r \in WalkRefs(space, Rhs) /\ l \in WalkRefs(space, Lhs)
  BY DEF HalfWalks
<1>3. PICK s, t : s = RowsAlong(space, Lhs, e)[l] /\ t = RowsAlong(space, Rhs, e)[r]
  OBVIOUS
<1>4. Joined(space, Rhs, Lhs, e)[<<r, l>>] = Tail(s) \o t
  <2>1. PICK x : x = <<r, l>>
    OBVIOUS
  <2>2. x \in HalfWalks(space, Rhs, e) \X HalfWalks(space, Lhs, e) /\ x[1] = r /\ x[2] = l
    BY <2>1
  <2>3. Joined(space, Rhs, Lhs, e)[x]
          = Tail(RowsAlong(space, Lhs, e)[x[2]]) \o RowsAlong(space, Rhs, e)[x[1]]
    BY <2>2 DEF Joined
  <2> QED
    BY <1>3, <2>1, <2>2, <2>3
<1>5. s = [k \in 1..2 |-> Reached(space, e, l, k)]
  BY <1>1, <1>2, <1>3 DEF RowsAlong
<1>6. t = [k \in 1..(m - 1) |-> Reached(space, e, r, k)]
  BY <1>1, <1>2, <1>3 DEF RowsAlong
<1>7. PICK A : A = {s[k] : k \in 1..2} \cup {t[k] : k \in 1..(m - 1)}
  OBVIOUS
<1>8. s \in [1..2 -> A] /\ t \in [1..(m - 1) -> A]
  <2>1. \A k \in 1..2 : s[k] \in A
    BY <1>7
  <2>2. \A k \in 1..(m - 1) : t[k] \in A
    BY <1>7
  <2> QED
    BY <1>5, <1>6, <2>1, <2>2
<1>9. s \in Seq(A) /\ Len(s) = 2 /\ t \in Seq(A) /\ Len(t) = m - 1
  <2>1. \A n \in Nat : \A f \in [1..n -> A] : f \in Seq(A) /\ Len(f) = n
    OBVIOUS
  <2> QED
    BY <1>1, <1>8, <2>1
<1>10. PICK u \in Seq(A) : u = Tail(s) /\ Len(u) = 1 /\ u[1] = s[2]
  <2>1. s # <<>>
    <3>1. Len(<<>>) = 0
      OBVIOUS
    <3>2. ASSUME s = <<>> PROVE FALSE
      <4>1. Len(s) = 0
        BY <3>1, <3>2, Zenon
      <4> QED
        BY <1>9, <4>1
    <3> QED
      BY <3>2
  <2>2. Tail(s) \in Seq(A) /\ Len(Tail(s)) = Len(s) - 1
        /\ \A i \in 1..Len(Tail(s)) : Tail(s)[i] = s[i + 1]
    BY <1>9, <2>1, HeadTailProperties
  <2>3. Len(Tail(s)) = 1
    BY <1>9, <2>2
  <2>4. 1 \in 1..Len(Tail(s)) /\ 1 + 1 = 2
    <3>1. 1 \in 1..1 /\ 1 + 1 = 2
      OBVIOUS
    <3> QED
      BY <2>3, <3>1, Zenon
  <2> QED
    BY <2>2, <2>3, <2>4
<1>11. PICK q \in Seq(A) :
         /\ q = u \o t /\ Len(q) = m /\ q[1] = u[1]
         /\ \A c \in 1..m : c # 1 => q[c] = t[c - 1]
  <2>1. PICK q \in Seq(A) :
          /\ q = u \o t /\ Len(q) = Len(u) + Len(t)
          /\ \A i \in 1..(Len(u) + Len(t)) :
               q[i] = IF i <= Len(u) THEN u[i] ELSE t[i - Len(u)]
    <3>1. u \in Seq(A) /\ t \in Seq(A)
      BY <1>9, <1>10
    <3>2. /\ u \o t \in Seq(A) /\ Len(u \o t) = Len(u) + Len(t)
          /\ \A i \in 1..(Len(u) + Len(t)) :
               (u \o t)[i] = IF i <= Len(u) THEN u[i] ELSE t[i - Len(u)]
      BY <3>1, ConcatProperties, Zenon
    <3> QED
      BY <3>2, Zenon
  <2>2. Len(u) = 1 /\ Len(t) = m - 1 /\ 1 + (m - 1) = m
    BY <1>9, <1>10
  <2>3. \A i \in 1..m : q[i] = IF i <= 1 THEN u[i] ELSE t[i - 1]
    BY <2>1, <2>2
  <2>4. Len(q) = m
    BY <2>1, <2>2
  <2>5. q[1] = u[1] /\ \A c \in 1..m : c # 1 => q[c] = t[c - 1]
    BY <1>1, <2>3
  <2> QED
    BY <2>1, <2>4, <2>5
<1>12. q \in [1..m -> A]
  BY <1>11, LenProperties
<1>13. ASSUME NEW c \in 1..m
       PROVE  q[c] = IF c = 1 THEN Target(space, l[1]) ELSE Reached(space, e, r, c - 1)
  <2>1. CASE c = 1
    <3>1. q[1] = s[2]
      BY <1>10, <1>11
    <3>2. s[2] = Target(space, l[1])
      <4>1. s[2] = Reached(space, e, l, 2)
        BY <1>5
      <4> QED
        BY <4>1 DEF Reached
    <3> QED
      BY <2>1, <3>1, <3>2
  <2>2. CASE c # 1
    <3>1. c - 1 \in 1..(m - 1) /\ c - 1 >= 1
      BY <2>2
    <3>2. q[c] = t[c - 1]
      BY <1>11, <2>2
    <3> QED
      BY <1>6, <2>2, <3>1, <3>2
  <2> QED
    BY <2>1, <2>2
<1> QED
  BY <1>4, <1>10, <1>11, <1>12, <1>13

(* The left half is one reference, seen from the start.                    *)
LEMMA LeftWalksServe ==
  ASSUME IInv, Supported(space, path, idx), idx = 1, NEW e \in Element,
         NEW l \in WalkRefs(space, Lhs)
  PROVE  l \in HalfWalks(space, Lhs, e)
           <=> Serves(space, e.id, [path.relations[1] EXCEPT !.dir = InvertDirection(@)],
                      path.nodes[1], l[1])
<1>1. PICK p : p = Lhs
  OBVIOUS
<1>2. PICK m \in Nat : m = Size(path) /\ m >= 2
  BY HalvesAroundSecond, PathParts
<1>3. /\ Size(p) = 2 /\ p.nodes[1] \in Node /\ p.nodes[2] = path.nodes[1]
      /\ p.relations[1] = [path.relations[1] EXCEPT !.dir = InvertDirection(@)]
  BY <1>1, <1>2, HalvesAroundSecond
<1>4. 1 \in 1..Size(path) \ {idx + 1} /\ 1 \in 1..Size(path)
  BY <1>2
<1>5. path.nodes[1] \in Node /\ (ById(path.nodes[1]) => path.nodes[1].type = NoId)
  BY <1>4, PathParts
<1>6. \A k \in 1..2 : p.nodes[k] \in Node
  BY <1>3, <1>5
<1>7. \A k \in 2..2 : ById(p.nodes[k]) \/ k < 2 => p.nodes[k].type = NoId
  BY <1>3, <1>5
<1>8. space \in Space /\ Uncut(space)
  BY PathParts
<1>9. l \in HalfWalks(space, p, e)
        <=> \A k \in 1..(2 - 1) :
              Serves(space, Reached(space, e, l, k).id, p.relations[k], p.nodes[k + 1], l[k])
  BY <1>1, <1>3, <1>6, <1>7, <1>8, HalfWalksServe
<1>10. 1..(2 - 1) = {1} /\ 1 + 1 = 2 /\ Reached(space, e, l, 1) = e
  BY DEF Reached
<1> QED
  BY <1>1, <1>3, <1>9, <1>10

(* The right half starts at the start itself.                              *)
LEMMA RightWalksServe ==
  ASSUME IInv, Supported(space, path, idx), idx = 1, NEW e \in Element,
         IsMatching(e, path.nodes[2]), NEW m \in Nat, m = Size(path),
         NEW r \in WalkRefs(space, Rhs)
  PROVE  r \in HalfWalks(space, Rhs, e)
           <=> \A c \in 3..m : Serves(space, Reached(space, e, r, c - 2).id,
                                      path.relations[c - 1], path.nodes[c], r[c - 2])
<1>1. PICK p : p = Rhs
  OBVIOUS
<1>2. PICK n \in Nat : n = m - 1 /\ n >= 1 /\ n + 1 = m /\ m - 2 = n - 1
  BY HalvesAroundSecond
<1>3. /\ Size(p) = n
      /\ \A k \in 1..n : p.nodes[k] = path.nodes[k + 1]
      /\ \A k \in 1..(n - 1) : p.relations[k] = path.relations[k + 1]
  BY <1>1, <1>2, HalvesAroundSecond
<1>4. /\ \A k \in 1..n : k + 1 \in 1..Size(path)
      /\ \A k \in 2..n : /\ k \in 1..n
                         /\ k + 1 \in 1..Size(path) \ {idx + 1}
                         /\ k < n => k + 1 \in 2..(Size(path) - 1)
  BY <1>2
<1>5. \A k \in 1..n : p.nodes[k] \in Node
  BY <1>3, <1>4, PathParts
<1>6. ASSUME NEW k \in 2..n, ById(p.nodes[k]) \/ k < n PROVE p.nodes[k].type = NoId
  <2>1. PICK c : c = k + 1
    OBVIOUS
  <2>2. c \in 1..Size(path) \ {idx + 1} /\ (k < n => c \in 2..(Size(path) - 1))
    BY <1>4, <2>1
  <2>3. p.nodes[k] = path.nodes[c]
    BY <1>3, <1>4, <2>1
  <2>4. ById(path.nodes[c]) \/ c \in 2..(Size(path) - 1) => path.nodes[c].type = NoId
    BY <2>2, PathParts
  <2> QED
    BY <1>6, <2>2, <2>3, <2>4
<1>7. IsMatching(e, p.nodes[1]) /\ space \in Space /\ Uncut(space)
  <2>1. 1 \in 1..n /\ 1 + 1 = 2
    BY <1>2
  <2> QED
    BY <1>3, <2>1, PathParts
<1>8. r \in HalfWalks(space, p, e)
        <=> \A k \in 1..(n - 1) :
              Serves(space, Reached(space, e, r, k).id, p.relations[k], p.nodes[k + 1], r[k])
  BY <1>1, <1>2, <1>3, <1>5, <1>6, <1>7, AllHalfWalksServe
<1>9. ASSUME NEW k \in 1..(n - 1)
      PROVE  \E c \in 3..m : k = c - 2 /\ k + 1 = c - 1 /\ (k + 1) + 1 = c
  <2>1. k + 2 \in 3..m /\ k = (k + 2) - 2 /\ k + 1 = (k + 2) - 1 /\ (k + 1) + 1 = k + 2
    BY <1>2
  <2> QED
    BY <2>1
<1>10. ASSUME NEW c \in 3..m
       PROVE  \E k \in 1..(n - 1) : k = c - 2 /\ k + 1 = c - 1 /\ (k + 1) + 1 = c
  <2>1. c - 2 \in 1..(n - 1) /\ (c - 2) + 1 = c - 1 /\ ((c - 2) + 1) + 1 = c
    BY <1>2
  <2> QED
    BY <2>1
<1>11. \A k \in 1..(n - 1) : /\ k + 1 \in 1..n
                             /\ p.relations[k] = path.relations[k + 1]
                             /\ p.nodes[k + 1] = path.nodes[(k + 1) + 1]
  BY <1>2, <1>3
<1> DEFINE A(k) == Serves(space, Reached(space, e, r, k).id, p.relations[k],
                          p.nodes[k + 1], r[k])
           B(c) == Serves(space, Reached(space, e, r, c - 2).id,
                          path.relations[c - 1], path.nodes[c], r[c - 2])
<1>12. \A k \in 1..(n - 1), c \in 3..m :
         k = c - 2 /\ k + 1 = c - 1 /\ (k + 1) + 1 = c => (A(k) <=> B(c))
  BY <1>11
<1> HIDE DEF A, B
<1>13. (\A k \in 1..(n - 1) : A(k)) <=> \A c \in 3..m : B(c)
  <2>1. ASSUME \A k \in 1..(n - 1) : A(k), NEW c \in 3..m PROVE B(c)
    BY <1>10, <1>12, <2>1
  <2>2. ASSUME \A c \in 3..m : B(c), NEW k \in 1..(n - 1) PROVE A(k)
    BY <1>9, <1>12, <2>2
  <2> QED
    BY <2>1, <2>2
<1> QED
  BY <1>1, <1>8, <1>13 DEF A, B

LEMMA StartInSecondColumn ==
  ASSUME IInv, Supported(space, path, idx), idx = 1, NEW e \in Element,
         IsMatching(e, path.nodes[2]), NEW rs \in Seq(Row), Contributes(rs, e)
  PROVE  Lists(rs, Promise!Walks(e), PromisedRows(e))
<1>1. PICK m \in Nat : m = Size(path) /\ m >= 2
  BY PathParts, HalvesAroundSecond
<1>2. PICK RW, LW, T, f, h : /\ RW = HalfWalks(space, Rhs, e) /\ LW = HalfWalks(space, Lhs, e)
                             /\ T = Promise!Walks(e) /\ f = PromisedRows(e)
                             /\ h = Joined(space, Rhs, Lhs, e)
  OBVIOUS
<1>3. PICK W : W = RW \X LW
  OBVIOUS
<1>4. Lists(rs, W, h)
  BY <1>2, <1>3 DEF Contributes
<1>5. PICK Cs : /\ Cs = 1..m \ {2} /\ Cs = 1..Size(path) \ {idx + 1}
                /\ Promise!Choice = [Cs -> DOMAIN space.refs]
  <2>1. idx + 1 = 2
    OBVIOUS
  <2>2. 1..Size(path) \ {idx + 1} = 1..m \ {2}
    BY <1>1, <2>1
  <2> QED
    BY <2>2, PromiseColumns
<1>6. /\ 1 \in Cs /\ \A c \in 3..m : c \in Cs /\ c # 1 /\ c - 2 \in 1..(m - 2)
      /\ \A c \in Cs : c \in 1..m /\ (c = 1 \/ c \in 3..m)
      /\ \A k \in 1..(m - 2) : k + 2 \in 3..m /\ (k + 2) - 2 = k
  BY <1>1, <1>5
<1>7. /\ WalkRefs(space, Rhs) = [1..(m - 2) -> DOMAIN space.refs]
      /\ WalkRefs(space, Lhs) = [1..1 -> DOMAIN space.refs]
  <2>1. Size(Rhs) = m - 1 /\ Size(Lhs) = 2 /\ (m - 1) - 1 = m - 2 /\ 2 - 1 = 1
    BY <1>1, HalvesAroundSecond
  <2> QED
    BY <2>1 DEF WalkRefs
<1> DEFINE V(r, l) == [c \in Cs |-> IF c = 1 THEN l[1] ELSE r[c - 2]]
<1>8. ASSUME NEW r \in WalkRefs(space, Rhs), NEW l \in WalkRefs(space, Lhs), NEW v, v = V(r, l)
      PROVE  /\ v \in Promise!Choice
             /\ v[1] = l[1] /\ \A c \in 3..m : v[c] = r[c - 2]
             /\ Promise!RowOf(e, v)
                  = [c \in 1..m |-> IF c = 1 THEN Target(space, l[1])
                                             ELSE Reached(space, e, r, c - 1)]
  <2>1. l[1] \in DOMAIN space.refs /\ \A k \in 1..(m - 2) : r[k] \in DOMAIN space.refs
    BY <1>7
  <2>2. v[1] = l[1] /\ \A c \in 3..m : v[c] = r[c - 2]
    BY <1>6, <1>8
  <2>3. v \in Promise!Choice
    BY <1>5, <1>6, <1>8, <2>1
  <2>4. Promise!RowOf(e, v)
          = [c \in 1..m |-> IF c = 2 THEN e ELSE Promise!Target(space, v[c])]
    BY <1>1, PromiseColumns DEF Promise!RowOf
  <2>5. ASSUME NEW c \in 1..m
        PROVE  (IF c = 2 THEN e ELSE Promise!Target(space, v[c]))
                 = IF c = 1 THEN Target(space, l[1]) ELSE Reached(space, e, r, c - 1)
    <3>1. CASE c = 1
      BY <2>2, <3>1, PromiseTerms
    <3>2. CASE c = 2
      BY <3>2 DEF Reached
    <3>3. CASE c # 1 /\ c # 2
      <4>1. c \in 3..m /\ c - 1 # 1 /\ (c - 1) - 1 = c - 2
        BY <3>3
      <4>2. Reached(space, e, r, c - 1) = Target(space, r[c - 2])
        BY <4>1 DEF Reached
      <4> QED
        BY <2>2, <3>3, <4>1, <4>2, PromiseTerms
    <3> QED
      BY <3>1, <3>2, <3>3
  <2> QED
    BY <2>2, <2>3, <2>4, <2>5
<1>9. ASSUME NEW r \in WalkRefs(space, Rhs), NEW l \in WalkRefs(space, Lhs), NEW v, v = V(r, l)
      PROVE  v \in T <=> r \in RW /\ l \in LW
  <2>1. v \in T <=> \A c \in Cs :
                      Serves(space, Promise!RowOf(e, v)[Promise!Inner(c)].id,
                             Promise!RelationTo(c), path.nodes[c], v[c])
    BY <1>2, <1>5, <1>8, <1>9, PromiseWalks
  <2>2. PICK R : R = Promise!RowOf(e, v)
    OBVIOUS
  <2>3. ASSUME NEW c \in 3..m
        PROVE  /\ Promise!Inner(c) = c - 1
               /\ Promise!RelationTo(c) = path.relations[c - 1]
               /\ R[c - 1] = Reached(space, e, r, c - 2)
               /\ v[c] = r[c - 2]
    <3>1. c > idx + 1 /\ c - 1 \in 1..m /\ c - 1 # 1 /\ (c - 1) - 1 = c - 2
      BY <1>1
    <3>2. Promise!Inner(c) = c - 1 /\ Promise!RelationTo(c) = path.relations[c - 1]
      BY <3>1, PromiseColumns DEF Promise!Inner, Promise!RelationTo
    <3>3. R[c - 1] = Reached(space, e, r, c - 2)
      BY <1>8, <1>9, <2>2, <3>1
    <3> QED
      BY <1>8, <1>9, <3>2, <3>3
  <2>4. /\ Promise!Inner(1) = 2
        /\ Promise!RelationTo(1) = [path.relations[1] EXCEPT !.dir = InvertDirection(@)]
        /\ R[2] = e /\ v[1] = l[1]
    <3>1. ~(1 > idx + 1) /\ 1 + 1 = 2 /\ 2 \in 1..m /\ 2 - 1 = 1 /\ 2 # 1
      BY <1>1
    <3>2. Promise!Inner(1) = 2
      BY <3>1, PromiseColumns DEF Promise!Inner
    <3>3. Promise!RelationTo(1)
            = [path.relations[1] EXCEPT !.dir = InvertDirection(path.relations[1].dir)]
      BY <3>1, PromiseColumns, PromiseTerms DEF Promise!RelationTo
    <3>4. R[2] = Reached(space, e, r, 1)
      BY <1>8, <1>9, <2>2, <3>1
    <3>5. R[2] = e
      BY <3>4 DEF Reached
    <3> QED
      BY <1>8, <1>9, <3>2, <3>3, <3>5
  <2>5. l \in LW <=> Serves(space, R[Promise!Inner(1)].id, Promise!RelationTo(1),
                            path.nodes[1], v[1])
    BY <1>2, <2>4, LeftWalksServe
  <2>6. r \in RW <=> \A c \in 3..m : Serves(space, R[Promise!Inner(c)].id,
                                           Promise!RelationTo(c), path.nodes[c], v[c])
    <3>1. r \in RW <=> \A c \in 3..m : Serves(space, Reached(space, e, r, c - 2).id,
                                             path.relations[c - 1], path.nodes[c], r[c - 2])
      BY <1>1, <1>2, RightWalksServe
    <3>2. ASSUME NEW c \in 3..m
          PROVE  Serves(space, Reached(space, e, r, c - 2).id,
                        path.relations[c - 1], path.nodes[c], r[c - 2])
                   <=> Serves(space, R[Promise!Inner(c)].id,
                              Promise!RelationTo(c), path.nodes[c], v[c])
      BY <2>3
    <3> QED
      BY <3>1, <3>2
  <2> DEFINE S(c) == Serves(space, R[Promise!Inner(c)].id, Promise!RelationTo(c),
                            path.nodes[c], v[c])
  <2> HIDE DEF S
  <2>7. (\A c \in Cs : S(c)) <=> S(1) /\ \A c \in 3..m : S(c)
    BY <1>6
  <2> QED
    BY <2>1, <2>2, <2>5, <2>6, <2>7 DEF S
<1>10. PICK g : g = [x \in W |-> V(x[1], x[2])]
  OBVIOUS
<1>11. ASSUME NEW x \in W
       PROVE  /\ x[1] \in RW /\ x[2] \in LW /\ x = <<x[1], x[2]>>
              /\ x[1] \in WalkRefs(space, Rhs) /\ x[2] \in WalkRefs(space, Lhs)
              /\ g[x] = V(x[1], x[2])
  BY <1>2, <1>3, <1>10 DEF HalfWalks
<1>12. T \subseteq Promise!Choice
  BY <1>2 DEF Promise!Walks
<1>13. Bijects(g, W, T)
  <2>1. g \in [W -> T]
    BY <1>9, <1>10, <1>11
  <2>2. ASSUME NEW x \in W, NEW y \in W, g[x] = g[y] PROVE x = y
    <3> HIDE DEF V
    <3>1. /\ x[1] \in [1..(m - 2) -> DOMAIN space.refs]
          /\ y[1] \in [1..(m - 2) -> DOMAIN space.refs]
          /\ x[2] \in [1..1 -> DOMAIN space.refs] /\ y[2] \in [1..1 -> DOMAIN space.refs]
      BY <1>7, <1>11
    <3>2. /\ g[x][1] = x[2][1] /\ g[y][1] = y[2][1]
          /\ \A c \in 3..m : g[x][c] = x[1][c - 2] /\ g[y][c] = y[1][c - 2]
      <4>1. ASSUME NEW z \in W
            PROVE  g[z][1] = z[2][1] /\ \A c \in 3..m : g[z][c] = z[1][c - 2]
        <5>1. PICK r, l, v : r = z[1] /\ l = z[2] /\ v = g[z]
          OBVIOUS
        <5>2. v = [c \in Cs |-> IF c = 1 THEN l[1] ELSE r[c - 2]]
          BY <1>11, <5>1 DEF V
        <5>3. v[1] = l[1] /\ \A c \in 3..m : v[c] = r[c - 2]
          BY <1>6, <5>2
        <5> QED
          BY <5>1, <5>3
      <4> QED
        BY <4>1
    <3>3. x[2] = y[2]
      <4>1. \A i \in 1..1 : x[2][i] = y[2][i]
        BY <2>2, <3>2
      <4> QED
        BY <3>1, <4>1
    <3>4. x[1] = y[1]
      <4>1. ASSUME NEW k \in 1..(m - 2) PROVE x[1][k] = y[1][k]
        <5>1. PICK c \in 3..m : c = k + 2 /\ c - 2 = k
          BY <1>6
        <5> QED
          BY <2>2, <3>2, <5>1
      <4> QED
        BY <3>1, <4>1
    <3> QED
      BY <1>11, <3>3, <3>4
  <2>3. ASSUME NEW v \in T PROVE \E x \in W : g[x] = v
    <3>1. v \in [Cs -> DOMAIN space.refs]
      BY <1>5, <1>12
    <3>2. PICK r, l : r = [k \in 1..(m - 2) |-> v[k + 2]] /\ l = [k \in 1..1 |-> v[1]]
      OBVIOUS
    <3>3. r \in WalkRefs(space, Rhs) /\ l \in WalkRefs(space, Lhs)
      BY <1>6, <1>7, <3>1, <3>2
    <3>4. V(r, l) = v
      <4>1. l[1] = v[1] /\ \A c \in 3..m : r[c - 2] = v[c]
        BY <1>6, <3>2
      <4>2. \A c \in Cs : v[c] = IF c = 1 THEN l[1] ELSE r[c - 2]
        BY <1>6, <4>1
      <4> QED
        BY <3>1, <4>2
    <3>5. r \in RW /\ l \in LW
      BY <1>9, <3>3, <3>4
    <3>6. PICK x : x = <<r, l>>
      OBVIOUS
    <3>7. x \in W /\ x[1] = r /\ x[2] = l
      BY <1>3, <3>5, <3>6
    <3> QED
      BY <1>11, <3>4, <3>7
  <2> QED
    BY <2>1, <2>2, <2>3 DEF Bijects
<1>14. ASSUME NEW x \in W PROVE f[g[x]] = h[x]
  <2>1. PICK v, r, l : v = g[x] /\ r = x[1] /\ l = x[2]
    OBVIOUS
  <2>2. v \in T
    BY <1>13, <2>1 DEF Bijects
  <2>3. f[v] = Promise!RowOf(e, v)
    BY <1>2, <2>2 DEF PromisedRows
  <2>4. /\ r \in WalkRefs(space, Rhs) /\ l \in WalkRefs(space, Lhs) /\ v = V(r, l)
        /\ r \in HalfWalks(space, Rhs, e) /\ l \in HalfWalks(space, Lhs, e)
        /\ x = <<r, l>>
    BY <1>2, <1>11, <2>1
  <2>5. Promise!RowOf(e, v)
          = [c \in 1..m |-> IF c = 1 THEN Target(space, l[1])
                                     ELSE Reached(space, e, r, c - 1)]
    BY <1>8, <2>4
  <2>6. h[<<r, l>>]
          = [c \in 1..m |-> IF c = 1 THEN Target(space, l[1])
                                     ELSE Reached(space, e, r, c - 1)]
    <3>1. Joined(space, Rhs, Lhs, e)[<<r, l>>]
            = [c \in 1..m |-> IF c = 1 THEN Target(space, l[1])
                                       ELSE Reached(space, e, r, c - 1)]
      BY <1>1, <2>4, JoinedRow
    <3> QED
      BY <1>2, <3>1
  <2> QED
    BY <2>1, <2>3, <2>4, <2>5, <2>6
<1> QED
  BY <1>2, <1>4, <1>13, <1>14, ListsThrough

(* A start in the last column is compared: if it does not match, there is  *)
(* no walk of the right half.                                              *)
LEMMA StartNotMatching ==
  ASSUME IInv, Supported(space, path, idx), idx + 1 = Size(path), NEW e,
         ~IsMatching(e, path.nodes[idx + 1]), NEW rs \in Seq(Row), Contributes(rs, e)
  PROVE  rs = <<>>
<1>0. PICK n \in Nat : n = Size(path) /\ n = idx + 1
  BY PathParts
<1>1. PICK p : p = Rhs /\ n = Size(path) /\ n = idx + 1
  BY <1>0
<1>2. Size(p) = 1 /\ p.nodes[1] = path.nodes[n]
  <2>1. path.nodes \in Seq(Node) /\ Len(path.nodes) = n /\ n >= 1
    BY <1>1, PathParts
  <2>2. p.nodes = SubSeq(path.nodes, n, n)
    BY <1>1, <2>1 DEF Rhs, SplitRight
  <2>3. Len(SubSeq(path.nodes, n, n)) = 1 /\ SubSeq(path.nodes, n, n)[1] = path.nodes[n]
    BY <2>1, SubSeqProperties
  <2> QED
    BY <2>2, <2>3 DEF Size
<1>3. \A w : ~EndFits(space, p, e, w)
  BY <1>1, <1>2 DEF EndFits, Reached
<1>4. HalfWalks(space, Rhs, e) = {}
  BY <1>1, <1>3 DEF HalfWalks
<1>5. HalfWalks(space, Rhs, e) \X HalfWalks(space, Lhs, e) = {}
  BY <1>4
<1>6. Lists(rs, {}, RowsAlong(space, Rhs, e)) \/ Lists(rs, {}, Joined(space, Rhs, Lhs, e))
  BY <1>4, <1>5, Zenon DEF Contributes
<1> QED
  BY <1>6, OnlyEmptyListsNothing

-----------------------------------------------------------------------------
(***************************************************************************)
(* The rows of a start element as a bag, and a step of the promise.        *)
(***************************************************************************)
LEMMA PromiseCardinality ==
  ASSUME NEW S
  PROVE  Promise!Cardinality(S) = Cardinality(S)
BY Zenon DEF Promise!Cardinality, Cardinality

LEMMA PromiseBag ==
  ASSUME NEW s
  PROVE  Promise!ToBag(s) = [x \in {s[i] : i \in DOMAIN s} |->
                               Cardinality({i \in DOMAIN s : s[i] = x})]
<1>1. Promise!Range(s) = {s[i] : i \in DOMAIN s}
  BY Zenon DEF Promise!Range
<1> QED
  BY <1>1, PromiseCardinality DEF Promise!ToBag

LEMMA NothingContributed ==
  ASSUME NEW e, ~IsMatching(e, path.nodes[idx + 1])
  PROVE  Promise!ToBag(<<>>) = Promise!Contribution(e)
<1>1. Promise!Contribution(e) = Promise!EmptyBag
  BY PromiseColumns, PromiseTerms DEF Promise!Contribution
<1>2. PICK s : s = <<>>
  OBVIOUS
<1>3. DOMAIN s = {}
  BY <1>2
<1>4. {s[i] : i \in DOMAIN s} = {}
  BY <1>3
<1>5. \A f, g : DOMAIN f = {} /\ DOMAIN g = {} /\ f = [x \in DOMAIN f |-> f[x]]
                  /\ g = [x \in DOMAIN g |-> g[x]] => f = g
  OBVIOUS
<1>6. DOMAIN Promise!ToBag(s) = {}
      /\ Promise!ToBag(s) = [x \in DOMAIN Promise!ToBag(s) |-> Promise!ToBag(s)[x]]
  BY <1>4, PromiseBag
<1>7. DOMAIN Promise!EmptyBag = {}
      /\ Promise!EmptyBag = [x \in DOMAIN Promise!EmptyBag |-> Promise!EmptyBag[x]]
  BY DEF Promise!EmptyBag, Promise!SetToBag
<1> QED
  BY <1>1, <1>2, <1>5, <1>6, <1>7

LEMMA ContributionListed ==
  ASSUME NEW e, IsMatching(e, path.nodes[idx + 1]), NEW rs \in Seq(Row),
         Lists(rs, Promise!Walks(e), PromisedRows(e))
  PROVE  Promise!ToBag(rs) = Promise!Contribution(e)
<1>1. PICK W, h, D : W = Promise!Walks(e) /\ h = PromisedRows(e) /\ D = DOMAIN rs
  OBVIOUS
<1>2. D = 1..Len(rs)
  BY <1>1, LenProperties
<1>3. \A w \in W : h[w] = Promise!RowOf(e, w)
  BY <1>1 DEF PromisedRows
<1>4. Promise!Contribution(e)
        = [r \in {Promise!RowOf(e, w) : w \in W} |->
             Promise!Cardinality({w \in W : Promise!RowOf(e, w) = r})]
  BY <1>1, PromiseColumns, PromiseTerms DEF Promise!Contribution
<1>5. {Promise!RowOf(e, w) : w \in W} = {h[w] : w \in W}
  BY <1>3
<1>6. {rs[i] : i \in D} = {h[w] : w \in W}
  <2>1. Lists(rs, W, h)
    BY <1>1
  <2>2. Entries(rs) = Values(h, W)
    BY <2>1, ListsRange
  <2> QED
    BY <1>2, <2>2 DEF Entries, Values
<1>7. ASSUME NEW r
      PROVE  Promise!Cardinality({w \in W : Promise!RowOf(e, w) = r})
               = Cardinality({i \in D : rs[i] = r})
  <2>1. PICK T \in SUBSET W, E \in SUBSET (1..Len(rs)) :
          T = {w \in W : Promise!RowOf(e, w) = r} /\ E = {i \in D : rs[i] = r}
    <3>1. {w \in W : Promise!RowOf(e, w) = r} \in SUBSET W
      OBVIOUS
    <3>2. {i \in D : rs[i] = r} \in SUBSET (1..Len(rs))
      BY <1>2
    <3> QED
      BY <3>1, <3>2
  <2>2. \A i \in 1..Len(rs) : \A w \in W : rs[i] = h[w] => (i \in E <=> w \in T)
    BY <1>2, <1>3, <2>1
  <2>3. Cardinality(T) = Cardinality(E)
    BY <1>1, <2>2, ListsCount
  <2> QED
    BY <2>1, <2>3, PromiseCardinality
<1>8. Promise!ToBag(rs) = [r \in {rs[i] : i \in D} |-> Cardinality({i \in D : rs[i] = r})]
  BY <1>1, PromiseBag
<1> QED
  BY <1>4, <1>5, <1>6, <1>7, <1>8

(* What the halves give for a start element is what is promised for it.    *)
LEMMA RowsPromised ==
  ASSUME IInv, Supported(space, path, idx), NEW e \in Element,
         IsMatching(e, path.nodes[idx + 1]) \/ idx + 1 = Size(path),
         NEW rs \in Seq(Row), Contributes(rs, e)
  PROVE  IF IsMatching(e, path.nodes[idx + 1])
         THEN Lists(rs, Promise!Walks(e), PromisedRows(e))
         ELSE rs = <<>>
<1>1. idx = 0 \/ idx = 1
  BY PathParts
<1>2. CASE IsMatching(e, path.nodes[idx + 1])
  <2>1. CASE idx = 0
    <3>1. IsMatching(e, path.nodes[1])
      BY <1>2, <2>1
    <3> QED
      BY <1>2, <2>1, <3>1, StartInFirstColumn
  <2>2. CASE idx = 1
    <3>1. IsMatching(e, path.nodes[2])
      BY <1>2, <2>2
    <3> QED
      BY <1>2, <2>2, <3>1, StartInSecondColumn
  <2> QED
    BY <1>1, <2>1, <2>2
<1>3. CASE ~IsMatching(e, path.nodes[idx + 1])
  BY <1>3, StartNotMatching
<1> QED
  BY <1>2, <1>3

LEMMA BagPromised ==
  ASSUME IInv, Supported(space, path, idx), NEW e \in Element,
         IsMatching(e, path.nodes[idx + 1]) \/ idx + 1 = Size(path),
         NEW rs \in Seq(Row), Contributes(rs, e)
  PROVE  Promise!ToBag(rs) = Promise!Contribution(e)
<1>1. CASE IsMatching(e, path.nodes[idx + 1])
  BY <1>1, RowsPromised, ContributionListed
<1>2. CASE ~IsMatching(e, path.nodes[idx + 1])
  BY <1>2, RowsPromised, NothingContributed
<1> QED
  BY <1>1, <1>2

(* The source has matched the start, or the code compares it.              *)
StartsFit ==
  idx + 1 < Len(path.nodes) =>
    \A k \in DOMAIN starts : IsMatching(starts[k], path.nodes[idx + 1])

LEMMA StartsFitStays ==
  ASSUME IInv, StartsFit, UNCHANGED input,
         starts' = starts \/ (starts # <<>> /\ starts' = Tail(starts))
  PROVE  StartsFit'
<1>1. space' = space /\ path' = path /\ idx' = idx
  BY DEF input
<1>2. CASE starts' = starts
  BY <1>1, <1>2 DEF StartsFit
<1>3. CASE starts # <<>> /\ starts' = Tail(starts)
  <2>1. starts \in Seq(Element)
    BY DEF IInv, TypeOK
  <2>2. PICK n \in Nat : /\ Len(starts) = n + 1 /\ DOMAIN starts = 1..(n + 1)
                         /\ DOMAIN Tail(starts) = 1..n
                         /\ \A k \in 1..n : Tail(starts)[k] = starts[k + 1]
    <3>1. /\ Tail(starts) \in Seq(Element) /\ Len(Tail(starts)) = Len(starts) - 1
          /\ \A k \in 1..Len(Tail(starts)) : Tail(starts)[k] = starts[k + 1]
      BY <1>3, <2>1, HeadTailProperties
    <3>2. Len(starts) \in Nat \ {0} /\ DOMAIN starts = 1..Len(starts)
          /\ DOMAIN Tail(starts) = 1..Len(Tail(starts))
      BY <1>3, <2>1, <3>1, EmptySeq, LenProperties
    <3>3. PICK m \in Nat \ {0} : Len(starts) = m
      BY <3>2
    <3>4. PICK n \in Nat : Len(starts) = n + 1 /\ Len(Tail(starts)) = n
      <4>1. m - 1 \in Nat /\ m = (m - 1) + 1
        OBVIOUS
      <4> QED
        BY <3>1, <3>3, <4>1
    <3> QED
      BY <3>1, <3>2, <3>4
  <2>3. \A k \in 1..n : k + 1 \in 1..(n + 1)
    OBVIOUS
  <2> QED
    BY <1>1, <1>3, <2>2, <2>3 DEF StartsFit
<1> QED
  BY <1>2, <1>3

LEMMA InputStays ==
  ASSUME Next
  PROVE  UNCHANGED <<space, path, idx>>
BY DEF Next, Filter, Descend, Reject, Accept, AssertionFails, Return, RightDone, LeftDone,
       input

LEMMA HeadFits ==
  ASSUME IInv, PromiseInv, StartsFit, starts # <<>>
  PROVE  /\ Head(starts) \in Element
         /\ IsMatching(Head(starts), path.nodes[idx + 1]) \/ idx + 1 = Size(path)
<1>1. starts \in Seq(Element)
  BY DEF IInv, TypeOK
<1>2. Len(starts) \in Nat \ {0} /\ DOMAIN starts = 1..Len(starts)
  BY <1>1, EmptySeq, LenProperties
<1>3. Head(starts) = starts[1] /\ starts[1] \in Element /\ 1 \in DOMAIN starts
  BY <1>1, <1>2, ElementOfSeq, HeadTailProperties
<1>4. Supported(space, path, idx)
  BY DEF PromiseInv
<1>5. PICK m \in Nat : m = Len(path.nodes) /\ m = Size(path) /\ idx + 1 <= m
  BY <1>4, PathParts
<1>6. idx + 1 < m \/ idx + 1 = m
  BY <1>4, <1>5, PathParts
<1> QED
  BY <1>3, <1>5, <1>6 DEF StartsFit

LEMMA PromisedStep ==
  ASSUME IInv, PromiseInv, StartsFit, Next
  PROVE  [Promise!MatchOne]_(Promise!vars) /\ StartsFit'
<1>1. UNCHANGED <<space, path, idx>>
  BY InputStays
<1>2. CASE UNCHANGED <<space, path, idx, starts, results>>
  <2>1. [Promise!MatchOne]_(Promise!vars)
    BY <1>2 DEF Promise!vars
  <2>2. StartsFit'
    BY <1>2 DEF StartsFit
  <2> QED
    BY <2>1, <2>2
<1>3. ASSUME starts # <<>>, NEW rs \in Seq(Row), Emplace(rs), Contributes(rs, Head(starts))
      PROVE  Promise!MatchOne
  <2>1. results \in Seq(Row)
    BY DEF IInv, TypeOK
  <2>2. results' = results \o rs /\ starts' = Tail(starts)
    BY <1>3 DEF Emplace
  <2>3. PICK n, k \in Nat : n = Len(results) /\ k = Len(rs)
    BY <2>1, LenProperties
  <2>4. PICK all \in Seq(Row) :
          /\ all = results \o rs /\ Len(all) = n + k
          /\ \A i \in 1..(n + k) : all[i] = IF i <= n THEN results[i] ELSE rs[i - n]
    <3>1. /\ results \o rs \in Seq(Row) /\ Len(results \o rs) = Len(results) + Len(rs)
          /\ \A i \in 1..(Len(results) + Len(rs)) :
               (results \o rs)[i] = IF i <= Len(results) THEN results[i]
                                    ELSE rs[i - Len(results)]
      BY <2>1, ConcatProperties, Zenon
    <3> QED
      BY <2>3, <3>1, Zenon
  <2>5. SubSeq(all, n + 1, n + k) = rs
    BY <2>1, <2>3, <2>4, AppendedPart
  <2>6. SubSeq(results, 1, n) = SubSeq(all, 1, n)
    <3>1. SubSeq(results, 1, n) = [i \in 1..n |-> results[i]]
      BY <2>1, <2>3
    <3>2. SubSeq(all, 1, n) = [i \in 1..n |-> all[i]]
      BY <2>3, <2>4
    <3>3. \A i \in 1..n : all[i] = results[i]
      BY <2>3, <2>4
    <3> QED
      BY <3>1, <3>2, <3>3
  <2>7. Promise!IsPrefix(results, results')
    <3>1. n <= n + k
      BY <2>3
    <3> QED
      BY <2>2, <2>3, <2>4, <2>6, <3>1 DEF Promise!IsPrefix
  <2>8. Promise!Appended = rs
    BY <2>2, <2>3, <2>4, <2>5 DEF Promise!Appended
  <2>9. Promise!ToBag(rs) = Promise!Contribution(Head(starts))
    <3>1. PICK e \in Element : e = Head(starts)
      BY <1>3, HeadFits
    <3>2. IsMatching(e, path.nodes[idx + 1]) \/ idx + 1 = Size(path)
      BY <1>3, <3>1, HeadFits
    <3> QED
      BY <1>3, <3>1, <3>2, BagPromised DEF PromiseInv
  <2> QED
    BY <1>1, <1>3, <2>2, <2>7, <2>8, <2>9 DEF Promise!MatchOne
<1>4. Keeps
  BY NextKeeps
<1>5. UNCHANGED input
  BY <1>1 DEF input
<1>6. starts' = starts \/ (starts # <<>> /\ starts' = Tail(starts))
  BY <1>4 DEF Keeps, Emplace
<1>7. StartsFit'
  BY <1>5, <1>6, StartsFitStays
<1> QED
  BY <1>2, <1>3, <1>4, <1>7 DEF Keeps

(* A filter() that returns has appended exactly the rows of the walks that *)
(* carry the whole pattern, each as often as there are references for it,  *)
(* whatever was split, browsed, nested and merged for them, and before it  *)
(* returns nothing can be seen (PathMatcher::filter).                      *)
THEOREM PromiseIsKept ==
  ASSUME \A in \in Inputs : Handled(in)
  PROVE  Spec => KeepsPromise
<1>1. Init => PromiseInv /\ StartsFit
  <2>1. ASSUME Init PROVE StartsFit
    <3>1. PICK in \in Inputs : path = in.path /\ idx = in.idx /\ starts = in.starts
      BY <2>1 DEF Init
    <3> QED
      BY <3>1 DEF Handled, StartsFit
  <2> QED
    BY <2>1, InitPromiseInv
<1>2. IInv /\ PromiseInv /\ StartsFit /\ [Next]_vars => PromiseInv' /\ StartsFit'
  <2>1. ASSUME IInv, PromiseInv, StartsFit, UNCHANGED vars PROVE StartsFit'
    <3>1. UNCHANGED input /\ starts' = starts
      BY <2>1 DEF vars, input
    <3> QED
      BY <2>1, <3>1, StartsFitStays
  <2> QED
    BY <2>1, PromisedStep, NextKeeps, StutterKeeps
<1>3. IInv /\ PromiseInv /\ StartsFit /\ [Next]_vars => [Promise!MatchOne]_(Promise!vars)
  <2>1. ASSUME UNCHANGED vars PROVE [Promise!MatchOne]_(Promise!vars)
    BY <2>1 DEF vars, Promise!vars
  <2> QED
    BY <2>1, PromisedStep
<1>4. Init => Promise!Init
  BY DEF Init, Promise!Init
<1> QED
  BY <1>1, <1>2, <1>3, <1>4, Invariance, PTL DEF Spec, KeepsPromise, Promise!Spec

-----------------------------------------------------------------------------
(***************************************************************************)
(* The rows and the start elements as sets, for the engine, which tells    *)
(* the matcher what to start from little by little: H are all elements it  *)
(* has been handed so far.                                                 *)
(***************************************************************************)
RowsOf(e) ==
  IF IsMatching(e, path.nodes[idx + 1])
  THEN {Promise!RowOf(e, v) : v \in Promise!Walks(e)}
  ELSE {}

Filled(S) == UNION {RowsOf(e) : e \in S}

Fitted(S) ==
  idx + 1 < Len(path.nodes) => \A e \in S : IsMatching(e, path.nodes[idx + 1])

Answering(H) ==
  /\ PromiseInv
  /\ Fitted(H)
  /\ Range(starts) \subseteq H
  /\ Range(results) \cup Filled(Range(starts)) = Filled(H)

LEMMA RowsPromisedAsSet ==
  ASSUME IInv, Supported(space, path, idx), NEW e \in Element,
         IsMatching(e, path.nodes[idx + 1]) \/ idx + 1 = Size(path),
         NEW rs \in Seq(Row), Contributes(rs, e)
  PROVE  Range(rs) = RowsOf(e)
<1>1. DOMAIN rs = 1..Len(rs) /\ Range(rs) = Entries(rs)
  BY LenProperties DEF Range, Entries
<1>2. CASE IsMatching(e, path.nodes[idx + 1])
  <2>1. Lists(rs, Promise!Walks(e), PromisedRows(e))
    BY <1>2, RowsPromised
  <2>2. Entries(rs) = Values(PromisedRows(e), Promise!Walks(e))
    BY <2>1, ListsRange
  <2>3. Values(PromisedRows(e), Promise!Walks(e)) = {Promise!RowOf(e, v) : v \in Promise!Walks(e)}
    BY DEF Values, PromisedRows
  <2> QED
    BY <1>1, <1>2, <2>2, <2>3 DEF RowsOf
<1>3. CASE ~IsMatching(e, path.nodes[idx + 1])
  <2>1. rs = <<>>
    BY <1>3, RowsPromised
  <2> QED
    BY <1>3, <2>1 DEF RowsOf, Range
<1> QED
  BY <1>2, <1>3

LEMMA RangeSplits ==
  ASSUME NEW S, NEW s \in Seq(S), NEW t \in Seq(S)
  PROVE  /\ Range(s \o t) = Range(s) \cup Range(t)
         /\ s # <<>> => Range(s) = {Head(s)} \cup Range(Tail(s))
<1>1. \A u \in Seq(S) : Range(u) = Entries(u)
  BY LenProperties DEF Range, Entries
<1>2. s \o t \in Seq(S) /\ (s # <<>> => Tail(s) \in Seq(S))
  BY ConcatProperties, HeadTailProperties
<1>3. /\ Entries(s \o t) = Entries(s) \cup Entries(t)
      /\ s # <<>> => Entries(s) = {Head(s)} \cup Entries(Tail(s))
  BY EntriesSplit
<1> QED
  BY <1>1, <1>2, <1>3

LEMMA FilledUnchanged ==
  ASSUME UNCHANGED <<space, path, idx>>
  PROVE  /\ \A e : RowsOf(e)' = RowsOf(e)
         /\ \A S : Filled(S)' = Filled(S)
         /\ \A S : Fitted(S)' <=> Fitted(S)
<1>1. ASSUME NEW e PROVE RowsOf(e)' = RowsOf(e)
  <2>1. Promise!Walks(e)' = Promise!Walks(e)
    BY DEF Promise!Walks, Promise!Choice, Promise!Columns, Promise!StartColumn,
           Promise!IsWalk, Promise!RowOf, Promise!Carries, Promise!Inner, Promise!RelationTo
  <2>2. \A v : Promise!RowOf(e, v)' = Promise!RowOf(e, v)
    BY DEF Promise!RowOf, Promise!Columns, Promise!StartColumn
  <2> QED
    BY <2>1, <2>2 DEF RowsOf
<1>2. \A S : Filled(S)' = Filled(S)
  BY <1>1 DEF Filled
<1>3. \A S : Fitted(S)' <=> Fitted(S)
  BY DEF Fitted
<1> QED
  BY <1>1, <1>2, <1>3

LEMMA NextAnswering ==
  ASSUME IInv, NEW H, Answering(H), Next
  PROVE  Answering(H)'
<1>1. UNCHANGED <<space, path, idx>>
  BY InputStays
<1>2. PromiseInv' /\ Keeps
  BY NextKeeps DEF Answering
<1>3. Fitted(H)' /\ Filled(H)' = Filled(H)
  BY <1>1, FilledUnchanged DEF Answering
<1>4. CASE starts' = starts /\ results' = results
  <2>1. Range(starts') = Range(starts) /\ Range(results') = Range(results)
    BY <1>4
  <2>2. Filled(Range(starts))' = Filled(Range(starts))
    BY <1>1, <1>4, FilledUnchanged DEF Filled
  <2> QED
    BY <1>2, <1>3, <2>1, <2>2 DEF Answering
<1>5. ASSUME starts # <<>>, NEW rs \in Seq(Row), Emplace(rs), Contributes(rs, Head(starts))
      PROVE  Answering(H)'
  <2>1. results \in Seq(Row) /\ starts \in Seq(Element)
    BY DEF IInv, TypeOK
  <2>2. results' = results \o rs /\ starts' = Tail(starts)
    BY <1>5 DEF Emplace
  <2>3. Range(results') = Range(results) \cup Range(rs)
    BY <2>1, <2>2, RangeSplits
  <2>4. PICK R : R = Range(Tail(starts))
    OBVIOUS
  <2>5. Range(starts) = {Head(starts)} \cup R
    BY <1>5, <2>1, <2>4, RangeSplits
  <2>6. StartsFit
    BY <2>1, InRange, LenProperties DEF Answering, Fitted, StartsFit
  <2>7. Range(rs) = RowsOf(Head(starts))
    BY <1>5, <2>6, HeadFits, RowsPromisedAsSet DEF Answering, PromiseInv
  <2>8. Filled(Range(starts)) = RowsOf(Head(starts)) \cup Filled(R)
    BY <2>5 DEF Filled
  <2>9. Range(results) \cup Range(rs) \cup Filled(R) = Filled(H)
    BY <2>7, <2>8 DEF Answering
  <2>10. Range(starts') = R /\ Filled(Range(starts))' = Filled(R)
    <3>1. Range(starts)' = R
      BY <2>2, <2>4
    <3>2. Filled(Range(starts))' = Filled(R)'
      BY <3>1 DEF Filled
    <3> QED
      BY <1>1, <3>1, <3>2, FilledUnchanged
  <2>11. Range(starts') \subseteq H
    BY <2>5, <2>10 DEF Answering
  <2> QED
    BY <1>2, <1>3, <2>3, <2>9, <2>10, <2>11 DEF Answering
<1> QED
  BY <1>2, <1>4, <1>5 DEF Keeps

LEMMA StutterAnswering ==
  ASSUME IInv, NEW H, Answering(H), UNCHANGED vars
  PROVE  Answering(H)'
<1>1. UNCHANGED <<space, path, idx>> /\ starts' = starts /\ results' = results
  BY DEF vars, input
<1>2. PromiseInv'
  BY StutterKeeps DEF Answering
<1>3. Range(starts') = Range(starts) /\ Range(results') = Range(results)
  BY <1>1
<1>4. Filled(Range(starts))' = Filled(Range(starts))
  BY <1>1, FilledUnchanged DEF Filled
<1>5. Fitted(H)' /\ Filled(H)' = Filled(H)
  BY <1>1, FilledUnchanged DEF Answering
<1> QED
  BY <1>2, <1>3, <1>4, <1>5 DEF Answering

(* The source hands over more elements, when all have been filtered.       *)
LEMMA MoreAnswering ==
  ASSUME NEW H, Answering(H), starts = <<>>, NEW new, Range(starts') = new,
         UNCHANGED <<space, path, idx, phase, frames, rows, rights, found, results>>,
         phase = "idle", Fitted(new)
  PROVE  Answering(H \cup new)'
<1>1. PromiseInv'
  BY DEF Answering, PromiseInv, Supported, Checking
<1>2. Filled(Range(starts)) = {}
  BY DEF Filled, Range
<1>3. Range(results) = Filled(H) /\ Fitted(H)
  BY <1>2 DEF Answering
<1>4. Filled(H \cup new) = Filled(H) \cup Filled(new)
  BY DEF Filled
<1>5. Filled(H \cup new)' = Filled(H) \cup Filled(new) /\ Fitted(H \cup new)'
  BY <1>3, <1>4, FilledUnchanged DEF Fitted
<1>6. Filled(Range(starts))' = Filled(new)
  <2>1. Filled(Range(starts))' = Filled(new)'
    BY DEF Filled
  <2> QED
    BY <2>1, FilledUnchanged
<1> QED
  BY <1>1, <1>3, <1>5, <1>6 DEF Answering

-----------------------------------------------------------------------------
(***************************************************************************)
(* The rows of a start element in terms of the references of the space:    *)
(* where references are kept with both their nodes, it does not matter     *)
(* from which end the matcher has followed them.                           *)
(***************************************************************************)
BothEnds(sp) ==
  \A i \in DOMAIN sp.refs :
    /\ sp.refs[i].node \notin sp.bad
    /\ \E j \in DOMAIN sp.refs :
         sp.refs[j] = [node    |-> sp.refs[i].target,
                       target  |-> sp.refs[i].node,
                       type    |-> sp.refs[i].type,
                       forward |-> ~sp.refs[i].forward]

IdsOf(row) == [c \in DOMAIN row |-> row[c].id]

Referred(from, to, dir, type) ==
  \E i \in DOMAIN space.refs :
    /\ space.refs[i].node = from
    /\ space.refs[i].target = to
    /\ DirectionFits(dir, space.refs[i].forward)
    /\ TypeFits(type, space.refs[i].type)

FitsFrom(e, r) ==
  /\ r[idx + 1] = e.id
  /\ IsMatching(e, path.nodes[idx + 1])
  /\ \A c \in 1..Size(path) \ {idx + 1} :
       IsMatching(ElementOf(space, r[c]), path.nodes[c])
  /\ \A c \in 2..Size(path) :
       Referred(r[c - 1], r[c], path.relations[c - 1].dir, path.relations[c - 1].type)

(* The reference that serves a column, chosen as the promise has it: the   *)
(* first that leads from the inner neighbour to the node.                  *)
Leading(r, c) ==
  {i \in DOMAIN space.refs :
     Carry(space, r[Promise!Inner(c)], Promise!RelationTo(c), i)
       /\ space.refs[i].target = r[c]}

LEMMA ReferredIsCarried ==
  ASSUME space \in Space, BothEnds(space), NEW from, NEW to, NEW dir, NEW type
  PROVE  Referred(from, to, dir, type)
           <=> \E i \in DOMAIN space.refs :
                 /\ from \notin space.bad
                 /\ i \in Fitting(space, from, dir, type, NodeClass)
                 /\ space.refs[i].target = to
<1>1. \A i \in DOMAIN space.refs : space.class[space.refs[i].target] \in NodeClass
  BY TargetIsElement DEF Target, ElementOf, Element
<1>2. \A i \in DOMAIN space.refs : space.refs[i].node = from => from \notin space.bad
  BY DEF BothEnds
<1> QED
  BY <1>1, <1>2 DEF Referred, Fitting

LEMMA ReferredFromBothEnds ==
  ASSUME space \in Space, BothEnds(space), NEW from, NEW to, NEW dir \in Direction, NEW type
  PROVE  Referred(from, to, dir, type) <=> Referred(to, from, InvertDirection(dir), type)
<1>1. \A b \in BOOLEAN :
        DirectionFits(dir, b) <=> DirectionFits(InvertDirection(dir), ~b)
  BY DEF DirectionFits, InvertDirection, Direction
<1>2. \A i \in DOMAIN space.refs : space.refs[i] \in HalfRef
  BY ElementOfSeq, LenProperties DEF Space
<1>3. ASSUME NEW i \in DOMAIN space.refs
      PROVE  \E j \in DOMAIN space.refs :
               /\ space.refs[j].node = space.refs[i].target
               /\ space.refs[j].target = space.refs[i].node
               /\ space.refs[j].type = space.refs[i].type
               /\ space.refs[j].forward = ~space.refs[i].forward
  <2>1. PICK j \in DOMAIN space.refs :
          space.refs[j] = [node    |-> space.refs[i].target,
                           target  |-> space.refs[i].node,
                           type    |-> space.refs[i].type,
                           forward |-> ~space.refs[i].forward]
    BY DEF BothEnds
  <2>2. /\ space.refs[j].node = space.refs[i].target
        /\ space.refs[j].target = space.refs[i].node
        /\ space.refs[j].type = space.refs[i].type
        /\ space.refs[j].forward = ~space.refs[i].forward
    <3>1. PICK b : b = ~space.refs[i].forward
      OBVIOUS
    <3>2. space.refs[j] = [node    |-> space.refs[i].target,
                           target  |-> space.refs[i].node,
                           type    |-> space.refs[i].type,
                           forward |-> b]
      BY <2>1, <3>1, Zenon
    <3>3. /\ space.refs[j].node = space.refs[i].target
          /\ space.refs[j].target = space.refs[i].node
          /\ space.refs[j].type = space.refs[i].type
          /\ space.refs[j].forward = b
      BY <3>2
    <3> QED
      BY <3>1, <3>3, Zenon
  <2> QED
    BY <2>2
<1>4. \A i \in DOMAIN space.refs :
        space.refs[i].forward \in BOOLEAN /\ (~(~space.refs[i].forward)) = space.refs[i].forward
  BY <1>2 DEF HalfRef
<1>5. ASSUME NEW i \in DOMAIN space.refs,
             space.refs[i].node = from, space.refs[i].target = to,
             DirectionFits(dir, space.refs[i].forward), TypeFits(type, space.refs[i].type)
      PROVE  Referred(to, from, InvertDirection(dir), type)
  <2>1. PICK j \in DOMAIN space.refs :
          /\ space.refs[j].node = to /\ space.refs[j].target = from
          /\ space.refs[j].type = space.refs[i].type
          /\ space.refs[j].forward = ~space.refs[i].forward
    BY <1>3, <1>5
  <2>2. DirectionFits(InvertDirection(dir), space.refs[j].forward)
    BY <1>1, <1>4, <1>5, <2>1
  <2>3. TypeFits(type, space.refs[j].type)
    BY <1>5, <2>1
  <2> QED
    BY <2>1, <2>2, <2>3 DEF Referred
<1>6. ASSUME NEW i \in DOMAIN space.refs,
             space.refs[i].node = to, space.refs[i].target = from,
             DirectionFits(InvertDirection(dir), space.refs[i].forward),
             TypeFits(type, space.refs[i].type)
      PROVE  Referred(from, to, dir, type)
  <2>1. PICK j \in DOMAIN space.refs :
          /\ space.refs[j].node = from /\ space.refs[j].target = to
          /\ space.refs[j].type = space.refs[i].type
          /\ space.refs[j].forward = ~space.refs[i].forward
    BY <1>3, <1>6
  <2>2. DirectionFits(dir, space.refs[j].forward)
    <3>1. DirectionFits(dir, ~space.refs[i].forward)
            <=> DirectionFits(InvertDirection(dir), ~(~space.refs[i].forward))
      BY <1>1, <1>4
    <3> QED
      BY <1>4, <1>6, <2>1, <3>1
  <2>3. TypeFits(type, space.refs[j].type)
    BY <1>6, <2>1
  <2> QED
    BY <2>1, <2>2, <2>3 DEF Referred
<1> QED
  BY <1>5, <1>6 DEF Referred

(* The inner neighbour of a column, and the relation to it.                *)
LEMMA InnerColumns ==
  ASSUME IInv, idx = 0 \/ idx = 1, NEW c \in 1..Size(path) \ {idx + 1}
  PROVE  IF c > idx + 1
         THEN /\ c \in 2..Size(path) /\ c - 1 \in 1..Size(path)
              /\ Promise!Inner(c) = c - 1
              /\ Promise!RelationTo(c) = path.relations[c - 1]
         ELSE /\ c = 1 /\ idx = 1 /\ 2 \in 1..Size(path)
              /\ Promise!Inner(c) = 2
              /\ Promise!RelationTo(c)
                   = [path.relations[1] EXCEPT !.dir = InvertDirection(@)]
<1>1. PICK m \in Nat : m = Size(path) /\ idx < m
  BY SplittablePathSize DEF IInv
<1>2. CASE c > idx + 1
  <2>1. c \in 2..m /\ c - 1 \in 1..m
    BY <1>1, <1>2
  <2>2. Promise!Inner(c) = c - 1 /\ Promise!RelationTo(c) = path.relations[c - 1]
    BY <1>2, PromiseColumns DEF Promise!Inner, Promise!RelationTo
  <2> QED
    BY <1>1, <1>2, <2>1, <2>2
<1>3. CASE ~(c > idx + 1)
  <2>1. c = 1 /\ idx = 1 /\ 2 \in 1..m
    BY <1>1, <1>3
  <2>2. ~(c > Promise!StartColumn) /\ c + 1 = 2
    BY <1>3, <2>1, PromiseColumns
  <2>3. Promise!Inner(c) = 2
    BY <2>2 DEF Promise!Inner
  <2>4. Promise!RelationTo(c) = [path.relations[1] EXCEPT !.dir = InvertDirection(@)]
    BY <2>1, <2>2, PromiseTerms DEF Promise!RelationTo
  <2> QED
    BY <1>1, <1>3, <2>1, <2>3, <2>4
<1> QED
  BY <1>2, <1>3

LEMMA ReferredIsLed ==
  ASSUME IInv, idx = 0 \/ idx = 1, BothEnds(space), NEW r
  PROVE  (\A c \in 2..Size(path) :
            Referred(r[c - 1], r[c], path.relations[c - 1].dir, path.relations[c - 1].type))
           <=> \A c \in 1..Size(path) \ {idx + 1} : Leading(r, c) # {}
<1> DEFINE Ref(c) == Referred(r[c - 1], r[c], path.relations[c - 1].dir,
                              path.relations[c - 1].type)
<1>1. PICK m \in Nat : m = Size(path) /\ idx < m
  BY SplittablePathSize DEF IInv
<1>2. space \in Space /\ path.relations \in Seq(Relation) /\ Len(path.relations) = m - 1
  BY <1>1 DEF IInv, TypeOK, SplittablePath, Path
<1>3. ASSUME NEW c \in 1..m \ {idx + 1}, c > idx + 1
      PROVE  c \in 2..m /\ (Leading(r, c) # {} <=> Ref(c))
  <2>1. /\ c \in 2..m /\ Promise!Inner(c) = c - 1
        /\ Promise!RelationTo(c) = path.relations[c - 1]
    BY <1>1, <1>3, InnerColumns
  <2>2. Leading(r, c) # {}
          <=> \E i \in DOMAIN space.refs :
                /\ r[c - 1] \notin space.bad
                /\ i \in Fitting(space, r[c - 1], path.relations[c - 1].dir,
                                 path.relations[c - 1].type, NodeClass)
                /\ space.refs[i].target = r[c]
    BY <2>1 DEF Leading, Carry
  <2> QED
    BY <1>2, <2>1, <2>2, ReferredIsCarried
<1>4. ASSUME NEW c \in 1..m \ {idx + 1}, ~(c > idx + 1)
      PROVE  c = 1 /\ idx = 1 /\ (Leading(r, c) # {} <=> Ref(2))
  <2>1. /\ c = 1 /\ idx = 1 /\ 2 \in 1..m /\ Promise!Inner(c) = 2
        /\ Promise!RelationTo(c) = [path.relations[1] EXCEPT !.dir = InvertDirection(@)]
    BY <1>1, <1>4, InnerColumns
  <2>2. path.relations[1] \in Relation
    <3>1. 1 \in 1..(m - 1)
      BY <2>1
    <3> QED
      BY <1>2, <3>1, ElementOfSeq
  <2>3. PICK dir \in Direction : dir = path.relations[1].dir
    BY <2>2 DEF Relation
  <2> DEFINE type == path.relations[1].type
  <2>4. /\ Promise!RelationTo(c).dir = InvertDirection(dir)
        /\ Promise!RelationTo(c).type = type
    BY <2>1, <2>2, <2>3 DEF Relation
  <2>5. Leading(r, c) # {}
          <=> \E i \in DOMAIN space.refs :
                /\ r[2] \notin space.bad
                /\ i \in Fitting(space, r[2], InvertDirection(dir), type, NodeClass)
                /\ space.refs[i].target = r[1]
    BY <2>1, <2>4 DEF Leading, Carry
  <2>6. Leading(r, c) # {} <=> Referred(r[2], r[1], InvertDirection(dir), type)
    BY <1>2, <2>5, ReferredIsCarried
  <2>7. Ref(2) <=> Referred(r[1], r[2], dir, type)
    BY <2>3
  <2> QED
    BY <1>2, <2>1, <2>6, <2>7, ReferredFromBothEnds
<1>5. \A c \in 2..m : (c \in 1..m \ {idx + 1} /\ c > idx + 1)
                      \/ (c = 2 /\ idx = 1 /\ 1 \in 1..m \ {idx + 1} /\ ~(1 > idx + 1))
  BY <1>1
<1> HIDE DEF Ref
<1>6. (\A c \in 2..m : Ref(c)) <=> \A c \in 1..m \ {idx + 1} : Leading(r, c) # {}
  <2>1. ASSUME \A c \in 2..m : Ref(c), NEW c \in 1..m \ {idx + 1} PROVE Leading(r, c) # {}
    <3>1. CASE c > idx + 1
      BY <1>3, <2>1, <3>1
    <3>2. CASE ~(c > idx + 1)
      <4>1. 2 \in 2..m
        BY <1>1, <1>4, <3>2
      <4> QED
        BY <1>4, <2>1, <3>2, <4>1
    <3> QED
      BY <3>1, <3>2
  <2>2. ASSUME \A c \in 1..m \ {idx + 1} : Leading(r, c) # {}, NEW c \in 2..m PROVE Ref(c)
    <3>1. CASE c \in 1..m \ {idx + 1} /\ c > idx + 1
      BY <1>3, <2>2, <3>1
    <3>2. CASE c = 2 /\ idx = 1 /\ 1 \in 1..m \ {idx + 1} /\ ~(1 > idx + 1)
      BY <1>4, <2>2, <3>2
    <3> QED
      BY <1>5, <3>1, <3>2
  <2> QED
    BY <2>1, <2>2
<1> QED
  BY <1>1, <1>6 DEF Ref

(* The ids of the rows of a start element are exactly those that fit.      *)
LEMMA IdsOfRows ==
  ASSUME IInv, idx = 0 \/ idx = 1, BothEnds(space), NEW e \in Element
  PROVE  {IdsOf(row) : row \in RowsOf(e)} = {r \in [1..Size(path) -> NodeId] : FitsFrom(e, r)}
<1>1. PICK m \in Nat : m = Size(path) /\ idx + 1 \in 1..m
  <2>1. PICK m \in Nat : m = Size(path) /\ idx < m
    BY SplittablePathSize DEF IInv
  <2>2. idx + 1 \in 1..m
    BY <2>1
  <2> QED
    BY <2>1, <2>2
<1>2. space \in Space
  BY DEF IInv, TypeOK
<1>3. PICK Cs : /\ Cs = 1..m \ {idx + 1} /\ Promise!Choice = [Cs -> DOMAIN space.refs]
  BY <1>1, PromiseColumns
<1>4. ASSUME NEW v
      PROVE  Promise!RowOf(e, v)
               = [c \in 1..m |-> IF c = idx + 1 THEN e ELSE Target(space, v[c])]
  BY <1>1, PromiseColumns, PromiseTerms DEF Promise!RowOf
<1>5. \A i \in DOMAIN space.refs :
        /\ Target(space, i) \in Element
        /\ Target(space, i).id = space.refs[i].target
        /\ Target(space, i) = ElementOf(space, space.refs[i].target)
  BY <1>2, TargetIsElement DEF Target, ElementOf
<1>6. \A c \in Cs : Promise!Inner(c) \in 1..m
  <2> SUFFICES ASSUME NEW c \in Cs PROVE Promise!Inner(c) \in 1..m
    OBVIOUS
  <2> QED
    BY <1>1, <1>3, InnerColumns
<1>7. ASSUME NEW v \in Promise!Choice, NEW r \in [1..m -> NodeId], r = IdsOf(Promise!RowOf(e, v))
      PROVE  /\ r[idx + 1] = e.id
             /\ \A c \in Cs : r[c] = space.refs[v[c]].target
             /\ \A c \in 1..m : Promise!RowOf(e, v)[c].id = r[c]
  <2>1. PICK row : row = Promise!RowOf(e, v)
    OBVIOUS
  <2>2. DOMAIN row = 1..m /\ row[idx + 1] = e /\ \A c \in Cs : row[c] = Target(space, v[c])
    BY <1>1, <1>3, <1>4, <2>1
  <2>3. \A c \in 1..m : r[c] = row[c].id
    BY <1>7, <2>1, <2>2 DEF IdsOf
  <2>4. \A c \in Cs : c \in 1..m /\ v[c] \in DOMAIN space.refs
    BY <1>3
  <2> QED
    BY <1>1, <1>5, <2>1, <2>2, <2>3, <2>4
<1>8. ASSUME NEW v \in Promise!Walks(e), IsMatching(e, path.nodes[idx + 1])
      PROVE  LET r == IdsOf(Promise!RowOf(e, v))
             IN  r \in [1..m -> NodeId] /\ FitsFrom(e, r)
  <2>1. v \in Promise!Choice
    BY DEF Promise!Walks
  <2>2. \A c \in Cs : v[c] \in DOMAIN space.refs
    BY <1>3, <2>1
  <2>3. PICK r \in [1..m -> NodeId] : r = IdsOf(Promise!RowOf(e, v))
    <3>1. \A c \in 1..m : (IF c = idx + 1 THEN e ELSE Target(space, v[c])).id \in NodeId
      BY <1>3, <1>5, <2>2 DEF Element
    <3>2. PICK row : row = Promise!RowOf(e, v)
      OBVIOUS
    <3>3. DOMAIN row = 1..m /\ \A c \in 1..m : row[c].id \in NodeId
      BY <1>4, <3>1, <3>2
    <3> QED
      BY <3>2, <3>3 DEF IdsOf
  <2>4. /\ r[idx + 1] = e.id
        /\ \A c \in Cs : r[c] = space.refs[v[c]].target
        /\ \A c \in 1..m : Promise!RowOf(e, v)[c].id = r[c]
    BY <1>7, <2>1, <2>3
  <2>5. \A c \in Cs : Serves(space, r[Promise!Inner(c)], Promise!RelationTo(c),
                             path.nodes[c], v[c])
    <3>1. \A c \in Cs : Serves(space, Promise!RowOf(e, v)[Promise!Inner(c)].id,
                               Promise!RelationTo(c), path.nodes[c], v[c])
      BY <1>1, <1>3, <1>8, <2>1, PromiseWalks
    <3>2. \A c \in Cs : Promise!RowOf(e, v)[Promise!Inner(c)].id = r[Promise!Inner(c)]
      BY <1>6, <2>4
    <3> QED
      BY <3>1, <3>2
  <2>6. \A c \in Cs : Leading(r, c) # {}
    BY <2>2, <2>4, <2>5 DEF Leading, Serves
  <2>7. \A c \in Cs : IsMatching(ElementOf(space, r[c]), path.nodes[c])
    BY <1>5, <2>2, <2>4, <2>5 DEF Serves
  <2>8. \A c \in 2..m : Referred(r[c - 1], r[c], path.relations[c - 1].dir,
                                 path.relations[c - 1].type)
    BY <1>1, <1>3, <2>6, ReferredIsLed
  <2> QED
    BY <1>1, <1>3, <1>8, <2>3, <2>4, <2>7, <2>8 DEF FitsFrom
<1>9. ASSUME NEW r \in [1..m -> NodeId], FitsFrom(e, r)
      PROVE  \E v \in Promise!Walks(e) : r = IdsOf(Promise!RowOf(e, v))
  <2>1. /\ r[idx + 1] = e.id
        /\ \A c \in Cs : IsMatching(ElementOf(space, r[c]), path.nodes[c])
        /\ \A c \in Cs : Leading(r, c) # {}
    BY <1>1, <1>3, <1>9, ReferredIsLed DEF FitsFrom
  <2>2. \A c \in Cs : \E i \in Leading(r, c) : \A j \in Leading(r, c) : i <= j
    <3> SUFFICES ASSUME NEW c \in Cs
                 PROVE  \E i \in Leading(r, c) : \A j \in Leading(r, c) : i <= j
      OBVIOUS
    <3>1. DOMAIN space.refs \subseteq Nat
      BY <1>2, LenProperties DEF Space
    <3>2. Leading(r, c) \in SUBSET Nat
      BY <3>1 DEF Leading
    <3> QED
      BY <2>1, <3>2, LeastNatural
  <2>3. PICK v : v = [c \in Cs |-> CHOOSE i \in Leading(r, c) : \A j \in Leading(r, c) : i <= j]
    OBVIOUS
  <2>4. \A c \in Cs : v[c] \in Leading(r, c) /\ \A j \in Leading(r, c) : v[c] <= j
    BY <2>2, <2>3
  <2>5. \A c \in Cs : v[c] \in DOMAIN space.refs /\ space.refs[v[c]].target = r[c]
    BY <2>4 DEF Leading
  <2>6. v \in Promise!Choice
    BY <1>3, <2>3, <2>5
  <2>7. PICK row : row = Promise!RowOf(e, v)
    OBVIOUS
  <2>8. DOMAIN row = 1..m /\ \A c \in 1..m : row[c].id = r[c]
    <3>1. DOMAIN row = 1..m /\ row[idx + 1] = e /\ \A c \in Cs : row[c] = Target(space, v[c])
      BY <1>1, <1>3, <1>4, <2>7
    <3>2. \A c \in 1..m : c = idx + 1 \/ c \in Cs
      BY <1>3
    <3> QED
      BY <1>5, <2>1, <2>5, <3>1, <3>2
  <2>9. r = IdsOf(row)
    BY <2>8 DEF IdsOf
  <2>10. ASSUME NEW c \in Cs
         PROVE  Serves(space, row[Promise!Inner(c)].id, Promise!RelationTo(c),
                       path.nodes[c], v[c])
    <3>1. row[Promise!Inner(c)].id = r[Promise!Inner(c)]
      BY <1>6, <2>8
    <3>2. IsMatching(Target(space, v[c]), path.nodes[c])
      BY <1>5, <2>1, <2>5
    <3>3. Carry(space, r[Promise!Inner(c)], Promise!RelationTo(c), v[c])
      BY <2>4 DEF Leading
    <3>4. ASSUME NEW j \in DOMAIN space.refs,
                 Carry(space, r[Promise!Inner(c)], Promise!RelationTo(c), j),
                 Target(space, j) = Target(space, v[c])
          PROVE  v[c] <= j
      <4>1. space.refs[j].target = r[c]
        BY <1>5, <2>5, <3>4
      <4>2. j \in Leading(r, c)
        BY <3>4, <4>1 DEF Leading
      <4> QED
        BY <2>4, <4>2
    <3> QED
      BY <3>1, <3>2, <3>3, <3>4 DEF Serves
  <2>11. v \in Promise!Walks(e)
    BY <1>1, <1>3, <2>6, <2>7, <2>10, PromiseWalks
  <2> QED
    BY <2>7, <2>9, <2>11
<1>10. {IdsOf(row) : row \in RowsOf(e)} \subseteq {r \in [1..m -> NodeId] : FitsFrom(e, r)}
  BY <1>8 DEF RowsOf
<1>11. ASSUME NEW r \in [1..m -> NodeId], FitsFrom(e, r)
       PROVE  r \in {IdsOf(row) : row \in RowsOf(e)}
  <2>1. IsMatching(e, path.nodes[idx + 1])
    BY <1>11 DEF FitsFrom
  <2> QED
    BY <1>9, <1>11, <2>1 DEF RowsOf
<1> QED
  BY <1>1, <1>10, <1>11

-----------------------------------------------------------------------------
(***************************************************************************)
(* What has been found when all that was handed over has been filtered,    *)
(* in terms of the space alone.                                            *)
(***************************************************************************)
LEMMA BeginsAnswering ==
  ASSUME Supported(space, path, idx)', phase' = "idle", found' = <<>>, results' = <<>>,
         NEW H, Range(starts') = H, Fitted(H)'
  PROVE  Answering(H)'
<1>1. PromiseInv'
  BY DEF PromiseInv, Checking
<1>2. Filled(Range(starts))' = Filled(H)'
  BY DEF Filled
<1>3. Range(results') = {}
  BY DEF Range
<1> QED
  BY <1>1, <1>2, <1>3 DEF Answering

(* The pattern alone fits, from the first column to the last.              *)
WholeRow(r) ==
  /\ \A c \in 1..Size(path) : IsMatching(ElementOf(space, r[c]), path.nodes[c])
  /\ \A c \in 2..Size(path) :
       Referred(r[c - 1], r[c], path.relations[c - 1].dir, path.relations[c - 1].type)

(* For the start node, an element is as good as the node it stands for.    *)
Alike(H) ==
  \A e \in H : IsMatching(e, path.nodes[idx + 1])
                 <=> IsMatching(ElementOf(space, e.id), path.nodes[idx + 1])

LEMMA IdsFound ==
  ASSUME IInv, BothEnds(space), NEW H \in SUBSET Element, Answering(H), Alike(H),
         starts = <<>>
  PROVE  {IdsOf(row) : row \in Range(results)}
           = {r \in [1..Size(path) -> NodeId] : /\ \E e \in H : e.id = r[idx + 1]
                                                /\ WholeRow(r)}
<1> DEFINE Rs == [1..Size(path) -> NodeId]
<1>1. idx = 0 \/ idx = 1
  BY DEF Answering, PromiseInv, Supported, IInv, TypeOK
<1>2. Range(results) = Filled(H)
  BY DEF Answering, Filled, Range
<1>3. idx + 1 \in 1..Size(path)
  <2>1. PICK m \in Nat : m = Size(path) /\ idx < m
    BY SplittablePathSize DEF IInv
  <2> QED
    BY <1>1, <2>1
<1>4. {IdsOf(row) : row \in Range(results)} = {r \in Rs : \E e \in H : FitsFrom(e, r)}
  <2>1. \A e \in H : {IdsOf(row) : row \in RowsOf(e)} = {r \in Rs : FitsFrom(e, r)}
    BY <1>1, IdsOfRows
  <2>2. {IdsOf(row) : row \in Range(results)} = UNION {{IdsOf(row) : row \in RowsOf(e)} : e \in H}
    BY <1>2 DEF Filled
  <2> HIDE DEF Rs
  <2>3. UNION {{IdsOf(row) : row \in RowsOf(e)} : e \in H} = UNION {{r \in Rs : FitsFrom(e, r)} : e \in H}
    BY <2>1
  <2> QED
    BY <2>2, <2>3
<1>5. ASSUME NEW e \in H, NEW r
      PROVE  FitsFrom(e, r) <=> e.id = r[idx + 1] /\ WholeRow(r)
  BY <1>3, <1>5 DEF FitsFrom, WholeRow, Alike
<1> QED
  BY <1>4, <1>5
=============================================================================
