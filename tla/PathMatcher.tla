----------------------------- MODULE PathMatcher ----------------------------
(***************************************************************************)
(* graph::PathMatcher: matches a path pattern against the address space by *)
(* browsing.  The pattern is split at the start node.  For every start     *)
(* element the right half is checked first, and for every right row the    *)
(* inverted left half is checked from the same start and merged.           *)
(*                                                                         *)
(* check() calls itself through a nested PathMatcher for every reference   *)
(* it browses, so a check in progress is a stack of frames.  A frame is    *)
(* one browse result that is being worked off:                             *)
(*   base     the pattern of this check() is that of the half from node    *)
(*            base on                                                      *)
(*   pos      the pattern node the browse result is for                    *)
(*   row      the elements matched so far, from the start on               *)
(*   pending  the references that are still to be followed                 *)
(***************************************************************************)
EXTENDS GraphPath, Functions

CONSTANT Inputs   \* the matchers a behaviour may be about

ASSUME InputsAssumption ==
  \A in \in Inputs :
    /\ in.space \in Space
    /\ in.path \in Path
    /\ in.path.nodes # <<>>
    /\ Len(in.path.relations) = Size(in.path) - 1
    /\ in.idx \in 0..(Size(in.path) - 1)
    /\ in.starts \in Seq(Element)

VARIABLES space,    \* the address space                } constant in
          path,     \* m_path                           } one behaviour
          idx,      \* m_idx                            }
          starts,   \* what the source still hands over, the current one first
          phase,    \* which half is being checked, if any
          frames,   \* the nested check() calls, the outermost first
          rows,     \* what the running check() has found
          rights,   \* right rows that are not merged yet, the current one first
          found,    \* endResult of checkPath
          results   \* m_results, row by row

vars == <<space, path, idx, starts, phase, frames, rows, rights, found, results>>

input == <<space, path, idx>>

-----------------------------------------------------------------------------
Rhs == SplitRight(path, idx)

Lhs == TransformForLeftToRightTraversal(SplitLeft(path, idx))

(* The half the running check() is about.                                  *)
Half == IF phase = "left" THEN Lhs ELSE Rhs

ById(node) == node.id # NoId

(* The references of n that check() follows to pattern node pos of p: all  *)
(* that the browse returns, or the first to the named node.                *)
Candidates(sp, p, n, pos) ==
  LET rel  == p.relations[pos - 1]
      node == p.nodes[pos]
      br   == Browse(sp, n, rel.dir, rel.type, MaskOf(node.class))
  IN  IF ById(node)
      THEN First({i \in br : sp.refs[i].target = node.id})
      ELSE br

Frame(sp, p, base, pos, row) ==
  [base |-> base, pos |-> pos, row |-> row,
   pending |-> Candidates(sp, p, row[Len(row)].id, pos)]

(* check(start, p) up to its first browse result.  The start element is    *)
(* compared with the pattern only if the pattern is a single node.         *)
CheckFrames(sp, p, start) ==
  IF Size(p) = 1 THEN <<>> ELSE <<Frame(sp, p, 1, 2, <<start>>)>>

CheckRows(p, start) ==
  IF Size(p) = 1 /\ IsMatching(start, p.nodes[1]) THEN <<<<start>>>> ELSE <<>>

Check(half, p, start) ==
  /\ phase' = half
  /\ frames' = CheckFrames(space, p, start)
  /\ rows' = CheckRows(p, start)

-----------------------------------------------------------------------------
Init ==
  /\ \E in \in Inputs : /\ space = in.space
                        /\ path = in.path
                        /\ idx = in.idx
                        /\ starts = in.starts
  /\ phase = "idle"
  /\ frames = <<>>
  /\ rows = <<>>
  /\ rights = <<>>
  /\ found = <<>>
  /\ results = <<>>

(* filter(): the source hands over a start element.                        *)
Filter ==
  /\ phase = "idle"
  /\ starts # <<>>
  /\ Check("right", Rhs, Head(starts))
  /\ UNCHANGED <<input, starts, rights, found, results>>

-----------------------------------------------------------------------------
Top == frames[Len(frames)]

(* Following a reference of frame f of a check of the half p: a named node *)
(* is an element of the running check(); otherwise a nested check() of the *)
(* pattern from node base + 1 on starts at the element, wherever pos is.   *)
NextBase(p, f) == IF ById(p.nodes[f.pos]) THEN f.base ELSE f.base + 1

(* Defect: the nested matcher gets path.split(2).                          *)
NextPosSplitTwo(p, f) == IF ById(p.nodes[f.pos]) THEN f.pos + 1 ELSE f.base + 3

NextPos(p, f) == IF ById(p.nodes[f.pos]) THEN f.pos + 1 ELSE f.base + 2

(* Defect: the browsed node is recorded instead of the target.             *)
FollowedSource(sp, f, i) == Append(f.row, ElementOf(sp, sp.refs[i].node))

Followed(sp, f, i) == Append(f.row, Target(sp, i))

(* Defect: the loop over the references does not advance.                  *)
RestUnmoved(i) == frames

Rest(i) == [frames EXCEPT ![Len(frames)].pending = @ \ {i}]

Following(i) ==
  /\ phase \in {"right", "left"}
  /\ frames # <<>>
  /\ i \in First(Top.pending)

(* More pattern nodes to come: browse the element just reached.            *)
Descend(i) ==
  /\ Following(i)
  /\ NextPos(Half, Top) <= Size(Half)
  /\ frames' = Append(Rest(i), Frame(space, Half, NextBase(Half, Top),
                                     NextPos(Half, Top), Followed(space, Top, i)))
  /\ UNCHANGED <<input, starts, phase, rows, rights, found, results>>

(* Defect: only the class of the last element is compared.                 *)
FitsByClass(sp, p, f, i) ==
  \/ ById(p.nodes[f.pos])
  \/ IsMatchingClass(p.nodes[NextBase(p, f)].class, Target(sp, i).class)

(* The last pattern node: a nested matcher of a single node compares the   *)
(* element with it, a named node has been found by its id alone.           *)
Fits(sp, p, f, i) ==
  \/ ById(p.nodes[f.pos])
  \/ IsMatching(Target(sp, i), p.nodes[NextBase(p, f)])

Ending(i) == Following(i) /\ NextPos(Half, Top) > Size(Half)

Reject(i) ==
  /\ Ending(i)
  /\ ~Fits(space, Half, Top, i)
  /\ frames' = Rest(i)
  /\ UNCHANGED <<input, starts, phase, rows, rights, found, results>>

Accept(i) ==
  /\ Ending(i)
  /\ Fits(space, Half, Top, i)
  /\ Len(Followed(space, Top, i)) = Size(Half)
  /\ frames' = Rest(i)
  /\ rows' = Append(rows, Followed(space, Top, i))
  /\ UNCHANGED <<input, starts, phase, rights, found, results>>

(* assert(newPath.size() == path.nodeCount()) in a debug build.            *)
AssertionFails(i) ==
  /\ Ending(i)
  /\ Fits(space, Half, Top, i)
  /\ Len(Followed(space, Top, i)) # Size(Half)
  /\ phase' = "aborted"
  /\ UNCHANGED <<input, starts, frames, rows, rights, found, results>>

(* A check() without references left returns to the one that called it.    *)
Return ==
  /\ phase \in {"right", "left"}
  /\ frames # <<>>
  /\ Top.pending = {}
  /\ frames' = SubSeq(frames, 1, Len(frames) - 1)
  /\ UNCHANGED <<input, starts, phase, rows, rights, found, results>>

-----------------------------------------------------------------------------
(* checkPath returns rs and filter emplaces it.                            *)
Emplace(rs) ==
  /\ results' = results \o rs
  /\ starts' = Tail(starts)
  /\ phase' = "idle"
  /\ frames' = <<>>
  /\ rows' = <<>>
  /\ rights' = <<>>
  /\ found' = <<>>

(* The check of the right half has returned.                               *)
RightDone ==
  /\ phase = "right"
  /\ frames = <<>>
  /\ IF idx = 0 \/ rows = <<>>
     THEN Emplace(rows)
     ELSE /\ Check("left", Lhs, Head(rows)[1])
          /\ rights' = rows
          /\ UNCHANGED <<starts, found, results>>
  /\ UNCHANGED input

(* Defect: the left row keeps the start element.                           *)
MergeWithStart(lefts, right) ==
  [k \in 1..Len(lefts) |-> lefts[Len(lefts) - k + 1] \o right]

(* Defect: the left row is inserted at the end.                            *)
MergeAtEnd(lefts, right) ==
  [k \in 1..Len(lefts) |-> right \o Tail(lefts[Len(lefts) - k + 1])]

(* The left rows are taken from the last to the first, and each is put     *)
(* before the right row without its start element.                         *)
Merge(lefts, right) == [k \in 1..Len(lefts) |-> Tail(lefts[Len(lefts) - k + 1]) \o right]

(* The check of the left half has returned.                                *)
LeftDone ==
  /\ phase = "left"
  /\ frames = <<>>
  /\ LET merged == found \o Merge(rows, Head(rights))
     IN  IF Len(rights) = 1
         THEN Emplace(merged)
         ELSE /\ Check("left", Lhs, rights[2][1])
              /\ rights' = Tail(rights)
              /\ found' = merged
              /\ UNCHANGED <<starts, results>>
  /\ UNCHANGED input

-----------------------------------------------------------------------------
Next ==
  \/ Filter
  \/ \E i \in DOMAIN space.refs :
       Descend(i) \/ Reject(i) \/ Accept(i) \/ AssertionFails(i)
  \/ Return
  \/ RightDone
  \/ LeftDone

(* The query runs in one thread of the server and is never preempted.      *)
Spec == Init /\ [][Next]_vars /\ WF_vars(Next)

-----------------------------------------------------------------------------
(***************************************************************************)
(* Properties                                                              *)
(***************************************************************************)
Row == Seq(Element)

FrameType(sp) == [base : Nat \ {0}, pos : Nat \ {0}, row : Row,
                  pending : SUBSET DOMAIN sp.refs]

(* Every variable holds values of the type the code declares for it.       *)
TypeOK ==
  /\ space \in Space
  /\ path \in Path
  /\ idx \in Nat
  /\ starts \in Seq(Element)
  /\ phase \in {"idle", "right", "left", "aborted"}
  /\ frames \in Seq(FrameType(space))
  /\ rows \in Seq(Row)
  /\ rights \in Seq(Row)
  /\ found \in Seq(Row)
  /\ results \in Seq(Row)

(* Every element of the row is reached from the one before it by a browse  *)
(* for the relation between the two in the half p.                         *)
Chained(sp, p, row) ==
  \A k \in 2..Len(row) :
    \E i \in Candidates(sp, p, row[k - 1].id, k) : row[k] = Target(sp, i)

(* A row of the half p: a chain with one element for every pattern node.   *)
Linked(sp, p, row) == Len(row) = Size(p) /\ Chained(sp, p, row)

(* Whatever the nesting of check() calls and however they fail, a row that *)
(* a check() returns is a connected path through the half it checked: the  *)
(* rows of the running check and the right rows waiting to be merged       *)
(* (PathMatcher::check, and the assertions of checkPath on row sizes).     *)
HalvesLinked ==
  /\ phase \in {"right", "left"} =>
       \A row \in Range(rows) : Linked(space, Half, row)
  /\ \A row \in Range(rights) : Linked(space, Rhs, row)

Merged == Range(found) \cup Range(results)

(* Every row that checkPath returns has one column for every node of the   *)
(* pattern, also when the left half comes from another row than the right  *)
(* one (the assertions of checkPath and of PathResult::emplace, on which   *)
(* the unchecked column accesses of PathResult::paths rely).               *)
RowsComplete == \A row \in Merged : Len(row) = Size(path)

(* The merge joins halves of one start element: the columns from the start *)
(* on are a row of the right half, and the start with the columns before   *)
(* it, read from the first to the last, is a row of the inverted left half.*)
(* (That these columns are not turned around is what ColumnsLinked shows.) *)
MergedAtStart ==
  \A row \in Merged :
    /\ Linked(space, Rhs, SubSeq(row, idx + 1, Len(row)))
    /\ idx > 0 => Linked(space, Lhs, <<row[idx + 1]>> \o SubSeq(row, 1, idx))

(* A named node that is followed by one that is not named makes the nested *)
(* matcher start one pattern node too early.                               *)
Misaligned(p) ==
  \E k \in 2..(Size(p) - 1) : ById(p.nodes[k]) /\ ~ById(p.nodes[k + 1])

(* The assertion on the size of a nested row can fail only for a pattern   *)
(* with such a node inside: no other nesting, no bad status and no merge   *)
(* makes rows of different sizes meet.                                     *)
AbortsOnlyIfMisaligned ==
  phase = "aborted" => Misaligned(Rhs) \/ Misaligned(Lhs)

Finished == phase = "idle" /\ starts = <<>>

(* Browsing in circles is impossible: however the references of the space  *)
(* lead back to nodes already matched, every filter() returns or aborts.   *)
Terminates == <>(Finished \/ phase = "aborted")

(* What the code handles: the start is the first or second node of the    *)
(* pattern, no unnamed node comes right after a named one, a type is asked *)
(* only of a node at an end of the pattern, and no browse result is cut    *)
(* off; ...                                                                *)
Supported(sp, p, k) ==
  /\ k <= 1
  /\ ~Misaligned(SplitRight(p, k))
  /\ \A c \in DOMAIN p.nodes \ {k + 1} :
       ById(p.nodes[c]) \/ c \in 2..(Len(p.nodes) - 1) => p.nodes[c].type = NoId
  /\ \A n \in NodeId :
       Cardinality(Fitting(sp, n, "both", AnyRef, NodeClass)) <= MaxRefs

(* ... and the source has matched the start already, unless it is the last *)
(* node of the pattern.                                                    *)
Handled(in) ==
  /\ Supported(in.space, in.path, in.idx)
  /\ in.idx + 1 < Len(in.path.nodes) =>
       \A k \in DOMAIN in.starts :
         IsMatching(in.starts[k], in.path.nodes[in.idx + 1])

(* "an alternating sequence of nodes and relationships (n1)-[r1]-(n2)"     *)
(* (Implementation.md): neighbouring columns of a row are joined by a      *)
(* reference that fits the relation between them.                          *)
ColumnsLinked ==
  \A k \in DOMAIN results : \A c \in 2..Size(path) :
    \E i \in DOMAIN space.refs :
      /\ space.refs[i].node = results[k][c - 1].id
      /\ space.refs[i].target = results[k][c].id

(* assert(newPath.size() == path.nodeCount()) in check().                  *)
AssertionHolds == phase # "aborted"
=============================================================================
