--------------------------- MODULE MatcherRefinement --------------------------
(***************************************************************************)
(* PathMatcher with its promise: the variables of MatchingPaths are the    *)
(* part of PathMatcher's state that its callers see, under the same names, *)
(* while the frames, rights and rows of a running check() are hidden.      *)
(***************************************************************************)
EXTENDS PathMatcher

Promise == INSTANCE MatchingPaths

(* For the patterns that the code handles, a filter() that returns has     *)
(* appended exactly the rows that MatchingPaths promises, each as often as *)
(* there are references for it, and until then nothing can be seen.        *)
KeepsPromise == Promise!Spec
=============================================================================
