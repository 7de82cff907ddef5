---------------------------- MODULE MCQueryClient ---------------------------
(***************************************************************************)
(* Model values for QueryClient: three requests, enough for one that has   *)
(* timed out, one that is waiting and one that comes in between; a pair of *)
(* them, where requests come at any time.                                  *)
(***************************************************************************)
EXTENDS QueryClient

CONSTANTS h1, h2, h3, q1, q2

MCRequest == {h1, h2, h3}
MCRequestPair == {h1, h2}
MCQuery == {q1, q2}
=============================================================================
