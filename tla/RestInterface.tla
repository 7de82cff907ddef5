---------------------------- MODULE RestInterface ---------------------------
(***************************************************************************)
(* What the REST interface of queryClient promises: a request is a query   *)
(* that is posted and gets one reply, which is the result of this query or *)
(* the notice that it took too long.  The result of a query is identified  *)
(* with the query.                                                         *)
(***************************************************************************)
CONSTANTS Request, Query, NoQuery, NoReply, TimeoutReply

VARIABLES text,    \* text[h]: the query that was posted by request h
          reply    \* reply[h]: what request h was replied

vars == <<text, reply>>

Open(h) == text[h] # NoQuery /\ reply[h] = NoReply

Init ==
  /\ text = [h \in Request |-> NoQuery]
  /\ reply = [h \in Request |-> NoReply]

Post(h, q) ==
  /\ text[h] = NoQuery
  /\ text' = [text EXCEPT ![h] = q]
  /\ UNCHANGED reply

Answer(h) ==
  /\ Open(h)
  /\ reply' = [reply EXCEPT ![h] = text[h]]
  /\ UNCHANGED text

GiveUp(h) ==
  /\ Open(h)
  /\ reply' = [reply EXCEPT ![h] = TimeoutReply]
  /\ UNCHANGED text

Next == \E h \in Request : (\E q \in Query : Post(h, q)) \/ Answer(h) \/ GiveUp(h)

Spec == Init /\ [][Next]_vars
=============================================================================
