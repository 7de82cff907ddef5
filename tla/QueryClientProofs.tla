-------------------------- MODULE QueryClientProofs -------------------------
(***************************************************************************)
(* Proofs of the safety properties of QueryClient, for any number of       *)
(* requests, queries and failures.                                         *)
(***************************************************************************)
EXTENDS QueryClient, SequenceTheorems, TLAPS

-----------------------------------------------------------------------------
(***************************************************************************)
(* The inductive invariant.  Every query that is stored, sent or being     *)
(* answered belongs to a request that was posted before; a request that    *)
(* came while a result was being set still has its query in the map.       *)
(***************************************************************************)
QueriesPosted ==
  \A q \in queries \cup Range(calls) : PostedBy(q, Len(promises))

ResponsePosted ==
  main = "responding" =>
    /\ target \in 1..Len(promises)
    /\ PostedBy(answer, target)
    /\ answer \in Query
    /\ \A h \in Request : gen[h] > target => text[h] \in queries

NoOtherAnswer == main \notin {"responding", "crashed"} => answer = NoQuery

IInv ==
  /\ TypeOK
  /\ QueriesPosted
  /\ ResponsePosted
  /\ NoOtherAnswer
  /\ AnswerOfEarlier
  /\ AnswerOnItsWay
  /\ \A h \in Request : gen[h] # 0 => text[h] \in Query

LEMMA InitIInv == Init => IInv
<1> SUFFICES ASSUME Init PROVE IInv
  OBVIOUS
<1>1. /\ promises = <<>> /\ queries = {} /\ calls = <<>>
      /\ main = "connecting"
      /\ \A h \in Request : gen[h] = 0
  BY DEF Init
<1>2. TypeOK
  BY ClientAssumption DEF Init, TypeOK, MainPhase
<1>3. QueriesPosted
  BY <1>1 DEF QueriesPosted, Range
<1>4. ResponsePosted /\ NoOtherAnswer /\ AnswerOfEarlier /\ AnswerOnItsWay
  BY <1>1
  DEF Init, ResponsePosted, NoOtherAnswer, AnswerOfEarlier, AnswerOnItsWay, Waiting
<1> QED
  BY <1>1, <1>2, <1>3, <1>4 DEF IInv

-----------------------------------------------------------------------------
(* Facts about sequences.                                                  *)

LEMMA RangeOfTail ==
  ASSUME NEW S, NEW s \in Seq(S), s # <<>>
  PROVE  /\ Head(s) \in S
         /\ Tail(s) \in Seq(S)
         /\ Range(s) = {Head(s)} \cup Range(Tail(s))
<1>1. PICK n \in Nat \ {0} : n = Len(s) /\ DOMAIN s = 1..n
  OBVIOUS
<1>2. /\ Head(s) \in S
      /\ Head(s) = s[1]
      /\ Tail(s) \in Seq(S)
      /\ DOMAIN Tail(s) = 1..(n - 1)
      /\ \A k \in 1..(n - 1) : Tail(s)[k] = s[k + 1]
  BY <1>1
<1>3. \A k \in 1..n : k = 1 \/ k - 1 \in 1..(n - 1)
  OBVIOUS
<1>4. \A k \in 1..(n - 1) : k + 1 \in 1..n
  OBVIOUS
<1>5. Range(s) \subseteq {Head(s)} \cup Range(Tail(s))
  <2> SUFFICES ASSUME NEW k \in 1..n, k # 1
               PROVE  s[k] \in Range(Tail(s))
    BY <1>1, <1>2 DEF Range
  <2>1. PICK j \in 1..(n - 1) : j + 1 = k
    OBVIOUS
  <2>2. Tail(s)[j] = s[k]
    BY <1>2, <2>1
  <2> QED
    BY <1>2, <2>2 DEF Range
<1>6. Range(Tail(s)) \subseteq Range(s)
  BY <1>1, <1>2, <1>4 DEF Range
<1>7. Head(s) \in Range(s)
  BY <1>1, <1>2 DEF Range
<1> QED
  BY <1>2, <1>5, <1>6, <1>7

LEMMA RangeOfAppend ==
  ASSUME NEW S, NEW s \in Seq(S), NEW e \in S
  PROVE  /\ Append(s, e) \in Seq(S)
         /\ Range(Append(s, e)) = Range(s) \cup {e}
<1>1. /\ Append(s, e) \in Seq(S)
      /\ Len(s) \in Nat
      /\ DOMAIN s = 1..Len(s)
      /\ DOMAIN Append(s, e) = 1..(Len(s) + 1)
      /\ \A k \in 1..Len(s) : Append(s, e)[k] = s[k]
      /\ Append(s, e)[Len(s) + 1] = e
  OBVIOUS
<1>2. 1..(Len(s) + 1) = 1..Len(s) \cup {Len(s) + 1}
  BY <1>1
<1> QED
  BY <1>1, <1>2 DEF Range

(* What query() makes of the promises.                                     *)
LEMMA PromisesAfterPost ==
  ASSUME TypeOK
  PROVE  LET after == Append(Abandoned, Pending)
         IN  /\ after \in Seq(Query \cup {Pending, Broken})
             /\ Len(after) = Len(promises) + 1
             /\ DOMAIN after = 1..(Len(promises) + 1)
             /\ after[Len(promises) + 1] = Pending
             /\ \A g \in 1..Len(promises) :
                  after[g] = promises[g] \/ after[g] = Broken
<1> DEFINE T == Query \cup {Pending, Broken}
<1>1. promises \in Seq(T) /\ Len(promises) \in Nat /\ DOMAIN promises = 1..Len(promises)
  BY DEF TypeOK
<1>2. ASSUME NEW g \in 1..Len(promises)
      PROVE  /\ Abandoned[g] \in T
             /\ Abandoned[g] = promises[g] \/ Abandoned[g] = Broken
  <2>1. promises[g] \in T /\ Broken \in T
    BY <1>1
  <2>2. Abandoned[g] = promises[g] \/ Abandoned[g] = Broken
    BY <1>1 DEF Abandoned
  <2> QED
    BY <2>1, <2>2
<1>3. Abandoned \in [1..Len(promises) -> T]
  BY <1>1, <1>2 DEF Abandoned
<1> DEFINE a == Abandoned
<1>4. a \in Seq(T) /\ Len(a) = Len(promises) /\ Pending \in T
  BY <1>1, <1>3, SeqDef
<1> HIDE DEF a, T
<1>5. /\ Append(a, Pending) \in Seq(T)
      /\ Len(Append(a, Pending)) = Len(promises) + 1
      /\ DOMAIN Append(a, Pending) = 1..(Len(promises) + 1)
      /\ Append(a, Pending)[Len(promises) + 1] = Pending
      /\ \A g \in 1..Len(promises) : Append(a, Pending)[g] = a[g]
  BY <1>1, <1>4
<1> QED
  BY <1>2, <1>5 DEF a, T

-----------------------------------------------------------------------------
(* A request that was posted stays posted.                                 *)
LEMMA PostedUnchanged ==
  ASSUME UNCHANGED <<text, gen>>
  PROVE  \A q, g : PostedBy(q, g)' <=> PostedBy(q, g)
BY DEF PostedBy

LEMMA PostedMonotonic ==
  ASSUME TypeOK, NEW q, NEW g \in Nat, NEW k \in Nat, g <= k, PostedBy(q, g)
  PROVE  PostedBy(q, k)
BY DEF PostedBy, TypeOK

LEMMA PostIInv ==
  ASSUME IInv, NEW h \in Request, NEW q \in Query, Post(h, q)
  PROVE  IInv'
<1>0. PICK n \in Nat \ {0} : n = Len(promises) + 1
  BY DEF IInv, TypeOK
<1>1. /\ Serving
      /\ gen[h] = 0
      /\ text' = [text EXCEPT ![h] = q]
      /\ gen' = [gen EXCEPT ![h] = n]
      /\ queries' = queries \cup {q}
      /\ promises' = Append(Abandoned, Pending)
      /\ storage' = TRUE
      /\ UNCHANGED <<reply, main, calls, answer, target, running, failures>>
  BY <1>0 DEF Post, response
<1>2. TypeOK
  BY DEF IInv
<1>3. /\ promises' \in Seq(Query \cup {Pending, Broken})
      /\ Len(promises') = n
      /\ Len(promises) \in Nat
      /\ n = Len(promises) + 1
      /\ DOMAIN promises' = 1..n
      /\ promises'[n] = Pending
      /\ \A g \in 1..Len(promises) : promises'[g] = promises[g] \/ promises'[g] = Broken
  BY <1>1, <1>2, <1>0, PromisesAfterPost DEF TypeOK
<1>4. /\ gen' \in [Request -> 0..n]
      /\ text' \in [Request -> Query \cup {NoQuery}]
      /\ gen'[h] = n /\ text'[h] = q
      /\ \A k \in Request \ {h} : gen'[k] = gen[k] /\ text'[k] = text[k]
  BY <1>1, <1>2, <1>3 DEF TypeOK
<1>5. TypeOK'
  BY <1>1, <1>2, <1>3, <1>4 DEF TypeOK
<1>6. ASSUME NEW p, NEW g \in 0..n, PostedBy(p, g)
      PROVE  PostedBy(p, g)'
  <2>1. PICK k \in Request : gen[k] \in 1..g /\ text[k] = p
    BY <1>6 DEF PostedBy
  <2>2. k # h
    BY <1>1, <2>1
  <2> QED
    BY <1>4, <2>1, <2>2 DEF PostedBy
<1>7. PostedBy(q, n)'
  BY <1>3, <1>4 DEF PostedBy
<1>8. QueriesPosted'
  <2> SUFFICES ASSUME NEW p \in queries \cup {q} \cup Range(calls)
               PROVE  PostedBy(p, n)'
    BY <1>1, <1>3 DEF QueriesPosted
  <2>1. CASE p = q
    BY <1>7, <2>1
  <2>2. CASE p \in queries \cup Range(calls)
    <3>1. PostedBy(p, n)
      BY <1>2, <1>3, <2>2, PostedMonotonic DEF IInv, QueriesPosted
    <3> QED
      BY <1>3, <1>6, <3>1
  <2> QED
    BY <2>1, <2>2
<1>9. ResponsePosted'
  <2> SUFFICES ASSUME main = "responding"
               PROVE  /\ target \in 1..n
                      /\ PostedBy(answer, target)'
                      /\ answer \in Query
                      /\ \A k \in Request : gen'[k] > target => text'[k] \in queries'
    BY <1>1, <1>3 DEF ResponsePosted
  <2>1. /\ target \in 1..Len(promises)
        /\ PostedBy(answer, target)
        /\ answer \in Query
        /\ \A k \in Request : gen[k] > target => text[k] \in queries
    BY DEF IInv, ResponsePosted
  <2>2. PostedBy(answer, target)'
    <3>1. PICK k \in Request : gen[k] \in 1..target /\ text[k] = answer
      BY <2>1 DEF PostedBy
    <3>2. k # h
      BY <1>1, <3>1
    <3> QED
      BY <1>1, <1>4, <3>1, <3>2 DEF PostedBy
  <2> QED
    BY <1>1, <1>3, <1>4, <2>1, <2>2
<1>10. AnswerOfEarlier'
  <2> SUFFICES ASSUME NEW g \in 1..n, promises'[g] \in Query
               PROVE  PostedBy(promises[g], g)'
    BY <1>3 DEF AnswerOfEarlier
  <2>1. g \in 1..Len(promises) /\ promises'[g] = promises[g]
    BY <1>3, ClientAssumption
  <2>2. PostedBy(promises[g], g)
    BY <1>2, <2>1 DEF IInv, AnswerOfEarlier, TypeOK
  <2>3. PICK k \in Request : gen[k] \in 1..g /\ text[k] = promises[g]
    BY <2>2 DEF PostedBy
  <2>4. k # h
    BY <1>1, <2>3
  <2> QED
    BY <1>4, <2>1, <2>3, <2>4 DEF PostedBy
<1>11. AnswerOnItsWay'
  <2> SUFFICES ASSUME NEW k \in Request, gen'[k] = n
               PROVE  text'[k] \in queries'
    BY <1>3 DEF AnswerOnItsWay
  <2>1. k = h
    BY <1>2, <1>3, <1>4 DEF TypeOK
  <2> QED
    BY <1>1, <1>4, <2>1
<1>12. \A k \in Request : gen'[k] # 0 => text'[k] \in Query
  BY <1>4 DEF IInv
<1>13. NoOtherAnswer'
  BY <1>1 DEF IInv, NoOtherAnswer
<1> QED
  BY <1>5, <1>8, <1>9, <1>10, <1>11, <1>12, <1>13 DEF IInv

(* A handler takes its reply.                                              *)
LEMMA ReplyIInv ==
  ASSUME IInv, NEW h \in Request,
         NEW r \in Query \cup {TimeoutReply, ErrorReply},
         reply' = [reply EXCEPT ![h] = r],
         UNCHANGED <<text, gen, commands, main, calls, response, running, failures>>
  PROVE  IInv'
<1>1. /\ UNCHANGED <<text, gen>>
      /\ UNCHANGED <<queries, promises, storage, main, calls, answer, target>>
      /\ UNCHANGED <<running, failures>>
  BY DEF commands, response
<1>2. reply \in [Request -> Query \cup {NoReply, TimeoutReply, ErrorReply}]
  BY DEF IInv, TypeOK
<1>3. TypeOK'
  BY <1>1, <1>2 DEF IInv, TypeOK
<1>4. \A k \in Request : reply'[k] = NoReply => reply[k] = NoReply
  BY <1>2, ClientAssumption
<1>5. QueriesPosted' /\ ResponsePosted' /\ NoOtherAnswer' /\ AnswerOfEarlier'
  BY <1>1, PostedUnchanged
  DEF IInv, QueriesPosted, ResponsePosted, NoOtherAnswer, AnswerOfEarlier
<1>6. AnswerOnItsWay'
  BY <1>1, <1>4 DEF IInv, AnswerOnItsWay, Waiting, Ended
<1> QED
  BY <1>1, <1>3, <1>5, <1>6 DEF IInv

LEMMA HandleIInv ==
  ASSUME IInv, NEW h \in Request, Handle(h)
  PROVE  IInv'
<1>1. CASE GetResult(h)
  <2>1. promises[gen[h]] \in Query \cup {Broken}
    BY <1>1 DEF GetResult, Waiting, IInv, TypeOK
  <2>2. Content(promises[gen[h]]) \in Query \cup {TimeoutReply, ErrorReply}
    BY <2>1 DEF Content
  <2> QED
    BY <1>1, <2>2, ReplyIInv DEF GetResult
<1>2. CASE TimeOut(h)
  BY <1>2, ReplyIInv DEF TimeOut
<1> QED
  BY <1>1, <1>2 DEF Handle

(* The main thread goes on, and does nothing else.                         *)
LEMMA MainMovesIInv ==
  ASSUME IInv, main' \in MainPhase \ {"responding"}, Ended => Ended',
         main \in {"responding", "crashed"} => main' = "crashed",
         UNCHANGED <<handlers, commands, calls, response, failures>>,
         running' \in BOOLEAN
  PROVE  IInv'
<1>1. /\ UNCHANGED <<text, gen>>
      /\ UNCHANGED <<reply, queries, promises, storage, calls, answer, target, failures>>
  BY DEF handlers, commands, response
<1>2. TypeOK'
  BY <1>1 DEF IInv, TypeOK
<1>3. QueriesPosted' /\ ResponsePosted' /\ NoOtherAnswer' /\ AnswerOfEarlier'
  BY <1>1, PostedUnchanged
  DEF IInv, QueriesPosted, ResponsePosted, NoOtherAnswer, AnswerOfEarlier
<1>4. AnswerOnItsWay'
  BY <1>1 DEF IInv, AnswerOnItsWay, Waiting
<1> QED
  BY <1>1, <1>2, <1>3, <1>4 DEF IInv

LEMMA BeginResponseIInv ==
  ASSUME IInv, BeginResponse
  PROVE  IInv'
<1>1. /\ main = "iterate" /\ main' = "responding"
      /\ calls # <<>>
      /\ calls' = Tail(calls)
      /\ answer' = Head(calls)
      /\ target' = Len(promises)
      /\ UNCHANGED <<text, gen>>
      /\ UNCHANGED <<reply, queries, promises, storage, running, failures>>
  BY DEF BeginResponse, Newest, handlers, commands
<1>2. /\ answer' \in Query
      /\ calls' \in Seq(Query)
      /\ Range(calls) = {answer'} \cup Range(calls')
  BY <1>1, RangeOfTail DEF IInv, TypeOK
<1>3. TypeOK'
  BY <1>1, <1>2 DEF IInv, TypeOK, MainPhase
<1>4. QueriesPosted'
  BY <1>1, <1>2, PostedUnchanged DEF IInv, QueriesPosted
<1>5. ResponsePosted'
  <2>1. PostedBy(Head(calls), Len(promises))
    BY <1>1, <1>2 DEF IInv, QueriesPosted
  <2>2. Len(promises) \in 1..Len(promises)
    BY <2>1 DEF PostedBy, IInv, TypeOK
  <2>3. \A h \in Request : gen[h] <= Len(promises)
    BY DEF IInv, TypeOK
  <2>4. PostedBy(answer, target)'
    BY <1>1, <2>1 DEF PostedBy
  <2>5. \A h \in Request : ~(gen[h] > Len(promises))
    BY <2>2, <2>3 DEF IInv, TypeOK
  <2> QED
    BY <1>1, <1>2, <2>2, <2>4, <2>5 DEF ResponsePosted
<1>6. AnswerOfEarlier'
  BY <1>1, PostedUnchanged DEF IInv, AnswerOfEarlier
<1>7. AnswerOnItsWay'
  <2>1. NoQuery \notin Query
    BY ClientAssumption
  <2>2. \A h \in Request : Waiting(h)' <=> Waiting(h)
    BY <1>1 DEF Waiting
  <2>3. \A h \in Request : Waiting(h) => text[h] \in Query
    BY DEF IInv, Waiting
  <2>4. ~Ended
    BY <1>1 DEF Ended
  <2>5. answer = NoQuery
    BY <1>1 DEF IInv, NoOtherAnswer
  <2> QED
    BY <1>1, <1>2, <2>1, <2>2, <2>3, <2>4, <2>5 DEF IInv, AnswerOnItsWay
<1>8. NoOtherAnswer'
  BY <1>1 DEF NoOtherAnswer
<1> QED
  BY <1>1, <1>3, <1>4, <1>5, <1>6, <1>7, <1>8 DEF IInv

LEMMA CallFailsIInv ==
  ASSUME IInv, CallFails
  PROVE  IInv'
<1>1. /\ main = "iterate" /\ main' = main
      /\ calls # <<>>
      /\ calls' = Tail(calls)
      /\ failures < MaxFailures
      /\ failures' = failures + 1
      /\ UNCHANGED <<text, gen>>
      /\ UNCHANGED <<reply, queries, promises, storage, answer, target, running>>
  BY DEF CallFails, handlers, commands, response
<1>2. calls' \in Seq(Query) /\ Range(calls') \subseteq Range(calls)
  BY <1>1, RangeOfTail DEF IInv, TypeOK
<1>3. TypeOK'
  BY <1>1, <1>2, ClientAssumption DEF IInv, TypeOK
<1>4. QueriesPosted' /\ ResponsePosted' /\ NoOtherAnswer' /\ AnswerOfEarlier'
  BY <1>1, <1>2, PostedUnchanged
  DEF IInv, QueriesPosted, ResponsePosted, NoOtherAnswer, AnswerOfEarlier
<1>5. AnswerOnItsWay'
  BY <1>1 DEF IInv, TypeOK, AnswerOnItsWay
<1> QED
  BY <1>1, <1>3, <1>4, <1>5 DEF IInv

(* A result is put into promise g, be it the newest or the one that the    *)
(* response began with.                                                    *)
LEMMA ResultIInv ==
  ASSUME IInv, main = "responding", NEW g \in {target, Len(promises)},
         promises' = [promises EXCEPT ![g] = answer],
         storage' \in BOOLEAN, main' = "iterate", Responded,
         UNCHANGED <<handlers, queries, calls, running, failures>>
  PROVE  IInv'
<1>1. /\ UNCHANGED <<text, gen>>
      /\ UNCHANGED <<reply, queries, calls, running, failures>>
      /\ answer' = NoQuery /\ target' = 0
  BY DEF handlers, Responded
<1>2. PICK n \in Nat : n = Len(promises)
  BY DEF IInv, TypeOK
<1>3. /\ target \in 1..n
      /\ PostedBy(answer, target)
      /\ answer \in Query
      /\ \A h \in Request : gen[h] > target => text[h] \in queries
      /\ promises \in Seq(Query \cup {Pending, Broken})
      /\ DOMAIN promises = 1..n
      /\ gen \in [Request -> 0..n]
  BY <1>2 DEF IInv, ResponsePosted, TypeOK
<1>4. g \in 1..n /\ target <= g
  BY <1>2, <1>3
<1>5. /\ promises' \in Seq(Query \cup {Pending, Broken})
      /\ Len(promises') = n
      /\ DOMAIN promises' = 1..n
      /\ promises'[g] = answer
      /\ \A k \in 1..n : k # g => promises'[k] = promises[k]
  BY <1>2, <1>3, <1>4
<1>6. TypeOK'
  BY <1>1, <1>2, <1>3, <1>5 DEF IInv, TypeOK, MainPhase
<1>7. QueriesPosted' /\ ResponsePosted' /\ NoOtherAnswer'
  BY <1>1, <1>2, <1>5, PostedUnchanged
  DEF IInv, QueriesPosted, ResponsePosted, NoOtherAnswer
<1>8. AnswerOfEarlier'
  <2>1. PostedBy(answer, g)
    BY <1>3, <1>4, PostedMonotonic DEF IInv
  <2>2. \A k \in 1..n : promises[k] \in Query => PostedBy(promises[k], k)
    BY <1>3 DEF IInv, AnswerOfEarlier
  <2>3. ASSUME NEW k \in 1..n, promises'[k] \in Query
        PROVE  PostedBy(promises'[k], k)
    BY <1>5, <2>1, <2>2, <2>3
  <2>4. \A k \in 1..n :
          promises'[k] \in Query => \E h \in Request : gen[h] \in 1..k /\ text[h] = promises'[k]
    BY <2>3 DEF PostedBy
  <2> QED
    BY <1>1, <1>5, <2>4 DEF AnswerOfEarlier, PostedBy
<1>9. AnswerOnItsWay'
  <2> SUFFICES ASSUME NEW h \in Request, gen[h] = n, promises'[n] = Pending
               PROVE  text[h] \in queries
    BY <1>1, <1>5 DEF AnswerOnItsWay, Waiting
  <2>1. g # n
    BY <1>3, <1>5, ClientAssumption
  <2>2. n > target
    BY <1>3, <1>4, <2>1
  <2> QED
    BY <1>3, <2>2
<1> QED
  BY <1>1, <1>6, <1>7, <1>8, <1>9 DEF IInv

(* A query is taken out of the map, and sent or not.                       *)
LEMMA TakenIInv ==
  ASSUME IInv, NEW q \in queries, main = "next", main' \in {"iterate", "stopping"},
         queries' = queries \ {q},
         \/ calls' = Append(calls, q) /\ failures' = failures
         \/ calls' = calls /\ failures' = failures + 1 /\ failures < MaxFailures,
         UNCHANGED <<handlers, promises, storage, response, running>>
  PROVE  IInv'
<1>1. /\ UNCHANGED <<text, gen>>
      /\ UNCHANGED <<reply, promises, storage, answer, target, running>>
  BY DEF handlers, response
<1>2. q \in Query
  BY DEF IInv, TypeOK
<1>3. /\ calls' \in Seq(Query)
      /\ Range(calls') \subseteq Range(calls) \cup {q}
      /\ failures' = 0 => Range(calls') = Range(calls) \cup {q} /\ failures = 0
      /\ failures' \in 0..MaxFailures
  <2>1. failures \in 0..MaxFailures /\ MaxFailures \in Nat /\ calls \in Seq(Query)
    BY ClientAssumption DEF IInv, TypeOK
  <2>2. CASE calls' = Append(calls, q) /\ failures' = failures
    BY <1>2, <2>1, <2>2, RangeOfAppend
  <2>3. CASE calls' = calls /\ failures' = failures + 1 /\ failures < MaxFailures
    BY <2>1, <2>3
  <2> QED
    BY <2>2, <2>3
<1>4. TypeOK'
  BY <1>1, <1>3 DEF IInv, TypeOK, MainPhase
<1>5. QueriesPosted' /\ ResponsePosted' /\ NoOtherAnswer' /\ AnswerOfEarlier'
  BY <1>1, <1>3, PostedUnchanged
  DEF IInv, QueriesPosted, ResponsePosted, NoOtherAnswer, AnswerOfEarlier
<1>6. AnswerOnItsWay'
  BY <1>1, <1>3 DEF IInv, AnswerOnItsWay, Waiting, Ended
<1> QED
  BY <1>1, <1>4, <1>5, <1>6 DEF IInv

LEMMA TerminateIInv ==
  ASSUME IInv, Terminate
  PROVE  IInv'
<1>1. /\ main = "stopping" /\ main' = "terminated"
      /\ calls' = <<>>
      /\ UNCHANGED <<text, gen>>
      /\ UNCHANGED <<reply, queries, promises, storage, answer, target, running, failures>>
  BY DEF Terminate, handlers, commands, response
<1>2. calls' \in Seq(Query) /\ Range(calls') = {}
  BY <1>1 DEF Range
<1>3. TypeOK'
  BY <1>1, <1>2 DEF IInv, TypeOK, MainPhase
<1>4. QueriesPosted' /\ ResponsePosted' /\ NoOtherAnswer' /\ AnswerOfEarlier'
  BY <1>1, <1>2, PostedUnchanged
  DEF IInv, QueriesPosted, ResponsePosted, NoOtherAnswer, AnswerOfEarlier
<1>5. AnswerOnItsWay'
  BY <1>1 DEF AnswerOnItsWay, Ended
<1> QED
  BY <1>1, <1>3, <1>4, <1>5 DEF IInv

LEMMA StutterIInv ==
  ASSUME IInv, UNCHANGED <<handlers, commands, main, calls, response, failures>>,
         running' \in BOOLEAN
  PROVE  IInv'
<1>1. /\ UNCHANGED <<text, gen>>
      /\ UNCHANGED <<reply, queries, promises, storage, main, calls, answer, target, failures>>
  BY DEF handlers, commands, response
<1>2. TypeOK'
  BY <1>1 DEF IInv, TypeOK
<1>3. QueriesPosted' /\ ResponsePosted' /\ NoOtherAnswer' /\ AnswerOfEarlier'
  BY <1>1, PostedUnchanged
  DEF IInv, QueriesPosted, ResponsePosted, NoOtherAnswer, AnswerOfEarlier
<1>4. AnswerOnItsWay'
  BY <1>1 DEF IInv, AnswerOnItsWay, Waiting, Ended
<1> QED
  BY <1>1, <1>2, <1>3, <1>4 DEF IInv

LEMMA MainIInv ==
  ASSUME IInv, Main
  PROVE  IInv'
<1>1. running \in BOOLEAN
  BY DEF IInv, TypeOK
<1>2. CASE Connect
  BY <1>1, <1>2, MainMovesIInv DEF Connect, NextRound, MainPhase, Ended
<1>3. CASE ConnectFails
  BY <1>1, <1>3, MainMovesIInv DEF ConnectFails, MainPhase, Ended
<1>4. CASE BeginResponse
  BY <1>4, BeginResponseIInv
<1>5. CASE CallFails
  BY <1>5, CallFailsIInv
<1>6. CASE Fulfil
  <2>1. storage' \in BOOLEAN
    BY <1>6 DEF Fulfil, IInv, TypeOK
  <2> QED
    BY <1>6, <2>1, ResultIInv DEF Fulfil
<1>7. CASE SetValueCrashes
  BY <1>1, <1>7, MainMovesIInv DEF SetValueCrashes, MainPhase, Ended
<1>8. CASE RaceCrashes
  BY <1>1, <1>8, MainMovesIInv DEF RaceCrashes, MainPhase, Ended
<1>9. CASE RaceStealsStorage
  BY <1>9, ResultIInv DEF RaceStealsStorage
<1>10. CASE IterateReturns
  BY <1>1, <1>10, MainMovesIInv DEF IterateReturns, MainPhase, Ended
<1>11. CASE \E q \in Query : Invoke(q) \/ InvokeFails(q)
  <2>1. PICK q \in Query : Invoke(q) \/ InvokeFails(q)
    BY <1>11
  <2>2. CASE Invoke(q)
    BY <2>2, TakenIInv DEF Invoke, Erased, NextRound
  <2>3. CASE InvokeFails(q)
    BY <2>3, TakenIInv DEF InvokeFails, Erased, NextRound
  <2> QED
    BY <2>1, <2>2, <2>3
<1>12. CASE NoNextQuery
  BY <1>1, <1>12, MainMovesIInv DEF NoNextQuery, NextRound, MainPhase, Ended
<1>13. CASE Terminate
  BY <1>13, TerminateIInv
<1> QED
  BY <1>2, <1>3, <1>4, <1>5, <1>6, <1>7, <1>8, <1>9, <1>10, <1>11, <1>12, <1>13
  DEF Main

-----------------------------------------------------------------------------
(* The strengthened invariant holds in every reachable state.              *)
THEOREM Invariance == Spec => []IInv
<1>1. ASSUME IInv, [Next]_vars
      PROVE  IInv'
  <2>1. CASE \E h \in Request : (\E q \in Query : Post(h, q)) \/ Handle(h)
    BY <1>1, <2>1, PostIInv, HandleIInv
  <2>2. CASE Main
    BY <1>1, <2>2, MainIInv
  <2>3. CASE Stop
    BY <1>1, <2>3, StutterIInv DEF Stop
  <2>4. CASE UNCHANGED vars
    <3>1. running' \in BOOLEAN
      BY <1>1, <2>4 DEF vars, IInv, TypeOK
    <3> QED
      BY <1>1, <2>4, <3>1, StutterIInv DEF vars
  <2> QED
    BY <1>1, <2>1, <2>2, <2>3, <2>4 DEF Next
<1> QED
  BY InitIInv, <1>1, PTL DEF Spec

(* The variables of the client always hold values of their types.          *)
THEOREM TypeCorrect == Spec => []TypeOK
<1>1. IInv => TypeOK
  BY DEF IInv
<1> QED
  BY <1>1, Invariance, PTL

(* Whatever the users do and whichever way the data race goes, a promise   *)
(* is fulfilled only with the result of its own or an earlier query.       *)
THEOREM AnswersAreOfEarlier == Spec => []AnswerOfEarlier
<1>1. IInv => AnswerOfEarlier
  BY DEF IInv
<1> QED
  BY <1>1, Invariance, PTL

(* Without a failing call the query of the newest open promise is never    *)
(* lost.                                                                   *)
THEOREM AnswersAreOnTheirWay == Spec => []AnswerOnItsWay
<1>1. IInv => AnswerOnItsWay
  BY DEF IInv
<1> QED
  BY <1>1, Invariance, PTL

-----------------------------------------------------------------------------
(***************************************************************************)
(* Users that post only when nothing is left to do.  The newest request is *)
(* the only one that may be waiting or have work in the map, with the      *)
(* server or in a response, and its promise is open as long as it does.    *)
(***************************************************************************)
Newly(h) == gen[h] # 0 /\ gen[h] = Len(promises)

NothingToDo == queries = {} /\ calls = <<>> /\ main # "responding"

OneTaskOf(h) ==
  \/ queries = {text[h]} /\ calls = <<>> /\ main # "responding"
  \/ queries = {} /\ calls = <<text[h]>> /\ main # "responding"
  \/ /\ queries = {} /\ calls = <<>> /\ main = "responding"
     /\ answer = text[h] /\ target = Len(promises)

AtMostOneTask ==
  \/ NothingToDo
  \/ \E h \in Request : Newly(h) /\ promises[Len(promises)] = Pending /\ OneTaskOf(h)

RequestsInv ==
  /\ \A h \in Request : (text[h] = NoQuery) <=> (gen[h] = 0)
  /\ \A h \in Request : Waiting(h) => Newly(h)
  /\ \A h, k \in Request : Newly(h) /\ Newly(k) => h = k
  /\ \A h \in Request : Newly(h) => promises[Len(promises)] \in {Pending, text[h]}

PInv ==
  /\ IInv
  /\ storage
  /\ main # "crashed"
  /\ RequestsInv
  /\ AtMostOneTask

LEMMA InitPInv == Init => PInv
<1> SUFFICES ASSUME Init PROVE PInv
  OBVIOUS
<1>1. /\ storage /\ main = "connecting"
      /\ queries = {} /\ calls = <<>>
      /\ \A h \in Request : text[h] = NoQuery /\ gen[h] = 0
  BY DEF Init
<1>2. RequestsInv /\ AtMostOneTask
  BY <1>1 DEF RequestsInv, Waiting, Newly, AtMostOneTask, NothingToDo
<1> QED
  BY <1>1, <1>2, InitIInv DEF PInv

LEMMA PostPInv ==
  ASSUME PInv, IInv', Users = "patient", NEW h \in Request, NEW q \in Query, Post(h, q)
  PROVE  PInv'
<1>1. PICK n \in Nat \ {0} : n = Len(promises) + 1
  BY DEF PInv, IInv, TypeOK
<1>2. /\ gen[h] = 0
      /\ NoneWaiting
      /\ NothingToDo
      /\ text' = [text EXCEPT ![h] = q]
      /\ gen' = [gen EXCEPT ![h] = n]
      /\ queries' = queries \cup {q}
      /\ promises' = Append(Abandoned, Pending)
      /\ storage'
      /\ UNCHANGED <<reply, main, calls>>
  BY <1>1 DEF Post, MayPost, NothingLeft, NothingToDo
<1>3. Len(promises') = n /\ promises'[n] = Pending
  BY <1>1, <1>2, PromisesAfterPost DEF PInv, IInv
<1>4. /\ gen \in [Request -> 0..(n - 1)]
      /\ text \in [Request -> Query \cup {NoQuery}]
  BY <1>1 DEF PInv, IInv, TypeOK
<1>5. \A k \in Request : gen'[k] = n <=> k = h
  BY <1>2, <1>4
<1>6. RequestsInv'
  <2>1. \A k \in Request : (text'[k] = NoQuery) <=> (gen'[k] = 0)
    BY <1>2, <1>4, ClientAssumption DEF PInv, RequestsInv
  <2>2. \A k \in Request : Waiting(k)' => Newly(k)'
    BY <1>2, <1>3, <1>4 DEF NoneWaiting, Waiting, Newly
  <2> QED
    BY <1>3, <1>5, <2>1, <2>2 DEF RequestsInv, Newly
<1>7. AtMostOneTask'
  <2>1. queries' = {text'[h]} /\ calls' = <<>> /\ main' # "responding"
    BY <1>2, <1>4 DEF NothingToDo
  <2> QED
    BY <1>3, <1>5, <2>1 DEF AtMostOneTask, OneTaskOf, Newly
<1> QED
  BY <1>2, <1>6, <1>7 DEF PInv

LEMMA HandlePInv ==
  ASSUME PInv, IInv', NEW h \in Request, Handle(h)
  PROVE  PInv'
<1>1. /\ UNCHANGED <<text, gen>>
      /\ UNCHANGED <<queries, promises, storage, main, calls, answer, target>>
      /\ \A k \in Request \ {h} : reply'[k] = reply[k]
      /\ reply[h] = NoReply
      /\ gen[h] # 0
  BY DEF Handle, GetResult, TimeOut, commands, response, Waiting, PInv, IInv, TypeOK
<1>2. \A k \in Request : Waiting(k)' => Waiting(k)
  BY <1>1 DEF Waiting
<1>3. RequestsInv'
  BY <1>1, <1>2 DEF PInv, RequestsInv, Newly
<1>4. AtMostOneTask'
  BY <1>1 DEF PInv, AtMostOneTask, NothingToDo, OneTaskOf, Newly
<1> QED
  BY <1>1, <1>3, <1>4 DEF PInv

(* A step of the main thread that leaves the requests and promises alone.  *)
LEMMA MainPInv ==
  ASSUME PInv, IInv', UNCHANGED <<handlers, promises, storage>>,
         main' # "crashed",
         NothingToDo => NothingToDo',
         \A h \in Request : Newly(h) /\ OneTaskOf(h) => OneTaskOf(h)' \/ NothingToDo'
  PROVE  PInv'
<1>1. /\ UNCHANGED <<text, gen>>
      /\ UNCHANGED <<reply, promises, storage>>
  BY DEF handlers
<1>2. \A h \in Request : (Waiting(h)' <=> Waiting(h)) /\ (Newly(h)' <=> Newly(h))
  BY <1>1 DEF Waiting, Newly
<1>3. RequestsInv'
  BY <1>1, <1>2 DEF PInv, RequestsInv
<1>4. AtMostOneTask'
  BY <1>1, <1>2 DEF PInv, AtMostOneTask
<1> QED
  BY <1>1, <1>3, <1>4 DEF PInv

LEMMA FulfilPInv ==
  ASSUME PInv, IInv', Fulfil
  PROVE  PInv'
<1>1. /\ main = "responding" /\ main' = "iterate"
      /\ promises' = [promises EXCEPT ![Len(promises)] = answer]
      /\ UNCHANGED <<text, gen>>
      /\ UNCHANGED <<reply, storage, queries, calls>>
  BY DEF Fulfil, handlers
<1>2. PICK h \in Request : Newly(h) /\ promises[Len(promises)] = Pending /\ OneTaskOf(h)
  BY <1>1 DEF PInv, AtMostOneTask, NothingToDo
<1>3. PICK n \in Nat : n = Len(promises) /\ n # 0
  BY <1>2 DEF Newly, PInv, IInv, TypeOK
<1>4. /\ promises \in Seq(Query \cup {Pending, Broken})
      /\ answer = text[h]
      /\ queries = {} /\ calls = <<>>
  BY <1>1, <1>2 DEF OneTaskOf, PInv, IInv, TypeOK
<1>5. Len(promises') = n /\ promises'[n] = text[h]
  BY <1>1, <1>3, <1>4
<1>6. \A k \in Request : (Waiting(k)' <=> Waiting(k)) /\ (Newly(k)' <=> Newly(k))
  BY <1>1, <1>3, <1>5 DEF Waiting, Newly
<1>7. RequestsInv'
  <2>1. \A k \in Request : Newly(k) => k = h
    BY <1>2 DEF PInv, RequestsInv
  <2> QED
    BY <1>1, <1>5, <1>6, <2>1 DEF PInv, RequestsInv
<1>8. NothingToDo'
  BY <1>1, <1>4 DEF NothingToDo
<1> QED
  BY <1>1, <1>7, <1>8 DEF PInv, AtMostOneTask

LEMMA NextPInv ==
  ASSUME PInv, IInv', Users = "patient", [Next]_vars
  PROVE  PInv'
<1>1. CASE \E h \in Request : (\E q \in Query : Post(h, q)) \/ Handle(h)
  BY <1>1, PostPInv, HandlePInv
<1>2. CASE Main
  <2>1. CASE Connect \/ ConnectFails \/ IterateReturns \/ NoNextQuery
    <3>1. /\ UNCHANGED <<handlers, promises, storage>>
          /\ UNCHANGED <<text, queries, calls, answer, target>>
          /\ main # "responding" /\ main' \notin {"responding", "crashed"}
      BY <2>1
      DEF Connect, ConnectFails, IterateReturns, NoNextQuery, NextRound,
          commands, response, handlers
    <3> QED
      BY <3>1, MainPInv DEF NothingToDo, OneTaskOf
  <2>2. CASE BeginResponse
    <3>1. /\ UNCHANGED <<handlers, promises, storage>>
          /\ UNCHANGED <<text, queries>>
          /\ calls # <<>> /\ calls' = Tail(calls)
          /\ main = "iterate" /\ main' = "responding"
          /\ answer' = Head(calls) /\ target' = Len(promises)
      BY <2>2 DEF BeginResponse, Newest, commands, handlers
    <3>2. ASSUME NEW h \in Request, OneTaskOf(h)
          PROVE  OneTaskOf(h)'
      <4>1. queries = {} /\ calls = <<text[h]>>
        BY <3>1, <3>2 DEF OneTaskOf
      <4>2. calls' = <<>> /\ answer' = text[h]
        BY <3>1, <4>1
      <4> QED
        BY <3>1, <4>1, <4>2 DEF OneTaskOf
    <3> QED
      BY <3>1, <3>2, MainPInv DEF NothingToDo
  <2>3. CASE CallFails \/ Terminate
    <3>1. /\ UNCHANGED <<handlers, promises, storage>>
          /\ UNCHANGED <<text, queries, answer, target>>
          /\ (calls # <<>> /\ calls' = Tail(calls)) \/ calls' = <<>>
          /\ main # "responding" /\ main' \notin {"responding", "crashed"}
      BY <2>3 DEF CallFails, Terminate, commands, response, handlers
    <3>2. ASSUME NEW h \in Request, OneTaskOf(h)
          PROVE  OneTaskOf(h)' \/ NothingToDo'
      <4>1. calls = <<>> \/ calls = <<text[h]>>
        BY <3>1, <3>2 DEF OneTaskOf
      <4>2. \A t : Tail(<<t>>) = <<>>
        OBVIOUS
      <4>3. calls' = <<>>
        BY <3>1, <4>1, <4>2
      <4> QED
        BY <3>1, <3>2, <4>3 DEF OneTaskOf, NothingToDo
    <3> QED
      BY <3>1, <3>2, MainPInv DEF NothingToDo
  <2>4. CASE Fulfil
    BY <2>4, FulfilPInv
  <2>5. ~SetValueCrashes /\ ~RaceCrashes /\ ~RaceStealsStorage
    BY DEF PInv, AtMostOneTask, NothingToDo, OneTaskOf, SetValueCrashes,
           RaceCrashes, RaceStealsStorage
  <2>6. CASE \E q \in Query : Invoke(q) \/ InvokeFails(q)
    <3>1. PICK q \in queries :
            /\ UNCHANGED <<handlers, promises, storage>>
            /\ UNCHANGED <<text, answer, target>>
            /\ queries' = queries \ {q}
            /\ calls' = Append(calls, q) \/ calls' = calls
            /\ main = "next" /\ main' \notin {"responding", "crashed"}
      BY <2>6 DEF Invoke, InvokeFails, Erased, NextRound, response, handlers
    <3>2. ASSUME NEW h \in Request, OneTaskOf(h)
          PROVE  OneTaskOf(h)' \/ NothingToDo'
      <4>1. queries = {text[h]} /\ calls = <<>> /\ q = text[h]
        BY <3>1, <3>2 DEF OneTaskOf
      <4>2. queries' = {} /\ (calls' = <<text[h]>> \/ calls' = <<>>)
        BY <3>1, <4>1
      <4> QED
        BY <3>1, <4>2 DEF OneTaskOf, NothingToDo
    <3> QED
      BY <3>1, <3>2, MainPInv DEF NothingToDo
  <2> QED
    BY <1>2, <2>1, <2>2, <2>3, <2>4, <2>5, <2>6 DEF Main
<1>3. CASE Stop \/ UNCHANGED vars
  <2>1. /\ UNCHANGED <<handlers, promises, storage>>
        /\ UNCHANGED <<text, queries, calls, answer, target, main>>
    BY <1>3 DEF Stop, vars, commands, response, handlers
  <2> QED
    BY <2>1, MainPInv DEF NothingToDo, OneTaskOf, PInv
<1> QED
  BY <1>1, <1>2, <1>3 DEF Next

THEOREM PatientInvariance == ASSUME Users = "patient" PROVE Spec => []PInv
<1>1. PInv /\ IInv' /\ [Next]_vars => PInv'
  BY NextPInv
<1>2. Spec => Init /\ [][Next]_vars
  BY PTL DEF Spec
<1> QED
  BY InitPInv, <1>1, <1>2, Invariance, PTL

(* No result can end the process when the users are patient.               *)
THEOREM PatientUsersAreSafe == ASSUME Users = "patient" PROVE Spec => []NeverCrashes
<1>1. PInv => NeverCrashes
  BY DEF PInv, NeverCrashes
<1> QED
  BY <1>1, PatientInvariance, PTL

(* For patient users the bridge implements the REST interface: a request   *)
(* gets the result of its own query or "query timeout".                    *)
THEOREM PatientUsersAreServed == ASSUME Users = "patient" PROVE Spec => KeepsPromise
<1>1. Init => Promise!Init
  BY DEF Init, Promise!Init
<1>2. ASSUME PInv, [Next]_vars
      PROVE  [Promise!Next]_(Promise!vars)
  <2>1. ASSUME NEW h \in Request, NEW q \in Query, Post(h, q)
        PROVE  Promise!Next
    <3>1. text[h] = NoQuery
      BY <1>2, <2>1 DEF Post, PInv, RequestsInv
    <3>2. Promise!Post(h, q)
      BY <2>1, <3>1 DEF Post, Promise!Post
    <3> QED
      BY <3>2 DEF Promise!Next
  <2>2. ASSUME NEW h \in Request, GetResult(h)
        PROVE  Promise!Next
    <3>1. /\ Waiting(h)
          /\ promises[gen[h]] # Pending
          /\ reply' = [reply EXCEPT ![h] = Content(promises[gen[h]])]
          /\ text' = text
      BY <2>2 DEF GetResult
    <3>2. /\ text[h] \in Query
          /\ promises[gen[h]] = text[h]
      BY <1>2, <3>1 DEF PInv, IInv, RequestsInv, Newly, Waiting
    <3>3. Content(promises[gen[h]]) = text[h]
      BY <3>2, ClientAssumption DEF Content
    <3>4. Promise!Answer(h)
      BY <3>1, <3>2, <3>3, ClientAssumption DEF Promise!Answer, Promise!Open, Waiting
    <3> QED
      BY <3>4 DEF Promise!Next
  <2>3. ASSUME NEW h \in Request, TimeOut(h)
        PROVE  Promise!Next
    <3>1. text[h] # NoQuery
      BY <1>2, <2>3 DEF TimeOut, Waiting, PInv, RequestsInv
    <3>2. Promise!GiveUp(h)
      BY <2>3, <3>1 DEF TimeOut, Waiting, Promise!GiveUp, Promise!Open
    <3> QED
      BY <3>2 DEF Promise!Next
  <2>4. ASSUME Main \/ Stop \/ UNCHANGED vars
        PROVE  UNCHANGED <<text, reply>>
    BY <2>4
    DEF Main, Stop, vars, handlers, Connect, ConnectFails, BeginResponse, CallFails,
        Fulfil, SetValueCrashes, RaceCrashes, RaceStealsStorage, IterateReturns,
        Invoke, InvokeFails, NoNextQuery, Terminate
  <2> QED
    BY <1>2, <2>1, <2>2, <2>3, <2>4 DEF Next, Handle, Promise!vars
<1>3. Spec => Init /\ [][Next]_vars
  BY PTL DEF Spec
<1> QED
  BY <1>1, <1>2, <1>3, PatientInvariance, PTL DEF KeepsPromise, Promise!Spec
=============================================================================
