----------------------------- MODULE QueryClient ----------------------------
(***************************************************************************)
(* playground/queryClient and its Commands object: HTTP handler threads    *)
(* post queries and wait on a future, the main thread hands the queries to *)
(* the OPC UA server and fulfils the promise when a response arrives.      *)
(*                                                                         *)
(* Commands keeps one promise, m_queryResult, which every call of query()  *)
(* replaces.  promises lists the shared states of all of them, the one of  *)
(* m_queryResult last; gen[h] is the index of the one that handler h waits *)
(* for.  query() and getNextQuery() lock m_mutex and are atomic;           *)
(* queryResponse() does not lock it, so set_value() has a begin and an end *)
(* that a call of query() may come between.                                *)
(*                                                                         *)
(* The result of a query is identified with the query: nothing else of it  *)
(* matters to the client.                                                  *)
(***************************************************************************)
EXTENDS Integers, SequencesExt

CONSTANTS Request,        \* POST requests, each handled by its own thread
          Query,          \* the texts that are posted
          NoQuery, NoReply,
          Pending,        \* the state of a promise that is not fulfilled
          Broken,         \* and of one replaced before it was fulfilled
          TimeoutReply,   \* "query timeout"
          ErrorReply,     \* status 500: f.get() has thrown broken_promise
          Users,          \* when requests are posted: at "any" time, "one" at
                          \* a time, or "patient": when nothing is left to do
          MaxFailures     \* calls that may fail

ASSUME ClientAssumption ==
  /\ NoQuery \notin Query
  /\ Pending \notin Query /\ Broken \notin Query /\ Pending # Broken
  /\ NoReply \notin Query \cup {TimeoutReply, ErrorReply}
  /\ TimeoutReply \notin Query /\ ErrorReply \notin Query
  /\ TimeoutReply # ErrorReply
  /\ Users \in {"any", "one", "patient"}
  /\ MaxFailures \in Nat

VARIABLES text,       \* text[h]: the body of request h
          gen,        \* gen[h]: the promise that h waits for, 0 before
          reply,      \* reply[h]: the content of the response to h
          queries,    \* the keys of m_queries
          promises,   \* the shared states of the promises
          storage,    \* does m_queryResult still own room for a result?
          main,       \* where the main thread is
          calls,      \* method calls sent and not answered
          answer,     \* the result that queryResponse() is setting
          target,     \* the promise that m_queryResult was when it began
          running,    \* the flag that stopHandler clears
          failures    \* failed calls so far

handlers == <<text, gen, reply>>
commands == <<queries, promises, storage>>
response == <<answer, target>>
vars == <<handlers, commands, main, calls, response, running, failures>>

-----------------------------------------------------------------------------
Init ==
  /\ text = [h \in Request |-> NoQuery]
  /\ gen = [h \in Request |-> 0]
  /\ reply = [h \in Request |-> NoReply]
  /\ queries = {}
  /\ promises = <<>>
  /\ storage = TRUE
  /\ main = "connecting"
  /\ calls = <<>>
  /\ answer = NoQuery
  /\ target = 0
  /\ running = TRUE
  /\ failures = 0

Ended == main \in {"exited", "terminated", "crashed"}

(* The thread that serves HTTP runs from the connect to the end.           *)
Serving == ~Ended /\ main # "connecting"

(* Defect: the case of the timeout falls through to that of a result.     *)
WaitingOn(h) == gen[h] # 0

Waiting(h) == gen[h] # 0 /\ reply[h] = NoReply

NoneWaiting == \A h \in Request : ~Waiting(h)

NothingLeft == queries = {} /\ calls = <<>> /\ main # "responding"

(* The users are not the program's: with "any" nothing is assumed of them. *)
MayPost ==
  /\ Users \in {"one", "patient"} => NoneWaiting
  /\ Users = "patient" => NothingLeft

(* Assigning to m_queryResult abandons the promise it was.                 *)
Abandoned ==
  [g \in DOMAIN promises |->
     IF g = Len(promises) /\ promises[g] = Pending THEN Broken ELSE promises[g]]

(* POST /query up to wait_for(): Commands::query.  The queries are the     *)
(* keys of a map: one that is there already is not added again.            *)
Post(h, q) ==
  /\ Serving
  /\ gen[h] = 0
  /\ MayPost
  /\ text' = [text EXCEPT ![h] = q]
  /\ gen' = [gen EXCEPT ![h] = Len(promises) + 1]
  /\ queries' = queries \cup {q}
  /\ promises' = Append(Abandoned, Pending)
  /\ storage' = TRUE
  /\ UNCHANGED <<reply, main, calls, response, running, failures>>

(* Defect: a broken promise is handed on like a result.                    *)
ContentAsIs(p) == p

Content(p) == IF p = Broken THEN ErrorReply ELSE p

(* wait_for() returns ready.                                               *)
GetResult(h) ==
  /\ Serving
  /\ Waiting(h)
  /\ promises[gen[h]] # Pending
  /\ reply' = [reply EXCEPT ![h] = Content(promises[gen[h]])]
  /\ UNCHANGED <<text, gen, commands, main, calls, response, running, failures>>

(* Defect: wait() instead of wait_for().                                   *)
OutOfPatienceNever(h) == FALSE

OutOfPatience(h) == promises[gen[h]] = Pending

(* wait_for() returns timeout.                                             *)
TimeOut(h) ==
  /\ Serving
  /\ Waiting(h)
  /\ OutOfPatience(h)
  /\ reply' = [reply EXCEPT ![h] = TimeoutReply]
  /\ UNCHANGED <<text, gen, commands, main, calls, response, running, failures>>

-----------------------------------------------------------------------------
(* The main thread.                                                        *)

(* while (running)                                                         *)
NextRound == IF running THEN "iterate" ELSE "stopping"

Connect ==
  /\ main = "connecting"
  /\ main' = NextRound
  /\ UNCHANGED <<handlers, commands, calls, response, running, failures>>

ConnectFails ==
  /\ main = "connecting"
  /\ main' = "exited"
  /\ UNCHANGED <<handlers, commands, calls, response, running, failures>>

(* Defect: the promise of the first request is fulfilled.                  *)
NewestIsFirst == 1

Newest == Len(promises)

(* UA_Client_run_iterate calls methodCalled with a good result, which      *)
(* calls queryResponse.                                                    *)
BeginResponse ==
  /\ main = "iterate"
  /\ calls # <<>>
  /\ calls' = Tail(calls)
  /\ answer' = Head(calls)
  /\ target' = Newest
  /\ main' = "responding"
  /\ UNCHANGED <<handlers, commands, running, failures>>

(* UA_Client_run_iterate calls methodCalled with a bad result.             *)
CallFails ==
  /\ main = "iterate"
  /\ calls # <<>>
  /\ failures < MaxFailures
  /\ calls' = Tail(calls)
  /\ failures' = failures + 1
  /\ UNCHANGED <<handlers, commands, main, response, running>>

Responded == answer' = NoQuery /\ target' = 0

(* set_value() on m_queryResult as it is at the end of the call.           *)
Fulfil ==
  /\ main = "responding"
  /\ promises[Len(promises)] = Pending /\ storage
  /\ promises' = [promises EXCEPT ![Len(promises)] = answer]
  /\ main' = "iterate"
  /\ Responded
  /\ UNCHANGED <<handlers, queries, storage, calls, running, failures>>

(* The promise is fulfilled already: set_value() throws, which no one      *)
(* catches.  Or it has lost its storage: set_value() follows a null        *)
(* pointer.                                                                *)
SetValueCrashes ==
  /\ main = "responding"
  /\ promises[Len(promises)] # Pending \/ ~storage
  /\ main' = "crashed"
  /\ UNCHANGED <<handlers, commands, calls, response, running, failures>>

(* query() has replaced m_queryResult while set_value() was using it: a    *)
(* data race.  Besides the orders of the two that Fulfil and               *)
(* SetValueCrashes are, the freed state or storage may be used ...         *)
RaceCrashes ==
  /\ main = "responding"
  /\ target # Len(promises)
  /\ main' = "crashed"
  /\ UNCHANGED <<handlers, commands, calls, response, running, failures>>

(* ... or the result is put into the storage of the new promise, and this  *)
(* storage into the state of the old one.                                  *)
RaceStealsStorage ==
  /\ main = "responding"
  /\ target # Len(promises)
  /\ promises[target] = Broken
  /\ storage
  /\ promises' = [promises EXCEPT ![target] = answer]
  /\ storage' = FALSE
  /\ main' = "iterate"
  /\ Responded
  /\ UNCHANGED <<handlers, queries, calls, running, failures>>

IterateReturns ==
  /\ main = "iterate"
  /\ main' = "next"
  /\ UNCHANGED <<handlers, commands, calls, response, running, failures>>

(* Defects: the query is not erased, or all of them are.                   *)
ErasedNone(q) == queries
ErasedAll(q) == {}

Erased(q) == queries \ {q}

(* getNextQuery() takes the first query in the order of the hash map, and  *)
(* invokeQuery() calls the method.                                         *)
Invoke(q) ==
  /\ main = "next"
  /\ q \in queries
  /\ queries' = Erased(q)
  /\ calls' = Append(calls, q)
  /\ main' = NextRound
  /\ UNCHANGED <<handlers, promises, storage, response, running, failures>>

(* UA_Client_call_async does not send the call; its status is ignored.     *)
InvokeFails(q) ==
  /\ main = "next"
  /\ q \in queries
  /\ failures < MaxFailures
  /\ queries' = Erased(q)
  /\ failures' = failures + 1
  /\ main' = NextRound
  /\ UNCHANGED <<handlers, promises, storage, calls, response, running>>

(* Defect: getNextQuery() only tries to lock the mutex.                    *)
NoNextQueryTried ==
  /\ main = "next"
  /\ main' = NextRound
  /\ UNCHANGED <<handlers, commands, calls, response, running, failures>>

NoNextQuery ==
  /\ main = "next"
  /\ queries = {}
  /\ main' = NextRound
  /\ UNCHANGED <<handlers, commands, calls, response, running, failures>>

(* UA_Client_disconnect, UA_Client_delete (which calls methodCalled with a *)
(* bad result for the open calls) and the destructor of a thread that is   *)
(* joinable: std::terminate.                                               *)
Terminate ==
  /\ main = "stopping"
  /\ main' = "terminated"
  /\ calls' = <<>>
  /\ UNCHANGED <<handlers, commands, response, running, failures>>

(* stopHandler, the handler of SIGINT.                                     *)
Stop ==
  /\ ~Ended
  /\ running
  /\ running' = FALSE
  /\ UNCHANGED <<handlers, commands, main, calls, response, failures>>

-----------------------------------------------------------------------------
Handle(h) == GetResult(h) \/ TimeOut(h)

Main ==
  \/ Connect \/ ConnectFails
  \/ BeginResponse \/ CallFails
  \/ Fulfil \/ SetValueCrashes \/ RaceCrashes \/ RaceStealsStorage
  \/ IterateReturns
  \/ \E q \in Query : Invoke(q) \/ InvokeFails(q)
  \/ NoNextQuery
  \/ Terminate

Next ==
  \/ \E h \in Request : (\E q \in Query : Post(h, q)) \/ Handle(h)
  \/ Main
  \/ Stop

(* The main thread and the handlers are threads of their own; nobody has   *)
(* to post a request or to stop the client, and no call has to be answered.*)
Spec ==
  /\ Init /\ [][Next]_vars
  /\ WF_vars(Main)
  /\ \A h \in Request : WF_vars(Handle(h))

-----------------------------------------------------------------------------
(***************************************************************************)
(* Properties                                                              *)
(***************************************************************************)
MainPhase == {"connecting", "iterate", "responding", "next", "stopping",
              "exited", "terminated", "crashed"}

(* Every variable holds values of its type, and every handler waits for a  *)
(* promise that was made.                                                  *)
TypeOK ==
  /\ text \in [Request -> Query \cup {NoQuery}]
  /\ gen \in [Request -> 0..Len(promises)]
  /\ reply \in [Request -> Query \cup {NoReply, TimeoutReply, ErrorReply}]
  /\ queries \subseteq Query
  /\ promises \in Seq(Query \cup {Pending, Broken})
  /\ storage \in BOOLEAN
  /\ main \in MainPhase
  /\ calls \in Seq(Query)
  /\ answer \in Query \cup {NoQuery}
  /\ target \in 0..Len(promises)
  /\ running \in BOOLEAN
  /\ failures \in 0..MaxFailures

(* q was posted by the request of promise g or by an earlier one.          *)
PostedBy(q, g) == \E h \in Request : gen[h] \in 1..g /\ text[h] = q

(* A promise gets no result of a query that was posted after it was made,  *)
(* although results and promises are matched only by the time they come    *)
(* (Commands::queryResponse).                                              *)
AnswerOfEarlier ==
  \A g \in DOMAIN promises : promises[g] \in Query => PostedBy(promises[g], g)

(* As long as no call fails, the query of the newest promise is stored or  *)
(* with the server until the promise is fulfilled: neither the map nor a   *)
(* response for another request can lose it (Commands, methodCalled).      *)
AnswerOnItsWay ==
  ~Ended /\ failures = 0 =>
    \A h \in Request :
      Waiting(h) /\ gen[h] = Len(promises) /\ promises[gen[h]] = Pending =>
        text[h] \in queries \cup Range(calls) \cup {answer}

(* Every request gets a reply as long as the process lives: wait_for() has *)
(* a limit.                                                                *)
EveryRequestReplied == \A h \in Request : Waiting(h) ~> ~Waiting(h) \/ Ended

(* A query that was stored is handed to the server before long (the loop   *)
(* of main()).                                                             *)
StoredQueriesAreTaken == \A q \in Query : q \in queries ~> q \notin queries \/ Ended

(* No response ends the process (queryResponse, set_value).                *)
NeverCrashes == main # "crashed"

Promise == INSTANCE RestInterface

(* Requests get the result of their own query or "query timeout".          *)
KeepsPromise == Promise!Spec

(* README: queries are sent and results are displayed at the rest          *)
(* interface: the result that is displayed is that of the query.           *)
AnswersOwnQuery == \A h \in Request : reply[h] \in Query => reply[h] = text[h]
=============================================================================
