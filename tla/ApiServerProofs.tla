--------------------------- MODULE ApiServerProofs ---------------------------
(***************************************************************************)
(* For every number of requests and of connections: error bodies carry the *)
(* id of the header, readiness says what its own ping said, and the pool   *)
(* outlives the requests.                                                  *)
(*                                                                         *)
(* The server implements the pool of TransactionPool, whose theorems hold  *)
(* of it therefore; the rest of the invariant is about the requests.       *)
(***************************************************************************)
EXTENDS ApiServer, FiniteSetTheorems, TLAPS

\* What is proved of the pool, for this use of it.
Proved == INSTANCE TransactionPoolProofs
  WITH Txs <- {}, Queries <- Requests, Inner <- [t \in {} |-> None], Swallows <- FALSE

-----------------------------------------------------------------------------
(* The server implements the pool.                                         *)

\* The assumption under which the pool's theorems hold.
LEMMA PoolAssumptionHolds == Pool!PoolAssumption /\ Proved!PoolAssumption
BY ApiAssumption DEF Pool!PoolAssumption, Proved!PoolAssumption, Pool!Calls, Proved!Calls

\* Pool and Proved are the same specification.
LEMMA SamePool ==
  /\ Pool!Settled = Proved!Settled /\ Pool!Calls = Proved!Calls
  /\ Pool!TypeOK <=> Proved!TypeOK
  /\ Pool!Init <=> Proved!Init
  /\ [Pool!Next]_(Pool!vars) <=> [Proved!Next]_(Proved!vars)
<1> USE DEF Pool!vars, Proved!vars, Pool!callVars, Proved!callVars, Pool!poolVars,
            Proved!poolVars, Pool!serverVars, Proved!serverVars, Pool!Goto, Proved!Goto,
            Pool!Calls, Proved!Calls, Pool!Usable, Proved!Usable,
            Pool!FirstStage, Proved!FirstStage
<1>1. /\ Pool!Settled = Proved!Settled /\ Pool!Calls = Proved!Calls
      /\ (Pool!TypeOK <=> Proved!TypeOK) /\ (Pool!Init <=> Proved!Init)
  BY DEF Pool!Settled, Proved!Settled, Pool!TypeOK, Proved!TypeOK, Pool!Init, Proved!Init,
         Pool!Holding, Proved!Holding, Pool!TxStages, Proved!TxStages, Pool!QueryStages,
         Proved!QueryStages
<1>2. ASSUME NEW c
      PROVE  /\ Pool!Connect(c) <=> Proved!Connect(c)
             /\ Pool!PoolStep(c) <=> Proved!PoolStep(c)
  <2>1. Pool!Connect(c) <=> Proved!Connect(c)
    BY DEF Pool!Connect, Proved!Connect, Pool!Parents, Proved!Parents
  <2>2. Pool!ConnectOk(c) <=> Proved!ConnectOk(c)
    BY DEF Pool!ConnectOk, Proved!ConnectOk
  <2>3. Pool!ConnectFails(c) <=> Proved!ConnectFails(c)
    BY DEF Pool!ConnectFails, Proved!ConnectFails
  <2>4. Pool!WaitTimeout(c) <=> Proved!WaitTimeout(c)
    BY DEF Pool!WaitTimeout, Proved!WaitTimeout, Pool!RemoveAt, Proved!RemoveAt
  <2> QED
    BY <2>1, <2>2, <2>3, <2>4 DEF Pool!PoolStep, Proved!PoolStep
<1>3. ASSUME NEW c
      PROVE  Pool!QueryStep(c) <=> Proved!QueryStep(c)
  BY DEF Pool!QueryStep, Proved!QueryStep, Pool!Exec, Proved!Exec, Pool!QueryRelease,
         Proved!QueryRelease, Pool!Release, Proved!Release
<1>4. ASSUME NEW cl
      PROVE  /\ Pool!ServeIdle(cl) <=> Proved!ServeIdle(cl)
             /\ Pool!ServeNew(cl) <=> Proved!ServeNew(cl)
             /\ Pool!Break(cl) <=> Proved!Break(cl)
             /\ Pool!BreakIdle(cl) <=> Proved!BreakIdle(cl)
  BY DEF Pool!ServeIdle, Proved!ServeIdle, Pool!ServeNew, Proved!ServeNew, Pool!Break,
         Proved!Break, Pool!BreakIdle, Proved!BreakIdle
<1>5. Pool!End <=> Proved!End
  BY DEF Pool!End, Proved!End
<1>6. Pool!Next <=> Proved!Next
  BY <1>2, <1>3, <1>4, <1>5 DEF Pool!Next, Proved!Next
<1>7. UNCHANGED Pool!vars <=> UNCHANGED Proved!vars
  OBVIOUS
<1> QED
  BY <1>1, <1>6, <1>7

\* Every step of the server is a step of the pool, or none.
LEMMA StepsOfThePool == [Next]_vars => [Pool!Next]_(Pool!vars)
<1> SUFFICES ASSUME [Next]_vars PROVE Pool!Next \/ UNCHANGED Pool!vars
  OBVIOUS
<1>1. UNCHANGED poolVars => UNCHANGED Pool!vars
  BY DEF poolVars, Pool!vars, Pool!callVars, Pool!poolVars, Pool!serverVars
<1>2. Requests \subseteq Pool!Calls
  BY DEF Pool!Calls
<1>3. ASSUME NEW r \in Requests, Receive(r) \/ LoseContext(r) \/ HttpStep(r)
      PROVE  UNCHANGED poolVars \/ Pool!Connect(r)
  BY <1>3 DEF Receive, LoseContext, HttpStep, Correlate, Dispatch, RejectBody, RejectRoute,
              Live, Ping, Pinged, NotReady, AnswerNotReady
<1>4. ASSUME NEW r \in Requests, QueryStep(r)
      PROVE  Pool!Next
  BY <1>2, <1>4 DEF QueryStep, Pool!Next
<1>5. ASSUME NEW cl \in Clients, PoolEnvironment(cl)
      PROVE  Pool!Next
  BY <1>5 DEF PoolEnvironment, Pool!Next
<1>6. Sigterm \/ ShutdownStep => UNCHANGED poolVars \/ Pool!End
  BY DEF Sigterm, ShutdownStep, ServerClosed, EndPool, Exit
<1>7. UNCHANGED vars => UNCHANGED poolVars
  BY DEF vars
<1> QED
  BY <1>1, <1>2, <1>3, <1>4, <1>5, <1>6, <1>7 DEF Next, Pool!Next

\* The HTTP server, its requests and its shutdown use the pool as it wants to be used.
THEOREM ServerImplementsPool == Spec => Pool!Spec
<1>1. Init => Pool!Init
  BY DEF Init
<1> QED
  BY <1>1, StepsOfThePool, PTL DEF Spec, Pool!Spec

\* Hence the pool's invariant holds in the server.
LEMMA AlwaysPoolInv == Spec => []Proved!PoolInv
<1>1. Init => Proved!Init
  BY SamePool DEF Init
<1>2. Init => Proved!PoolInv
  BY <1>1, PoolAssumptionHolds, Proved!InitPoolInv
<1>3. [Next]_vars => [Proved!Next]_(Proved!vars)
  BY SamePool, StepsOfThePool
<1>4. Proved!PoolInv /\ [Next]_vars => Proved!PoolInv'
  BY <1>3, PoolAssumptionHolds, Proved!NextPoolInv
<1> QED
  BY <1>2, <1>4, PTL DEF Spec


-----------------------------------------------------------------------------
(* The requests.                                                           *)

\* The ids of a request: the middleware sets them together, and only the async
\* context may be lost.
IdsAgree ==
  \A r \in Requests :
    /\ header[r] = reqId[r]
    /\ context[r] \in {None, header[r]}
    /\ stage[r] \in {"none", "received"} => header[r] = None

\* Until it is answered a request has the status that NestJS gave it.
StatusBeforeAnswer == \A r \in Requests : stage[r] # "answered" => statusCode[r] = 200

\* Readiness waits for its own ping, and fails only after the ping has.
ReadyAfterPing ==
  \A r \in Requests :
    /\ stage[r] = "failed" => kind[r] = "ready" /\ pc[r] = "thrown"
    /\ stage[r] = "answered" /\ kind[r] = "ready" => pc[r] \in Pool!Settled

\* The pool ends in a closed server, and a closed server is done with its requests.
EndInOrder ==
  /\ ending => server \in {"closed", "exited"}
  /\ server \in {"closed", "exited"} => \A r \in Requests : ~InProgress(r)

RequestsInv ==
  /\ TypeOK /\ IdsAgree /\ StatusBeforeAnswer /\ ReadyAfterPing
  /\ EndInOrder /\ ErrorIdMatchesHeader /\ ReadyMeansPinged

\* The pings as a request sees them: none is made anew, and a settled one stays.
PingsKeep ==
  \A r \in Requests : /\ pc[r] \in Pool!Settled => pc'[r] = pc[r]
                      /\ pc[r] # "new" => pc'[r] # "new"

\* A client's id is no generated one and neither of the placeholders.
LEMMA IdsDiffer ==
  /\ None # ClientId /\ None # Unknown /\ ClientId # Unknown
  /\ \A r \in Requests : r # None /\ r # ClientId /\ r # Unknown
<1>1. ASSUME NEW a, NEW b, {None, ClientId, Unknown} = {a, b}
      PROVE  FALSE
  <2>1. IsFiniteSet({a}) /\ Cardinality({a}) = 1
    BY FS_Singleton
  <2>2. Cardinality({a} \cup {b}) \in {1, 2}
    BY <2>1, FS_AddElement
  <2>3. {a, b} = {a} \cup {b}
    OBVIOUS
  <2> QED
    BY <1>1, <2>2, <2>3, ApiAssumption
<1>2. {None, ClientId, Unknown} = {ClientId, Unknown} \/ None \notin {ClientId, Unknown}
  OBVIOUS
<1>3. {None, ClientId, Unknown} = {None, ClientId} \/ ClientId # Unknown
  OBVIOUS
<1>4. None \notin {ClientId, Unknown} /\ ClientId # Unknown
  BY <1>1, <1>2, <1>3
<1> QED
  BY <1>4, ApiAssumption

\* What a step does to the pings and to the end of the pool.
LEMMA PingsKept == Proved!PoolInv /\ [Next]_vars => PingsKeep /\ Pool!TypeOK'
<1> SUFFICES ASSUME Proved!PoolInv, [Next]_vars PROVE PingsKeep /\ Pool!TypeOK'
  OBVIOUS
<1>1. [Proved!Next]_(Proved!vars)
  BY SamePool, StepsOfThePool
<1>2. Proved!SettledStays /\ Proved!PoolInv'
  BY <1>1, PoolAssumptionHolds, Proved!StepsKeepSettled, Proved!NextPoolInv
<1>3. PingsKeep
  BY <1>2, SamePool DEF PingsKeep, Proved!SettledStays, Proved!Calls
<1>4. Pool!TypeOK'
  BY <1>2 DEF Proved!PoolInv, Proved!TypeOK, Pool!TypeOK, Pool!Settled, Proved!Settled,
       Pool!Holding, Proved!Holding, Pool!TxStages, Proved!TxStages, Pool!QueryStages,
       Proved!QueryStages, Pool!Calls, Proved!Calls
<1> QED
  BY <1>3, <1>4

-----------------------------------------------------------------------------
(* Each step preserves it.                                                 *)

LEMMA ReceiveStep ==
  ASSUME RequestsInv, Pool!TypeOK', NEW r \in Requests, Receive(r)
  PROVE  RequestsInv'
<1> USE DEF RequestsInv, Receive, poolVars
<1>1. TypeOK'
  <2>1. kind' \in [Requests -> AllKinds \cup {None}]
    BY ApiAssumption DEF TypeOK
  <2> QED
    BY <2>1 DEF TypeOK
<1>2. IdsAgree'
  BY IdsDiffer DEF IdsAgree, TypeOK
<1>3. StatusBeforeAnswer' /\ EndInOrder'
  BY DEF StatusBeforeAnswer, EndInOrder, InProgress, TypeOK
<1>4. ReadyAfterPing' /\ ErrorIdMatchesHeader' /\ ReadyMeansPinged'
  BY DEF ReadyAfterPing, ErrorIdMatchesHeader, ReadyMeansPinged, Answered, TypeOK
<1> QED
  BY <1>1, <1>2, <1>3, <1>4

LEMMA CorrelateStep ==
  ASSUME RequestsInv, Pool!TypeOK', NEW r \in Requests, Correlate(r)
  PROVE  RequestsInv'
<1> USE DEF RequestsInv, Correlate, poolVars
<1>1. AssignedId(r) \in Ids
  BY DEF AssignedId, Ids
<1>2. TypeOK'
  BY <1>1 DEF TypeOK
<1>3. IdsAgree'
  BY <1>1 DEF IdsAgree, TypeOK
<1>4. StatusBeforeAnswer' /\ EndInOrder'
  BY DEF StatusBeforeAnswer, EndInOrder, InProgress, TypeOK
<1>5. ReadyAfterPing' /\ ErrorIdMatchesHeader' /\ ReadyMeansPinged'
  BY DEF ReadyAfterPing, ErrorIdMatchesHeader, ReadyMeansPinged, Answered, TypeOK
<1> QED
  BY <1>2, <1>3, <1>4, <1>5

\* Entering the interceptor, the handler's ping, or nothing but the context lost.
LEMMA HandlingStep ==
  ASSUME RequestsInv, Pool!TypeOK', NEW r \in Requests, Dispatch(r) \/ LoseContext(r)
  PROVE  RequestsInv'
<1>1. /\ UNCHANGED <<poolVars, server, kind, supplied, reqId, header, statusCode, answer, lines>>
      /\ stage[r] \notin {"none", "received", "failed", "answered"}
      /\ \E s \in {"handling", "pinging"} : stage' = [stage EXCEPT ![r] = s]
      /\ stage'[r] = "pinging" => stage[r] = "pinging"
      /\ \E i \in {context[r], None} : context' = [context EXCEPT ![r] = i]
  BY DEF Dispatch, LoseContext, RequestsInv, TypeOK
<1> USE DEF RequestsInv, poolVars
<1>2. TypeOK'
  BY <1>1 DEF TypeOK
<1>3. IdsAgree'
  BY <1>1 DEF IdsAgree, TypeOK
<1>4. StatusBeforeAnswer' /\ EndInOrder'
  BY <1>1 DEF StatusBeforeAnswer, EndInOrder, InProgress, TypeOK
<1>5. ReadyAfterPing' /\ ErrorIdMatchesHeader' /\ ReadyMeansPinged'
  BY <1>1 DEF ReadyAfterPing, ErrorIdMatchesHeader, ReadyMeansPinged, Answered, TypeOK
<1> QED
  BY <1>2, <1>3, <1>4, <1>5

LEMMA PingStep ==
  ASSUME RequestsInv, Pool!TypeOK', PingsKeep, NEW r \in Requests, Ping(r)
  PROVE  RequestsInv'
<1> USE DEF RequestsInv, Ping
<1>1. ending' = ending /\ pc'[r] # "new"
  BY DEF Pool!Connect, Pool!Goto, TypeOK, Pool!TypeOK, Pool!Calls
<1>2. TypeOK'
  BY <1>1 DEF TypeOK, PingsKeep
<1>3. IdsAgree'
  BY DEF IdsAgree, TypeOK
<1>4. StatusBeforeAnswer' /\ EndInOrder'
  BY <1>1 DEF StatusBeforeAnswer, EndInOrder, InProgress, TypeOK
<1>5. ReadyAfterPing' /\ ErrorIdMatchesHeader' /\ ReadyMeansPinged'
  BY DEF ReadyAfterPing, ErrorIdMatchesHeader, ReadyMeansPinged, Answered, TypeOK, PingsKeep,
         Pool!Settled
<1> QED
  BY <1>2, <1>3, <1>4, <1>5

\* The pings and the pool move on their own.
LEMMA PoolMoves ==
  ASSUME RequestsInv, Pool!TypeOK', PingsKeep, UNCHANGED <<server, httpVars>>,
         ending' = ending \/ server = "closed"
  PROVE  RequestsInv'
<1> USE DEF RequestsInv, httpVars
<1>1. TypeOK'
  BY DEF TypeOK, PingsKeep
<1>2. IdsAgree' /\ StatusBeforeAnswer'
  BY DEF IdsAgree, StatusBeforeAnswer
<1>3. EndInOrder' /\ ErrorIdMatchesHeader'
  BY DEF EndInOrder, InProgress, ErrorIdMatchesHeader, Answered
<1>4. ReadyAfterPing' /\ ReadyMeansPinged'
  BY DEF ReadyAfterPing, ReadyMeansPinged, Answered, PingsKeep, Pool!Settled
<1> QED
  BY <1>1, <1>2, <1>3, <1>4

\* The handler returns to a request that needs no ping, or has its own.
LEMMA SucceedStep ==
  ASSUME RequestsInv, Pool!TypeOK', NEW r \in Requests, Live(r) \/ Pinged(r)
  PROVE  RequestsInv'
<1>1. /\ UNCHANGED <<poolVars, server, kind, supplied, context, reqId, header>>
      /\ stage[r] \in {"handling", "pinging"}
      /\ kind[r] = "ready" => pc[r] = "returned"
      /\ Succeed(r)
  BY DEF Live, Pinged, PingOk
<1> USE DEF RequestsInv, poolVars, Succeed
<1>2. /\ statusCode[r] = 200
      /\ Finish(r) \in [event : {"http_request", "unhandled_error"}, req : Requests,
                        status : {200, 503}, id : Ids \cup {None}]
      /\ Finish(r).req = r /\ Finish(r).id = context[r]
  BY <1>1 DEF StatusBeforeAnswer, Finish, Line, TypeOK
<1> HIDE DEF Finish
<1>3. TypeOK'
  BY <1>1, <1>2 DEF TypeOK
<1>4. IdsAgree'
  BY <1>1 DEF IdsAgree, TypeOK
<1>5. StatusBeforeAnswer' /\ EndInOrder'
  BY <1>1, <1>2 DEF StatusBeforeAnswer, EndInOrder, InProgress, TypeOK
<1>6. ReadyAfterPing' /\ ErrorIdMatchesHeader' /\ ReadyMeansPinged'
  BY <1>1, <1>2 DEF ReadyAfterPing, ErrorIdMatchesHeader, ReadyMeansPinged, Answered, TypeOK,
                    Pool!Settled
<1> QED
  BY <1>3, <1>4, <1>5, <1>6

\* Readiness throws.
LEMMA NotReadyStep ==
  ASSUME RequestsInv, Pool!TypeOK', NEW r \in Requests, NotReady(r)
  PROVE  RequestsInv'
<1> USE DEF RequestsInv, poolVars, NotReady
<1>1. /\ Finish(r) \in [event : {"http_request", "unhandled_error"}, req : Requests,
                        status : {200, 503}, id : Ids \cup {None}]
      /\ Finish(r).req = r /\ Finish(r).id = context[r]
  BY DEF StatusBeforeAnswer, Finish, Line, TypeOK
<1>2. TypeOK'
  BY <1>1 DEF TypeOK
<1>3. IdsAgree'
  BY DEF IdsAgree, TypeOK
<1>4. StatusBeforeAnswer' /\ EndInOrder'
  BY <1>1 DEF StatusBeforeAnswer, EndInOrder, InProgress, TypeOK
<1>5. ReadyAfterPing' /\ ErrorIdMatchesHeader' /\ ReadyMeansPinged'
  BY DEF ReadyAfterPing, ErrorIdMatchesHeader, ReadyMeansPinged, Answered, TypeOK,
         PingOk, Pool!Settled
<1> QED
  BY <1>2, <1>3, <1>4, <1>5

\* The exception filter answers a request.
LEMMA FilterStep ==
  ASSUME RequestsInv, Pool!TypeOK', NEW r \in Requests,
         UNCHANGED <<poolVars, server, kind, supplied, context, reqId, header>>,
         stage[r] \notin {"none", "answered"},
         NEW status \in {400, 404, 503}, Filter(r, status, status = 503),
         kind[r] = "ready" => status = 503 /\ pc[r] = "thrown"
  PROVE  RequestsInv'
<1>1. /\ UNCHANGED <<poolVars, server, kind, supplied, context, reqId, header>>
      /\ stage[r] \notin {"none", "answered"}
      /\ Filter(r, status, status = 503)
      /\ kind[r] = "ready" => status = 503 /\ pc[r] = "thrown"
  OBVIOUS
<1> DEFINE line == Line("unhandled_error", r, status)
           body == [status |-> status, id |-> ErrorId(r),
                    details |-> status = 503 /\ status < 500]
<1> USE DEF RequestsInv, poolVars
<1>2. /\ statusCode' = [statusCode EXCEPT ![r] = status]
      /\ answer' = [answer EXCEPT ![r] = body]
      /\ lines' = lines \cup (IF status = 503 THEN {line} ELSE {})
      /\ stage' = [stage EXCEPT ![r] = "answered"]
  BY <1>1 DEF Filter
<1>3. /\ ErrorId(r) \in Ids \cup {None, Unknown}
      /\ header[r] # None => ErrorId(r) = header[r]
  BY DEF ErrorId, IdsAgree, TypeOK
<1>4. /\ body \in [status : {0, 200, 400, 404, 503}, id : Ids \cup {None, Unknown},
                   details : BOOLEAN]
      /\ body.status = status /\ body.id = ErrorId(r)
      /\ line.req = r /\ line.id = context[r]
      /\ status = 503 => line \in [event : {"http_request", "unhandled_error"}, req : Requests,
                                   status : {200, 503}, id : Ids \cup {None}]
  BY <1>1, <1>3 DEF Line, TypeOK
<1> HIDE DEF line, body
<1>5. TypeOK'
  BY <1>1, <1>2, <1>4 DEF TypeOK
<1>6. IdsAgree'
  BY <1>1, <1>2 DEF IdsAgree, TypeOK
<1>7. StatusBeforeAnswer' /\ EndInOrder'
  BY <1>1, <1>2, <1>4 DEF StatusBeforeAnswer, EndInOrder, InProgress, TypeOK
<1>8. ReadyAfterPing' /\ ErrorIdMatchesHeader' /\ ReadyMeansPinged'
  BY <1>1, <1>2, <1>3, <1>4
     DEF ReadyAfterPing, ErrorIdMatchesHeader, ReadyMeansPinged, Answered, TypeOK, Pool!Settled
<1> QED
  BY <1>5, <1>6, <1>7, <1>8

\* It does so on three ways.
LEMMA FailureStep ==
  ASSUME RequestsInv, Pool!TypeOK', NEW r \in Requests,
         RejectBody(r) \/ RejectRoute(r) \/ AnswerNotReady(r)
  PROVE  RequestsInv'
<1>1. CASE RejectBody(r)
  <2>1. Filter(r, 400, 400 = 503)
    BY <1>1 DEF RejectBody, Filter
  <2> QED
    BY <1>1, <2>1, FilterStep DEF RejectBody
<1>2. CASE RejectRoute(r)
  <2>1. Filter(r, 404, 404 = 503)
    BY <1>2 DEF RejectRoute, Filter
  <2> QED
    BY <1>2, <2>1, FilterStep DEF RejectRoute
<1>3. CASE AnswerNotReady(r)
  <2>1. Filter(r, 503, 503 = 503)
    BY <1>3 DEF AnswerNotReady, Filter
  <2> QED
    BY <1>3, <2>1, FilterStep DEF AnswerNotReady, RequestsInv, ReadyAfterPing
<1> QED
  BY <1>1, <1>2, <1>3

\* SIGTERM, the closing of the server, and the exit.
LEMMA ServerStep ==
  ASSUME RequestsInv, Pool!TypeOK', Sigterm \/ ServerClosed \/ Exit
  PROVE  RequestsInv'
<1>1. /\ UNCHANGED <<poolVars, httpVars>>
      /\ server' \in {"closing", "closed", "exited"}
      /\ ending => server' \in {"closed", "exited"}
      /\ server' \in {"closed", "exited"} => \A r \in Requests : ~InProgress(r)
  BY DEF Sigterm, ServerClosed, Exit, RequestsInv, EndInOrder
<1> USE <1>1 DEF RequestsInv, httpVars, poolVars
<1>2. TypeOK'
  BY DEF TypeOK
<1>3. IdsAgree' /\ StatusBeforeAnswer'
  BY DEF IdsAgree, StatusBeforeAnswer
<1>4. EndInOrder' /\ ErrorIdMatchesHeader' /\ ReadyAfterPing' /\ ReadyMeansPinged'
  BY DEF EndInOrder, InProgress, ErrorIdMatchesHeader, Answered, ReadyAfterPing, ReadyMeansPinged
<1> QED
  BY <1>2, <1>3, <1>4

-----------------------------------------------------------------------------
(* The theorems.                                                           *)

LEMMA InitRequestsInv == Init => RequestsInv
<1> SUFFICES ASSUME Init PROVE RequestsInv
  OBVIOUS
<1> USE DEF Init
<1>1. TypeOK
  <2>1. Pool!TypeOK
    BY SamePool, PoolAssumptionHolds, Proved!InitPoolInv DEF Proved!PoolInv
  <2>2. answer \in [Requests -> [status : {0, 200, 400, 404, 503}, id : Ids \cup {None, Unknown},
                                 details : BOOLEAN]]
    BY DEF NoAnswer
  <2> QED
    BY <2>1, <2>2 DEF TypeOK
<1>2. IdsAgree /\ StatusBeforeAnswer /\ ReadyAfterPing
  BY IdsDiffer DEF IdsAgree, StatusBeforeAnswer, ReadyAfterPing
<1>3. EndInOrder
  BY DEF EndInOrder, Pool!Init
<1>4. ErrorIdMatchesHeader /\ ReadyMeansPinged
  BY DEF ErrorIdMatchesHeader, ReadyMeansPinged, Answered
<1> QED
  BY <1>1, <1>2, <1>3, <1>4 DEF RequestsInv

LEMMA NextRequestsInv == RequestsInv /\ Proved!PoolInv /\ [Next]_vars => RequestsInv'
<1> SUFFICES ASSUME RequestsInv, Proved!PoolInv, [Next]_vars PROVE RequestsInv'
  OBVIOUS
<1>1. PingsKeep /\ Pool!TypeOK'
  BY PingsKept
<1>2. ASSUME NEW r \in Requests, Receive(r) \/ LoseContext(r) \/ HttpStep(r)
      PROVE  RequestsInv'
  BY <1>1, <1>2, ReceiveStep, CorrelateStep, HandlingStep, PingStep, SucceedStep, NotReadyStep,
     FailureStep DEF HttpStep
<1>3. ASSUME NEW r \in Requests, QueryStep(r), UNCHANGED <<server, httpVars>>
      PROVE  RequestsInv'
  <2>1. ending' = ending
    BY <1>3 DEF QueryStep, Pool!PoolStep, Pool!QueryStep, Pool!ConnectOk, Pool!ConnectFails,
                Pool!WaitTimeout, Pool!Exec, Pool!QueryRelease, Pool!poolVars
  <2> QED
    BY <1>1, <1>3, <2>1, PoolMoves
<1>4. ASSUME NEW cl \in Clients, PoolEnvironment(cl), UNCHANGED <<server, httpVars>>
      PROVE  RequestsInv'
  <2>1. ending' = ending
    BY <1>4 DEF PoolEnvironment, Pool!ServeIdle, Pool!ServeNew, Pool!Break, Pool!BreakIdle
  <2> QED
    BY <1>1, <1>4, <2>1, PoolMoves
<1>5. ASSUME EndPool
      PROVE  RequestsInv'
  BY <1>1, <1>5, PoolMoves DEF EndPool
<1>6. ASSUME Sigterm \/ ServerClosed \/ Exit
      PROVE  RequestsInv'
  BY <1>1, <1>6, ServerStep
<1>7. ASSUME UNCHANGED vars
      PROVE  RequestsInv'
  BY <1>1, <1>7, PoolMoves DEF vars, poolVars
<1> QED
  BY <1>2, <1>3, <1>4, <1>5, <1>6, <1>7 DEF Next, ShutdownStep

LEMMA AlwaysRequestsInv == Spec => []RequestsInv
<1>1. RequestsInv /\ Proved!PoolInv /\ [Next]_vars => RequestsInv'
  BY NextRequestsInv
<1> QED
  BY InitRequestsInv, <1>1, AlwaysPoolInv, PTL DEF Spec

\* The variables of the server, its requests and its pool keep their types, and a
\* request that waits for its ping has made one.
THEOREM ApiTypeOK == Spec => []TypeOK
BY AlwaysRequestsInv, PTL DEF RequestsInv

\* The id in an error body is the one in the header, however the request failed
\* (all-exceptions.filter.ts:23-25).
THEOREM ErrorIdAlwaysMatches == Spec => []ErrorIdMatchesHeader
BY AlwaysRequestsInv, PTL DEF RequestsInv

\* Readiness reports its own ping, however many share the pool
\* (health.controller.ts:53-67).
THEOREM ReadinessIsItsPing == Spec => []ReadyMeansPinged
BY AlwaysRequestsInv, PTL DEF RequestsInv

\* The pool is ended only when no request is left (main.ts:102-105).
THEOREM PoolAlwaysOutlivesRequests == Spec => []PoolOutlivesRequests
<1>1. RequestsInv => PoolOutlivesRequests
  BY DEF RequestsInv, EndInOrder, PoolOutlivesRequests
<1> QED
  BY <1>1, AlwaysRequestsInv, PTL
=============================================================================
