------------------------------ MODULE ApiServer ------------------------------
(***************************************************************************)
(* The HTTP side of the API process composed with its connection pool:     *)
(* requests pass the body parser, the correlation middleware, the logging  *)
(* interceptor, a health handler and the exception filter; readiness and   *)
(* the summary await a ping on the pool of TransactionPool; SIGTERM closes *)
(* the server first and ends the pool afterwards.                          *)
(*                                                                         *)
(* Translated from apps/api/src.  The order in which NestJS and Express    *)
(* call these parts is not in the repository and is marked external.       *)
(***************************************************************************)
EXTENDS Integers, FiniteSets, Sequences

CONSTANTS
  Requests,   \* HTTP requests; the ping of a request is named after it
  Kinds,      \* the routes and malformed requests that clients send
  Clients,    \* connection slots of the pool
  ClientId,   \* a UUID that a client sends as its correlation id
  Unknown,    \* the exception filter's last resort for an id
  None

VARIABLES
  \* the pool
  pc, held, waiters, client, broken, session, writes, committed, wrote, ending,
  \* the server
  server,     \* listening, closing, closed, exited
  stage,      \* how far each request has got
  kind,       \* what each request asks for
  supplied,   \* the x-correlation-id header a client sent
  context,    \* AsyncLocalStorage of each request: its id, or None once lost
  reqId,      \* req.correlationId
  header,     \* x-correlation-id on the response
  statusCode, \* res.statusCode
  answer,     \* what was sent: status, error id and details
  lines       \* log lines: event, request, status, id

Pool == INSTANCE TransactionPool
  WITH Txs <- {}, Queries <- Requests, Inner <- [t \in {} |-> None], Swallows <- FALSE

poolVars == <<pc, held, waiters, client, broken, session, writes, committed, wrote, ending>>
httpVars == <<stage, kind, supplied, context, reqId, header, statusCode, answer, lines>>
vars == <<poolVars, httpVars, server>>

MatchedKinds == {"live", "ready", "summary"}
AllKinds == MatchedKinds \cup {"unmatched", "badBody"}

ASSUME ApiAssumption ==
  /\ Kinds \subseteq AllKinds
  /\ Cardinality({None, ClientId, Unknown}) = 3
  /\ {None, ClientId, Unknown} \cap (Requests \cup Clients) = {}

\* The UUID generated for a request is named after it.
Ids == Requests \cup {ClientId}
NoAnswer == [status |-> 0, id |-> None, details |-> FALSE]

TypeOK ==
  /\ server \in {"listening", "closing", "closed", "exited"}
  /\ stage \in [Requests -> {"none", "received", "correlated", "handling", "pinging",
                             "failed", "answered"}]
  /\ kind \in [Requests -> AllKinds \cup {None}]
  /\ supplied \in [Requests -> {"absent", "invalid", "valid"}]
  /\ context \in [Requests -> Ids \cup {None}]
  /\ reqId \in [Requests -> Ids \cup {None}]
  /\ header \in [Requests -> Ids \cup {None}]
  /\ statusCode \in [Requests -> {200, 400, 404, 503}]
  /\ answer \in [Requests -> [status : {0, 200, 400, 404, 503},
                              id : Ids \cup {None, Unknown}, details : BOOLEAN]]
  /\ lines \subseteq [event : {"http_request", "unhandled_error"}, req : Requests,
                      status : {200, 503}, id : Ids \cup {None}]
  /\ \A r \in Requests : stage[r] = "pinging" => pc[r] # "new"
  /\ Pool!TypeOK

Init ==
  /\ Pool!Init
  /\ server = "listening"
  /\ stage = [r \in Requests |-> "none"]
  /\ kind = [r \in Requests |-> None]
  /\ supplied = [r \in Requests |-> "absent"]
  /\ context = [r \in Requests |-> None]
  /\ reqId = [r \in Requests |-> None]
  /\ header = [r \in Requests |-> None]
  /\ statusCode = [r \in Requests |-> 200]
  /\ answer = [r \in Requests |-> NoAnswer]
  /\ lines = {}

InProgress(r) == stage[r] \notin {"none", "answered"}

-----------------------------------------------------------------------------
(* Before the handler.                                                     *)

Receive(r) ==
  /\ server = "listening" /\ stage[r] = "none"
  /\ stage' = [stage EXCEPT ![r] = "received"]
  /\ \E k \in Kinds : kind' = [kind EXCEPT ![r] = k]
  /\ \E s \in {"absent", "invalid", "valid"} : supplied' = [supplied EXCEPT ![r] = s]
  /\ UNCHANGED <<poolVars, server, context, reqId, header, statusCode, answer, lines>>

\* A client's id is honoured only if it is a UUID.
AssignedId(r) == IF supplied[r] = "valid" THEN ClientId ELSE r

\* CorrelationMiddleware.use.
Correlate(r) ==
  /\ stage[r] = "received" /\ kind[r] # "badBody"
  /\ stage' = [stage EXCEPT ![r] = "correlated"]
  /\ context' = [context EXCEPT ![r] = AssignedId(r)]
  /\ reqId' = [reqId EXCEPT ![r] = AssignedId(r)]
  /\ header' = [header EXCEPT ![r] = AssignedId(r)]
  /\ UNCHANGED <<poolVars, server, kind, supplied, statusCode, answer, lines>>

\* A route matches: NestJS sets its status, 200, and enters the interceptor.
Dispatch(r) ==
  /\ stage[r] = "correlated" /\ kind[r] \in MatchedKinds
  /\ stage' = [stage EXCEPT ![r] = "handling"]
  /\ UNCHANGED <<poolVars, server, kind, supplied, context, reqId, header,
                 statusCode, answer, lines>>

-----------------------------------------------------------------------------
(* Answering.                                                              *)

Line(event, r, status) ==
  [event |-> event, req |-> r, status |-> status, id |-> context[r]]

\* finish() of the interceptor: the status is whatever the response has by now.
Finish(r) == Line("http_request", r, statusCode[r])

\* The handler returned: finish, then the response.
Succeed(r) ==
  /\ lines' = lines \cup {Finish(r)}
  /\ stage' = [stage EXCEPT ![r] = "answered"]
  /\ answer' = [answer EXCEPT ![r] = [status |-> statusCode[r], id |-> None,
                                      details |-> FALSE]]
  /\ UNCHANGED statusCode

\* Mutant: the filter knows of the async context only.
ErrorIdContextOnly(r) == IF context[r] # None THEN context[r] ELSE Unknown

\* The fallback chain of the exception filter.
ErrorId(r) ==
  IF context[r] # None THEN context[r]
  ELSE IF reqId[r] # None THEN reqId[r]
  ELSE IF header[r] # None THEN header[r]
  ELSE Unknown

\* AllExceptionsFilter.catch: 5xx are logged and lose their details.
Filter(r, status, details) ==
  /\ statusCode' = [statusCode EXCEPT ![r] = status]
  /\ answer' = [answer EXCEPT ![r] = [status |-> status, id |-> ErrorId(r),
                                      details |-> details /\ status < 500]]
  /\ lines' = IF status >= 500 THEN lines \cup {Line("unhandled_error", r, status)}
                              ELSE lines
  /\ stage' = [stage EXCEPT ![r] = "answered"]

\* A malformed body is refused by the parser, ahead of the middleware.
RejectBody(r) ==
  /\ stage[r] = "received" /\ kind[r] = "badBody"
  /\ Filter(r, 400, FALSE)
  /\ UNCHANGED <<poolVars, server, kind, supplied, context, reqId, header>>

\* No route matches: NestJS throws NotFoundException outside the interceptor.
RejectRoute(r) ==
  /\ stage[r] = "correlated" /\ kind[r] = "unmatched"
  /\ Filter(r, 404, FALSE)
  /\ UNCHANGED <<poolVars, server, kind, supplied, context, reqId, header>>

\* Mutant: liveness consults the database like the other two.
LiveAfterPing(r) ==
  /\ kind[r] = "live"
  /\ \/ /\ stage[r] = "handling" /\ Pool!Connect(r)
        /\ stage' = [stage EXCEPT ![r] = "pinging"]
        /\ UNCHANGED <<statusCode, answer, lines>>
     \/ /\ stage[r] = "pinging" /\ pc[r] \in Pool!Settled
        /\ Succeed(r) /\ UNCHANGED poolVars
  /\ UNCHANGED <<server, kind, supplied, context, reqId, header>>

\* HealthController.live.
Live(r) ==
  /\ stage[r] = "handling" /\ kind[r] = "live"
  /\ Succeed(r)
  /\ UNCHANGED <<poolVars, server, kind, supplied, context, reqId, header>>

\* Mutant: the handler does not await the connection it pings on.
PingUnconnected(r) ==
  /\ stage[r] = "handling" /\ kind[r] \in {"ready", "summary"}
  /\ stage' = [stage EXCEPT ![r] = "pinging"]
  /\ UNCHANGED <<poolVars, server, kind, supplied, context, reqId, header, statusCode,
                 answer, lines>>

\* HealthService.checkDependencies awaits db.ping().
Ping(r) ==
  /\ stage[r] = "handling" /\ kind[r] \in {"ready", "summary"}
  /\ Pool!Connect(r)
  /\ stage' = [stage EXCEPT ![r] = "pinging"]
  /\ UNCHANGED <<server, kind, supplied, context, reqId, header, statusCode, answer, lines>>

\* Mutant: a ping that settled at all counts as a success.
PingOkWhenSettled(r) == pc[r] \in Pool!Settled

\* ping() catches: its answer is whether the query returned.
PingOk(r) == pc[r] = "returned"

\* A library on the way may have lost the async context (middleware, 25-27).
LoseContext(r) ==
  /\ stage[r] = "pinging" /\ context[r] # None
  /\ context' = [context EXCEPT ![r] = None]
  /\ UNCHANGED <<poolVars, server, stage, kind, supplied, reqId, header, statusCode,
                 answer, lines>>

\* The summary returns whatever the ping said, readiness only a success.
Pinged(r) ==
  /\ stage[r] = "pinging" /\ pc[r] \in Pool!Settled
  /\ kind[r] = "summary" \/ PingOk(r)
  /\ Succeed(r)
  /\ UNCHANGED <<poolVars, server, kind, supplied, context, reqId, header>>

\* Readiness throws: finish runs on the error, the filter has yet to answer.
NotReady(r) ==
  /\ stage[r] = "pinging" /\ pc[r] \in Pool!Settled
  /\ kind[r] = "ready" /\ ~PingOk(r)
  /\ lines' = lines \cup {Finish(r)}
  /\ stage' = [stage EXCEPT ![r] = "failed"]
  /\ UNCHANGED <<poolVars, server, kind, supplied, context, reqId, header, statusCode,
                 answer>>

\* Mutant: the filter gives up when the async context is gone.
AnswerNotReadyInContext(r) ==
  /\ stage[r] = "failed" /\ context[r] # None
  /\ Filter(r, 503, TRUE)
  /\ UNCHANGED <<poolVars, server, kind, supplied, context, reqId, header>>

\* The filter answers with 503 and without the names of the dependencies.
AnswerNotReady(r) ==
  /\ stage[r] = "failed"
  /\ Filter(r, 503, TRUE)
  /\ UNCHANGED <<poolVars, server, kind, supplied, context, reqId, header>>

-----------------------------------------------------------------------------
(* Shutting down: enableShutdownHooks and onApplicationShutdown.           *)

Sigterm ==
  /\ server = "listening"
  /\ server' = "closing"
  /\ UNCHANGED <<poolVars, httpVars>>

\* Mutant: the server counts as closed without waiting for its requests.
ServerClosedAtOnce ==
  /\ server = "closing"
  /\ server' = "closed"
  /\ UNCHANGED <<poolVars, httpVars>>

\* The HTTP server has closed once every request in progress is answered.
ServerClosed ==
  /\ server = "closing" /\ \A r \in Requests : ~InProgress(r)
  /\ server' = "closed"
  /\ UNCHANGED <<poolVars, httpVars>>

\* onApplicationShutdown follows the closed server.
EndPool ==
  /\ server = "closed"
  /\ Pool!End
  /\ UNCHANGED <<server, httpVars>>

Exit ==
  /\ server = "closed" /\ Pool!Ended
  /\ server' = "exited"
  /\ UNCHANGED <<poolVars, httpVars>>

-----------------------------------------------------------------------------
HttpStep(r) ==
  \/ Correlate(r) \/ Dispatch(r) \/ RejectBody(r) \/ RejectRoute(r) \/ Live(r)
  \/ Ping(r) \/ Pinged(r) \/ NotReady(r) \/ AnswerNotReady(r)

QueryStep(r) == Pool!PoolStep(r) \/ Pool!QueryStep(r)

PoolEnvironment(cl) ==
  Pool!ServeIdle(cl) \/ Pool!ServeNew(cl) \/ Pool!Break(cl) \/ Pool!BreakIdle(cl)

ShutdownStep == ServerClosed \/ EndPool \/ Exit

Next ==
  \/ \E r \in Requests : Receive(r) \/ LoseContext(r) \/ HttpStep(r)
  \/ /\ \/ \E r \in Requests : QueryStep(r)
        \/ \E cl \in Clients : PoolEnvironment(cl)
     /\ UNCHANGED <<server, httpVars>>
  \/ Sigterm
  \/ ShutdownStep

\* The event loop runs what it can run.  Nothing is assumed of the database.
Fairness == WF_vars(ShutdownStep) /\ \A r \in Requests : WF_vars(HttpStep(r))

Spec == Init /\ [][Next]_vars
FairSpec == Spec /\ Fairness

\* Statements are answered or fail, and connection timeouts fire.
DatabaseFairness ==
  \A r \in Requests : WF_vars(QueryStep(r) /\ UNCHANGED <<server, httpVars>>)

-----------------------------------------------------------------------------
(* Properties.                                                             *)

Answered(r) == stage[r] = "answered"

\* An error body names the id that the response header carries, even when the
\* async context was lost on the way (all-exceptions.filter.ts:19-25).
ErrorIdMatchesHeader ==
  \A r \in Requests : Answered(r) /\ answer[r].status >= 400 /\ header[r] # None
    => answer[r].id = header[r]

\* Readiness says 200 exactly when its own ping came back and 503 otherwise,
\* whatever the pings of other requests did on the shared pool
\* (health.controller.ts:53-67).
ReadyMeansPinged ==
  \A r \in Requests : Answered(r) /\ kind[r] = "ready" =>
    answer[r].status = IF pc[r] = "returned" THEN 200 ELSE 503

\* The pool is ended, and the process gone, only when nobody waits for an
\* answer any more: no request is dropped or refused by a deploy
\* (main.ts:102-105).
PoolOutlivesRequests ==
  ending \/ server = "exited" => \A r \in Requests : ~InProgress(r)

\* Liveness answers whatever the database does (health.controller.ts:25-28).
LiveAnswers ==
  \A r \in Requests : stage[r] = "received" /\ kind[r] = "live" ~> Answered(r)

\* Every request is answered, and a shutdown completes, once the database
\* answers or times out.
EverythingAnswered ==
  DatabaseFairness =>
    /\ \A r \in Requests : stage[r] = "received" ~> Answered(r)
    /\ server = "closing" ~> server = "exited"

\* One line per completed request with its status
\* (request-logging.interceptor.ts:12).
LoggedStatusIsSent ==
  \A r \in Requests : Answered(r) =>
    \A l \in lines : l.event = "http_request" /\ l.req = r => l.status = answer[r].status
=============================================================================
