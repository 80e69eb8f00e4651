--------------------------- MODULE TransactionPool ---------------------------
(***************************************************************************)
(* DatabaseService of the API: concurrent withTransaction and query calls  *)
(* over one bounded connection pool, with connections that break, callers  *)
(* whose work throws or swallows an error, queries awaited from inside a   *)
(* transaction, and the pool being ended by onApplicationShutdown.         *)
(*                                                                         *)
(* The calls are translated from database.service.ts.  pg and PostgreSQL   *)
(* are not in the repository: pool bookkeeping and server sessions are     *)
(* modelled from how the code uses them and are marked external.           *)
(***************************************************************************)
EXTENDS Integers, SequencesExt

CONSTANTS
  Txs,       \* calls of withTransaction
  Queries,   \* calls of query (ping is one, with its error caught)
  Inner,     \* Inner[t]: the query that t's fn awaits on the pool, or None
  Clients,   \* connection slots: DATABASE_POOL_MAX is their number
  Swallows,  \* may an fn catch a statement's error and carry on?
  None

Calls == Txs \cup Queries

ASSUME PoolAssumption ==
  /\ Txs \cap Queries = {}
  /\ Inner \in [Txs -> Queries \cup {None}]
  /\ \A t, u \in Txs : Inner[t] = Inner[u] => t = u \/ Inner[t] = None
  /\ Swallows \in BOOLEAN
  /\ None \notin Calls \cup Clients

VARIABLES
  pc,         \* where each call is
  held,       \* the client each call has checked out, or None
  waiters,    \* calls queueing for a client, oldest first
  client,     \* what the pool does with each slot
  broken,     \* checked-out clients whose connection is gone
  session,    \* transaction state of each client's server session
  writes,     \* transactions with an uncommitted write in each session
  committed,  \* transactions whose write is committed in the database
  wrote,      \* history: transactions whose fn saw its write succeed
  ending      \* has pool.end() been called?

callVars == <<pc, held>>
poolVars == <<waiters, client, broken, ending>>
serverVars == <<session, writes, committed>>
vars == <<callVars, poolVars, serverVars, wrote>>

Settled == {"returned", "thrown"}
TxStages == {"begin", "body", "inner", "commit", "commitAck", "rollback",
             "release", "releaseThrown"}
QueryStages == {"exec", "release", "destroy"}
Holding == {"connecting"} \cup TxStages \cup QueryStages

TypeOK ==
  /\ pc \in [Calls -> {"new", "waiting"} \cup Holding \cup Settled]
  /\ \A t \in Txs : pc[t] \notin QueryStages \ TxStages
  /\ \A q \in Queries : pc[q] \notin TxStages \ QueryStages
  /\ held \in [Calls -> Clients \cup {None}]
  /\ waiters \in Seq(Calls)
  /\ client \in [Clients -> {"absent", "connecting", "busy", "idle"}]
  /\ broken \subseteq Clients
  /\ session \in [Clients -> {"none", "open", "aborted"}]
  /\ writes \in [Clients -> SUBSET Txs]
  /\ committed \subseteq Txs /\ wrote \subseteq Txs
  /\ ending \in BOOLEAN

Init ==
  /\ pc = [c \in Calls |-> "new"]
  /\ held = [c \in Calls |-> None]
  /\ waiters = <<>>
  /\ client = [cl \in Clients |-> "absent"]
  /\ broken = {}
  /\ session = [cl \in Clients |-> "none"]
  /\ writes = [cl \in Clients |-> {}]
  /\ committed = {} /\ wrote = {}
  /\ ending = FALSE

Goto(c, stage) == pc' = [pc EXCEPT ![c] = stage]
Usable(c) == held[c] \notin broken
Parents(q) == {t \in Txs : Inner[t] = q}

-----------------------------------------------------------------------------
(* Getting a client: pool.connect().                                       *)

\* A pool that is ending refuses, otherwise the call joins the queue.  A query
\* that belongs to a transaction's fn is started by it, in AwaitInner.
Connect(c) ==
  /\ pc[c] = "new" /\ Parents(c) = {}
  /\ Goto(c, IF ending THEN "thrown" ELSE "waiting")
  /\ waiters' = IF ending THEN waiters ELSE Append(waiters, c)
  /\ UNCHANGED <<held, client, broken, serverVars, wrote, ending>>

\* Mutant: a query takes the path of a transaction.
FirstStageBegin(c) == "begin"

\* What a call does first once it has its client.
FirstStage(c) == IF c \in Txs THEN "begin" ELSE "exec"

\* The oldest waiter gets an idle client, or a new one while a slot is free.
ServeIdle(cl) ==
  /\ ~ending /\ waiters # <<>> /\ client[cl] = "idle"
  /\ Goto(Head(waiters), FirstStage(Head(waiters)))
  /\ held' = [held EXCEPT ![Head(waiters)] = cl]
  /\ client' = [client EXCEPT ![cl] = "busy"]
  /\ waiters' = Tail(waiters)
  /\ UNCHANGED <<broken, serverVars, wrote, ending>>

ServeNew(cl) ==
  /\ ~ending /\ waiters # <<>> /\ client[cl] = "absent"
  /\ \A other \in Clients : client[other] # "idle"
  /\ Goto(Head(waiters), "connecting")
  /\ held' = [held EXCEPT ![Head(waiters)] = cl]
  /\ client' = [client EXCEPT ![cl] = "connecting"]
  /\ waiters' = Tail(waiters)
  /\ UNCHANGED <<broken, serverVars, wrote, ending>>

ConnectOk(c) ==
  /\ pc[c] = "connecting"
  /\ Goto(c, FirstStage(c))
  /\ client' = [client EXCEPT ![held[c]] = "busy"]
  /\ UNCHANGED <<held, waiters, broken, serverVars, wrote, ending>>

\* Refused, or not connected within DATABASE_CONNECT_TIMEOUT_MS.
ConnectFails(c) ==
  /\ pc[c] = "connecting"
  /\ Goto(c, "thrown")
  /\ client' = [client EXCEPT ![held[c]] = "absent"]
  /\ held' = [held EXCEPT ![c] = None]
  /\ UNCHANGED <<waiters, broken, serverVars, wrote, ending>>

\* Mutant: no connectionTimeoutMillis, a waiter waits as long as it takes.
WaitTimeoutNever(c) == FALSE

\* DATABASE_CONNECT_TIMEOUT_MS also bounds the wait in the queue.
WaitTimeout(c) ==
  /\ pc[c] = "waiting"
  /\ Goto(c, "thrown")
  /\ \E i \in 1..Len(waiters) : waiters[i] = c /\ waiters' = RemoveAt(waiters, i)
  /\ UNCHANGED <<held, client, broken, serverVars, wrote, ending>>

\* client.release(): a client that cannot be used, or that comes back while the
\* pool is ending, is removed; any other goes back to the idle ones.
Release(c, destroy) ==
  LET gone == destroy \/ ~Usable(c) \/ ending
  IN /\ client' = [client EXCEPT ![held[c]] = IF gone THEN "absent" ELSE "idle"]
     /\ broken' = broken \ {held[c]}
     /\ session' = [session EXCEPT ![held[c]] = IF gone THEN "none" ELSE @]
     /\ writes' = [writes EXCEPT ![held[c]] = IF gone THEN {} ELSE @]
     /\ held' = [held EXCEPT ![c] = None]

-----------------------------------------------------------------------------
(* withTransaction.                                                        *)

\* BEGIN
Begin(c) ==
  /\ pc[c] = "begin"
  /\ Goto(c, IF Usable(c) THEN "body" ELSE "rollback")
  /\ session' = IF Usable(c) THEN [session EXCEPT ![held[c]] = "open"] ELSE session
  /\ UNCHANGED <<held, poolVars, writes, committed, wrote>>

\* A write of fn succeeds; one write stands for all of them.
Write(c) ==
  /\ pc[c] = "body" /\ c \notin wrote
  /\ Usable(c) /\ session[held[c]] = "open"
  /\ writes' = [writes EXCEPT ![held[c]] = @ \cup {c}]
  /\ wrote' = wrote \cup {c}
  /\ UNCHANGED <<callVars, poolVars, session, committed>>

\* A statement of fn fails: PostgreSQL aborts the transaction.  The error
\* leaves fn, or fn catches it.
StatementFails(c) ==
  /\ pc[c] = "body" /\ Usable(c) /\ session[held[c]] = "open"
  /\ session' = [session EXCEPT ![held[c]] = "aborted"]
  /\ writes' = [writes EXCEPT ![held[c]] = {}]
  /\ \/ Goto(c, "rollback")
     \/ Swallows /\ UNCHANGED pc
  /\ UNCHANGED <<held, poolVars, committed, wrote>>

\* fn awaits a query on the pool while it holds its own client.
AwaitInner(c) ==
  /\ pc[c] = "body" /\ Inner[c] # None /\ pc[Inner[c]] = "new"
  /\ pc' = [pc EXCEPT ![c] = "inner",
                      ![Inner[c]] = IF ending THEN "thrown" ELSE "waiting"]
  /\ waiters' = IF ending THEN waiters ELSE Append(waiters, Inner[c])
  /\ UNCHANGED <<held, client, broken, serverVars, wrote, ending>>

InnerSettles(c) ==
  /\ pc[c] = "inner" /\ pc[Inner[c]] \in Settled
  /\ Goto(c, IF pc[Inner[c]] = "returned" THEN "body" ELSE "rollback")
  /\ UNCHANGED <<held, poolVars, serverVars, wrote>>

BodyThrows(c) ==
  /\ pc[c] = "body"
  /\ Goto(c, "rollback")
  /\ UNCHANGED <<held, poolVars, serverVars, wrote>>

BodyReturns(c) ==
  /\ pc[c] = "body"
  /\ Goto(c, "commit")
  /\ UNCHANGED <<held, poolVars, serverVars, wrote>>

\* Mutant: an error of COMMIT is caught and not rethrown.
CommitErrorSwallowed(c) ==
  /\ pc[c] = "commit"
  /\ IF Usable(c)
     THEN /\ Goto(c, "commitAck")
          /\ committed' = committed \cup
               (IF session[held[c]] = "open" THEN writes[held[c]] ELSE {})
          /\ session' = [session EXCEPT ![held[c]] = "none"]
          /\ writes' = [writes EXCEPT ![held[c]] = {}]
     ELSE /\ Goto(c, "release")
          /\ UNCHANGED serverVars
  /\ UNCHANGED <<held, poolVars, wrote>>

\* The server executes COMMIT.  In an aborted transaction that is a rollback,
\* which the driver reports as a success too.
Commit(c) ==
  /\ pc[c] = "commit"
  /\ IF Usable(c)
     THEN /\ Goto(c, "commitAck")
          /\ committed' = committed \cup
               (IF session[held[c]] = "open" THEN writes[held[c]] ELSE {})
          /\ session' = [session EXCEPT ![held[c]] = "none"]
          /\ writes' = [writes EXCEPT ![held[c]] = {}]
     ELSE /\ Goto(c, "rollback")
          /\ UNCHANGED serverVars
  /\ UNCHANGED <<held, poolVars, wrote>>

\* Mutant: something that follows COMMIT in the try block throws.
CommitAckThenThrows(c) ==
  /\ pc[c] = "commitAck"
  /\ Goto(c, "release") \/ Goto(c, "rollback")
  /\ UNCHANGED <<held, poolVars, serverVars, wrote>>

\* The answer to COMMIT arrives, unless the connection broke in between.
CommitAck(c) ==
  /\ pc[c] = "commitAck"
  /\ Goto(c, IF Usable(c) THEN "release" ELSE "rollback")
  /\ UNCHANGED <<held, poolVars, serverVars, wrote>>

\* Mutant: the catch block does not roll back.
RollbackSkipped(c) ==
  /\ pc[c] = "rollback"
  /\ Goto(c, "releaseThrown")
  /\ UNCHANGED <<held, poolVars, serverVars, wrote>>

\* ROLLBACK; on a broken connection it rejects, which the inner catch swallows.
Rollback(c) ==
  /\ pc[c] = "rollback"
  /\ Goto(c, "releaseThrown")
  /\ IF Usable(c)
     THEN /\ session' = [session EXCEPT ![held[c]] = "none"]
          /\ writes' = [writes EXCEPT ![held[c]] = {}]
     ELSE UNCHANGED <<session, writes>>
  /\ UNCHANGED <<held, poolVars, committed, wrote>>

\* Mutant: release() only after a return, not in a finally block.
TxReleaseNotFinally(c) ==
  /\ c \in Txs /\ pc[c] \in {"release", "releaseThrown"}
  /\ IF pc[c] = "release" THEN Release(c, FALSE)
     ELSE UNCHANGED <<client, broken, session, writes, held>>
  /\ Goto(c, IF pc[c] = "release" THEN "returned" ELSE "thrown")
  /\ UNCHANGED <<waiters, ending, committed, wrote>>

\* The finally block, on both paths.
TxRelease(c) ==
  /\ c \in Txs /\ pc[c] \in {"release", "releaseThrown"}
  /\ Release(c, FALSE)
  /\ Goto(c, IF pc[c] = "release" THEN "returned" ELSE "thrown")
  /\ UNCHANGED <<waiters, ending, committed, wrote>>

-----------------------------------------------------------------------------
(* query, by which ping asks its select 1.                                 *)

\* The statement succeeds or fails; in autocommit neither leaves a transaction.
Exec(c) ==
  /\ pc[c] = "exec"
  /\ \/ Usable(c) /\ Goto(c, "release")
     \/ Goto(c, "destroy")
  /\ UNCHANGED <<held, poolVars, serverVars, wrote>>

\* pool.query releases its client, with the error if there was one.
QueryRelease(c) ==
  /\ c \in Queries /\ pc[c] \in {"release", "destroy"}
  /\ Release(c, pc[c] = "destroy")
  /\ Goto(c, IF pc[c] = "release" THEN "returned" ELSE "thrown")
  /\ UNCHANGED <<waiters, ending, committed, wrote>>

-----------------------------------------------------------------------------
(* The environment: connections break, the application shuts down.         *)

\* The connection of a checked-out client is lost; the server rolls its
\* session back, unless it has just committed it.
Break(cl) ==
  /\ client[cl] = "busy" /\ cl \notin broken
  /\ broken' = broken \cup {cl}
  /\ session' = [session EXCEPT ![cl] = "none"]
  /\ writes' = [writes EXCEPT ![cl] = {}]
  /\ UNCHANGED <<callVars, waiters, client, committed, wrote, ending>>

\* The pool's error event of an idle client, which the constructor's listener
\* logs; the pool drops the client.
BreakIdle(cl) ==
  /\ client[cl] = "idle"
  /\ client' = [client EXCEPT ![cl] = "absent"]
  /\ session' = [session EXCEPT ![cl] = "none"]
  /\ writes' = [writes EXCEPT ![cl] = {}]
  /\ UNCHANGED <<callVars, waiters, broken, ending, committed, wrote>>

\* onApplicationShutdown: idle clients go at once, the others as they return.
End ==
  /\ ~ending
  /\ ending' = TRUE
  /\ client' = [cl \in Clients |-> IF client[cl] = "idle" THEN "absent" ELSE client[cl]]
  /\ session' = [cl \in Clients |-> IF client[cl] = "idle" THEN "none" ELSE session[cl]]
  /\ writes' = [cl \in Clients |-> IF client[cl] = "idle" THEN {} ELSE writes[cl]]
  /\ UNCHANGED <<callVars, waiters, broken, committed, wrote>>

\* pool.end() resolves.
Ended == ending /\ \A cl \in Clients : client[cl] = "absent"

-----------------------------------------------------------------------------
TxStep(c) ==
  \/ Begin(c) \/ Write(c) \/ StatementFails(c) \/ AwaitInner(c) \/ InnerSettles(c)
  \/ BodyThrows(c) \/ BodyReturns(c) \/ Commit(c) \/ CommitAck(c)
  \/ Rollback(c) \/ TxRelease(c)

QueryStep(c) == Exec(c) \/ QueryRelease(c)

PoolStep(c) == ConnectOk(c) \/ ConnectFails(c) \/ WaitTimeout(c)

Next ==
  \/ \E c \in Calls : Connect(c) \/ PoolStep(c)
  \/ \E c \in Txs : TxStep(c)
  \/ \E c \in Queries : QueryStep(c)
  \/ \E cl \in Clients : ServeIdle(cl) \/ ServeNew(cl) \/ Break(cl) \/ BreakIdle(cl)
  \/ End

Spec == Init /\ [][Next]_vars

\* A call that can take a step takes one: the event loop runs, timers fire, a
\* statement is answered or its connection breaks, and fn ends.  Nothing forces
\* a new call, a broken connection or a shutdown.
Fairness ==
  /\ \A c \in Calls : WF_vars(PoolStep(c))
  /\ \A c \in Txs : WF_vars(TxStep(c))
  /\ \A c \in Queries : WF_vars(QueryStep(c))

FairSpec == Spec /\ Fairness

-----------------------------------------------------------------------------
(* Safety.                                                                 *)

\* A checked-out client belongs to exactly one call, which is still running,
\* and a call in possession of one has really checked it out: no client leaks
\* and none is shared, on whatever path the calls end (finally, 73-75).
ClientsAccountedFor ==
  /\ \A cl \in Clients :
       client[cl] \in {"connecting", "busy"} <=> \E c \in Calls : held[c] = cl
  /\ \A c, d \in Calls : held[c] = held[d] => c = d \/ held[c] = None
  /\ \A c \in Calls : held[c] # None <=> pc[c] \in Holding

\* No client goes back to the pool with a transaction in progress, so no call
\* ever runs inside, or commits, the transaction of another (catch, 66-72).
IdleClientsAreClean ==
  \A cl \in Clients : client[cl] \in {"absent", "connecting", "idle"} =>
    session[cl] = "none" /\ writes[cl] = {}

\* withTransaction commits on return: a write that succeeded in an fn that
\* returned is in the database (database.service.ts:55).
CommitsOnReturn == \A t \in Txs \cap wrote : pc[t] = "returned" => t \in committed

\* A write becomes durable only when its own transaction commits it: no call
\* commits what another one left behind on the client (lines 64 and 66-72).
CommittedOnlyByOwner ==
  [][\A t \in committed' \ committed :
       pc[t] = "commit" /\ pc'[t] = "commitAck" /\ t \in wrote]_vars

\* Rolls back on throw, the other half of line 55, as far as the network lets
\* it: a committed transaction takes the error path only if its connection
\* broke under the answer to COMMIT.
ThrowAfterCommitOnlyInDoubt ==
  [][\A t \in committed : pc[t] # "rollback" /\ pc'[t] = "rollback"
       => pc[t] = "commitAck" /\ held[t] \in broken]_vars

-----------------------------------------------------------------------------
(* Liveness.                                                               *)

\* Every call returns or throws, also when every client is held by a
\* transaction that is itself waiting for a second one.
EveryCallSettles == \A c \in Calls : pc[c] = "waiting" ~> pc[c] \in Settled

\* Shutdown completes: pool.end() resolves once the calls in progress have
\* given their clients back.
ShutdownCompletes == ending ~> Ended
=============================================================================
