--------------------------- MODULE HealthJobQueue ---------------------------
(***************************************************************************)
(* The path of a foundation.health job: install-queue, enqueue-health and  *)
(* worker processes around one pg-boss queue in PostgreSQL, under crashes, *)
(* restarts, deploys with another JOB_RETRY_LIMIT, job expiry and lost     *)
(* acknowledgements.                                                       *)
(*                                                                         *)
(* The processes are translated from apps/worker/src.  pg-boss is not in   *)
(* the repository: the rows of its tables and the statements that change   *)
(* them are modelled from how the code uses it and are marked external.    *)
(* Delays and backoff are abstracted: a job that may be retried may be     *)
(* fetched at any later moment, an active job may expire at any moment.    *)
(***************************************************************************)
EXTENDS Integers, FiniteSets

CONSTANTS
  Workers,            \* worker processes, restarted under the same name
  Enqueuers,          \* runs of enqueue-health, each sending one job
  Installers,         \* runs of install-queue
  RetryLimits,        \* JOB_RETRY_LIMIT values found in the environments
  FailUntil,          \* failUntilAttempt arguments; 0 is the absent argument
  MetadataDelivered,  \* does pg-boss hand the retry count to the handler?
  NoJob,
  MaxStops,           \* bound on crashes and SIGTERMs
  MaxLost             \* bound on acknowledgements that fail to reach the database

Jobs == Enqueuers    \* a job is named after the run that sends it
Procs == Workers \cup Enqueuers \cup Installers

ASSUME ConstantsAssumption ==
  /\ RetryLimits \subseteq 0..20 /\ RetryLimits # {}
  /\ FailUntil \subseteq Nat
  /\ MetadataDelivered \in BOOLEAN
  /\ NoJob \notin Jobs
  /\ MaxStops \in Nat /\ MaxLost \in Nat
  /\ Workers \cap Enqueuers = {} /\ Workers \cap Installers = {}
  /\ Enqueuers \cap Installers = {}

VARIABLES
  schema,       \* the pgboss schema: absent or current
  queues,       \* the queues that exist in the database
  policy,       \* retry limit stored with the job queue, NoPolicy before it exists
  status,       \* state column of each job's row
  retries,      \* retry_count column of each job's row
  deadCopies,   \* rows each job has in the dead-letter queue
  pc,           \* how far main() of each process has got
  limit,        \* env.JOB_RETRY_LIMIT of each process
  argv,         \* failUntilAttempt argument of each enqueue-health run
  cur,          \* what each worker's polling loop is doing
  completedLog, \* jobs with a job_completed line
  deadLog,      \* jobs with a job_dead line
  faulted,      \* history: jobs whose handler was cut off by a crash or a lost ack
  stops,
  lost

dbVars == <<schema, queues, policy, status, retries, deadCopies>>
logVars == <<completedLog, deadLog>>
vars == <<dbVars, pc, limit, argv, cur, logVars, faulted, stops, lost>>

DeadLetter == "foundation.health.dead"
HealthQueue == "foundation.health"
NoPolicy == -1

Polling == [stage |-> "polling", job |-> NoJob, attempt |-> 0]
Idle == [stage |-> "idle", job |-> NoJob, attempt |-> 0]
InFlight == {"handling", "ok", "err"}

Up(p) == pc[p] \notin {"down", "exited"}
Handles(w, j) == cur[w].stage \in InFlight /\ cur[w].job = j

TypeOK ==
  /\ schema \in {"absent", "current"}
  /\ queues \subseteq {DeadLetter, HealthQueue}
  /\ policy \in RetryLimits \cup {NoPolicy}
  /\ status \in [Jobs -> {"none", "created", "active", "retry", "completed", "failed"}]
  /\ retries \in [Jobs -> Nat]
  /\ deadCopies \in [Jobs -> Nat]
  /\ pc \in [Procs -> {"down", "started", "deadReady", "queueReady", "working",
                       "draining", "sent", "exited"}]
  /\ limit \in [Procs -> RetryLimits]
  /\ argv \in [Enqueuers -> FailUntil]
  /\ cur \in [Workers -> [stage : {"idle", "polling", "handling", "ok", "err"},
                          job : Jobs \cup {NoJob}, attempt : Nat]]
  /\ \A w \in Workers : cur[w].stage \in InFlight <=> cur[w].job # NoJob
  /\ completedLog \subseteq Jobs /\ deadLog \subseteq Jobs
  /\ faulted \subseteq Jobs
  /\ stops \in 0..MaxStops /\ lost \in 0..MaxLost

Init ==
  /\ schema = "absent" /\ queues = {} /\ policy = NoPolicy
  /\ status = [j \in Jobs |-> "none"]
  /\ retries = [j \in Jobs |-> 0]
  /\ deadCopies = [j \in Jobs |-> 0]
  /\ pc = [p \in Procs |-> "down"]
  /\ limit = [p \in Procs |-> CHOOSE l \in RetryLimits : TRUE]
  /\ argv \in [Enqueuers -> FailUntil]
  /\ cur = [w \in Workers |-> Idle]
  /\ completedLog = {} /\ deadLog = {} /\ faulted = {}
  /\ stops = 0 /\ lost = 0

-----------------------------------------------------------------------------
(* pg-boss: the statements behind createQueue, fetch, complete and fail.   *)

\* createQueue leaves a queue that exists alone: the first policy stays.
StoreHealthQueue(retryLimit) ==
  /\ queues' = queues \cup {HealthQueue}
  /\ policy' = IF HealthQueue \in queues THEN policy ELSE retryLimit

\* Only a row in state active completes.
CompleteRow(j) ==
  status' = [status EXCEPT ![j] = IF @ = "active" THEN "completed" ELSE @]

\* Mutant: a settled row fails like any other.
FailRowAlways(j) ==
  LET dies == retries[j] >= policy
  IN /\ status' = [status EXCEPT ![j] = IF dies THEN "failed" ELSE "retry"]
     /\ deadCopies' = [deadCopies EXCEPT ![j] = IF dies THEN @ + 1 ELSE @]

\* Mutant: one try too many before the job dies.
FailRowOffByOne(j) ==
  LET open == status[j] \in {"created", "retry", "active"}
      dies == open /\ retries[j] > policy
  IN /\ status' = [status EXCEPT ![j] = IF dies THEN "failed"
                                        ELSE IF open THEN "retry" ELSE @]
     /\ deadCopies' = [deadCopies EXCEPT ![j] = IF dies THEN @ + 1 ELSE @]

\* A failed row goes back to retry while it has retries left, otherwise its
\* payload is copied to the dead-letter queue.  Settled rows are left alone.
FailRow(j) ==
  LET open == status[j] \in {"created", "retry", "active"}
      dies == open /\ retries[j] >= policy
  IN /\ status' = [status EXCEPT ![j] = IF dies THEN "failed"
                                        ELSE IF open THEN "retry" ELSE @]
     /\ deadCopies' = [deadCopies EXCEPT ![j] = IF dies THEN @ + 1 ELSE @]

-----------------------------------------------------------------------------
(* Start-up, the same three awaits in all three programs.                  *)

\* boss.start() with the environment of this deployment.  Only migration_owner
\* (install-queue) may run the DDL; the others find the schema installed or die.
Start(p) ==
  /\ pc[p] = "down"
  /\ p \in Installers \/ schema = "current"
  /\ schema' = "current"
  /\ \E l \in RetryLimits : limit' = [limit EXCEPT ![p] = l]
  /\ pc' = [pc EXCEPT ![p] = "started"]
  /\ UNCHANGED <<queues, policy, status, retries, deadCopies, argv, cur, logVars, faulted, stops, lost>>

\* Mutant: the job queue is declared first, the dead-letter queue after it.
CreateHealthQueueFirst(p) ==
  /\ pc[p] = "started"
  /\ StoreHealthQueue(limit[p])
  /\ pc' = [pc EXCEPT ![p] = "queueReady"]
  /\ UNCHANGED <<schema, status, retries, deadCopies, limit, argv, cur, logVars,
                 faulted, stops, lost>>

CreateDeadLetterQueue(p) ==
  /\ pc[p] = "started"
  /\ queues' = queues \cup {DeadLetter}
  /\ pc' = [pc EXCEPT ![p] = "deadReady"]
  /\ UNCHANGED <<schema, policy, status, retries, deadCopies, limit, argv, cur, logVars,
                 faulted, stops, lost>>

CreateHealthQueue(p) ==
  /\ pc[p] = "deadReady"
  /\ StoreHealthQueue(limit[p])
  /\ pc' = [pc EXCEPT ![p] = "queueReady"]
  /\ UNCHANGED <<schema, status, retries, deadCopies, limit, argv, cur, logVars,
                 faulted, stops, lost>>

\* install-queue prints queue_installed and stops.
InstallerDone(i) ==
  /\ pc[i] = "queueReady"
  /\ pc' = [pc EXCEPT ![i] = "exited"]
  /\ UNCHANGED <<dbVars, limit, argv, cur, logVars, faulted, stops, lost>>

-----------------------------------------------------------------------------
(* enqueue-health.                                                         *)

Send(e) ==
  /\ pc[e] = "queueReady"
  /\ status' = [status EXCEPT ![e] = "created"]
  /\ pc' = [pc EXCEPT ![e] = "sent"]
  /\ UNCHANGED <<schema, queues, policy, retries, deadCopies, limit, argv, cur, logVars,
                 faulted, stops, lost>>

\* Prints enqueued: true and stops its pg-boss.
EnqueuerDone(e) ==
  /\ pc[e] = "sent"
  /\ pc' = [pc EXCEPT ![e] = "exited"]
  /\ UNCHANGED <<dbVars, limit, argv, cur, logVars, faulted, stops, lost>>

-----------------------------------------------------------------------------
(* The worker.                                                             *)

\* boss.work(), the startup line, the heartbeat and the signal handlers.
Work(w) ==
  /\ pc[w] = "queueReady"
  /\ pc' = [pc EXCEPT ![w] = "working"]
  /\ cur' = [cur EXCEPT ![w] = Polling]
  /\ UNCHANGED <<dbVars, limit, argv, logVars, faulted, stops, lost>>

\* main.ts:57-59: a missing or zero retryCount is the first attempt.
Attempt(retryCount) ==
  IF MetadataDelivered /\ retryCount # 0 THEN retryCount + 1 ELSE 1

\* The poll finds a job.  A draining worker may still receive the answer of the
\* poll that was under way when the signal arrived.
Fetch(w, j) ==
  /\ cur[w].stage = "polling"
  /\ status[j] \in {"created", "retry"}
  /\ LET retryCount == IF status[j] = "retry" THEN retries[j] + 1 ELSE retries[j]
     IN /\ retries' = [retries EXCEPT ![j] = retryCount]
        /\ cur' = [cur EXCEPT ![w] = [stage |-> "handling", job |-> j,
                                      attempt |-> Attempt(retryCount)]]
  /\ status' = [status EXCEPT ![j] = "active"]
  /\ faulted' = faulted \ {j}
  /\ UNCHANGED <<schema, queues, policy, deadCopies, pc, limit, argv, logVars, stops, lost>>

\* handleFoundationHealth throws while the attempt is below failUntilAttempt.
HandlerThrows(j, attempt) == argv[j] # 0 /\ attempt < argv[j]

\* Mutant: the limit is taken for the number of tries.
WillRetryOffByOne(w, attempt) == attempt < limit[w]

\* The log line of a failed attempt, main.ts:74-90.
WillRetry(w, attempt) == attempt <= limit[w]

\* The handler runs to its end in one turn of the event loop and logs its
\* result; the throw reaches pg-boss as a rejected callback.
Handle(w) ==
  LET j == cur[w].job
      throws == HandlerThrows(j, cur[w].attempt)
  IN /\ cur[w].stage = "handling"
     /\ cur' = [cur EXCEPT ![w].stage = IF throws THEN "err" ELSE "ok"]
     /\ completedLog' = IF throws THEN completedLog ELSE completedLog \cup {j}
     /\ deadLog' = IF throws /\ ~WillRetry(w, cur[w].attempt)
                   THEN deadLog \cup {j} ELSE deadLog
     /\ UNCHANGED <<dbVars, pc, limit, argv, faulted, stops, lost>>

\* Mutant: the finished job is not taken out of the loop's state.
NextPollKeepsJob(w) ==
  [cur[w] EXCEPT !.stage = IF pc[w] = "working" THEN "polling" ELSE "idle"]

\* The loop goes on after a job: it polls again unless it is being stopped.
NextPoll(w) == IF pc[w] = "working" THEN Polling ELSE Idle

\* Mutant: main.ts:91 does not rethrow, so a failed handler also resolves.
AckCompleteSwallowed(w) ==
  /\ cur[w].stage \in {"ok", "err"}
  /\ CompleteRow(cur[w].job)
  /\ cur' = [cur EXCEPT ![w] = NextPoll(w)]
  /\ UNCHANGED <<schema, queues, policy, retries, deadCopies, pc, limit, argv, logVars,
                 faulted, stops, lost>>

AckComplete(w) ==
  /\ cur[w].stage = "ok"
  /\ CompleteRow(cur[w].job)
  /\ cur' = [cur EXCEPT ![w] = NextPoll(w)]
  /\ UNCHANGED <<schema, queues, policy, retries, deadCopies, pc, limit, argv, logVars,
                 faulted, stops, lost>>

AckFail(w) ==
  /\ cur[w].stage = "err"
  /\ FailRow(cur[w].job)
  /\ cur' = [cur EXCEPT ![w] = NextPoll(w)]
  /\ UNCHANGED <<schema, queues, policy, retries, pc, limit, argv, logVars, faulted, stops, lost>>

\* complete() rejects without having reached the database: pg-boss then fails
\* the job whose handler succeeded.
CompleteRejected(w) ==
  /\ cur[w].stage = "ok" /\ lost < MaxLost
  /\ cur' = [cur EXCEPT ![w].stage = "err"]
  /\ lost' = lost + 1
  /\ UNCHANGED <<dbVars, pc, limit, argv, logVars, faulted, stops>>

\* fail() rejects too: boss.on('error') logs it and the loop goes on.
FailRejected(w) ==
  /\ cur[w].stage = "err" /\ lost < MaxLost
  /\ cur' = [cur EXCEPT ![w] = NextPoll(w)]
  /\ faulted' = faulted \cup {cur[w].job}
  /\ lost' = lost + 1
  /\ UNCHANGED <<dbVars, pc, limit, argv, logVars, stops>>

-----------------------------------------------------------------------------
(* Stopping, crashing, expiring.                                           *)

\* SIGTERM or SIGINT.  A second signal finds shuttingDown set and does nothing.
Shutdown(w) ==
  /\ pc[w] = "working" /\ stops < MaxStops
  /\ pc' = [pc EXCEPT ![w] = "draining"]
  /\ stops' = stops + 1
  /\ UNCHANGED <<dbVars, limit, argv, cur, logVars, faulted, lost>>

\* The poll under way when the signal arrived finds nothing.
PollEmpty(w) ==
  /\ pc[w] = "draining" /\ cur[w].stage = "polling"
  /\ cur' = [cur EXCEPT ![w] = Idle]
  /\ UNCHANGED <<dbVars, pc, limit, argv, logVars, faulted, stops, lost>>

\* Mutant: stop without graceful, the process leaves whatever it is doing.
ExitAtOnce(w) ==
  /\ pc[w] = "draining"
  /\ pc' = [pc EXCEPT ![w] = "down"]
  /\ cur' = [cur EXCEPT ![w] = Idle]
  /\ UNCHANGED <<dbVars, limit, argv, logVars, faulted, stops, lost>>

\* boss.stop() resolves once the loop is idle: shutdown_complete, exit code 0.
Exit(w) ==
  /\ pc[w] = "draining" /\ cur[w].stage = "idle"
  /\ pc' = [pc EXCEPT ![w] = "down"]
  /\ UNCHANGED <<dbVars, limit, argv, cur, logVars, faulted, stops, lost>>

\* The graceful wait of boss.stop() runs out: jobs in flight are failed.
DrainTimeout(w) ==
  /\ pc[w] = "draining" /\ cur[w].stage \in InFlight
  /\ FailRow(cur[w].job)
  /\ cur' = [cur EXCEPT ![w] = Idle]
  /\ pc' = [pc EXCEPT ![w] = "down"]
  /\ UNCHANGED <<schema, queues, policy, retries, limit, argv, logVars, faulted, stops, lost>>

\* A process dies at any await; also main() rejecting, and shutdown_failed.
Crash(p) ==
  /\ Up(p) /\ stops < MaxStops
  /\ stops' = stops + 1
  /\ pc' = [pc EXCEPT ![p] = IF p \in Enqueuers THEN "exited" ELSE "down"]
  /\ cur' = IF p \in Workers THEN [cur EXCEPT ![p] = Idle] ELSE cur
  /\ faulted' = faulted \cup {j \in Jobs : p \in Workers /\ Handles(p, j)}
  /\ UNCHANGED <<dbVars, limit, argv, logVars, lost>>

\* Mutant: only jobs of live workers expire, those of a crashed one never do.
ExpireHandledOnly(j) ==
  /\ \E w \in Workers : Up(w) /\ Handles(w, j)
  /\ status[j] = "active"
  /\ FailRow(j)
  /\ UNCHANGED <<schema, queues, policy, retries, pc, limit, argv, cur, logVars,
                 faulted, stops, lost>>

\* The maintenance of any started pg-boss instance fails a job that has been
\* active for longer than expireInSeconds, whether or not its worker still lives.
Expire(j) ==
  /\ \E p \in Procs : Up(p)
  /\ status[j] = "active"
  /\ FailRow(j)
  /\ UNCHANGED <<schema, queues, policy, retries, pc, limit, argv, cur, logVars,
                 faulted, stops, lost>>

-----------------------------------------------------------------------------
WorkerStep(w) ==
  \/ Work(w) \/ Handle(w) \/ AckComplete(w) \/ AckFail(w)
  \/ PollEmpty(w) \/ Exit(w)
  \/ \E j \in Jobs : Fetch(w, j)

WorkerFault(w) ==
  CompleteRejected(w) \/ FailRejected(w) \/ Shutdown(w) \/ DrainTimeout(w)

BootStep(p) == Start(p) \/ CreateDeadLetterQueue(p) \/ CreateHealthQueue(p)

Next ==
  \/ \E p \in Procs : BootStep(p) \/ Crash(p)
  \/ \E i \in Installers : InstallerDone(i)
  \/ \E e \in Enqueuers : Send(e) \/ EnqueuerDone(e)
  \/ \E w \in Workers : WorkerStep(w) \/ WorkerFault(w)
  \/ \E j \in Jobs : Expire(j)

Spec == Init /\ [][Next]_vars

\* A live worker's loop and the maintenance timers keep running, and the
\* deployment restarts a worker that went down.  Nobody has to run the
\* command-line programs to their end, and no fault has to happen.
Fairness ==
  /\ \A w \in Workers : WF_vars(BootStep(w)) /\ WF_vars(WorkerStep(w))
  /\ \A j \in Jobs : WF_vars(Expire(j))

FairSpec == Spec /\ Fairness

-----------------------------------------------------------------------------
(* Safety.                                                                 *)

\* The job queue never exists without the dead-letter queue it refers to,
\* whatever process crashes between the two createQueue calls (main.ts:34-38).
DeadLetterQueueFirst == HealthQueue \in queues => DeadLetter \in queues

\* A job has a copy in the dead-letter queue exactly when it is failed, and
\* then one copy, however many stale failures and expiries hit its row
\* (foundation-health.job.ts:16-22).
DeadLetterExact ==
  \A j \in Jobs : deadCopies[j] = IF status[j] = "failed" THEN 1 ELSE 0

\* A job completes only if an attempt it was really given reached the
\* configured one: no thrown attempt, late acknowledgement or expiry can make
\* a job count as completed (main.ts:69-92).
CompletedHonestly ==
  \A j \in Jobs : status[j] = "completed" =>
    /\ j \in completedLog
    /\ argv[j] <= Attempt(retries[j])

\* An active job that no live worker holds was cut off by a crash or a lost
\* acknowledgement: a graceful shutdown never abandons one (main.ts:133-134).
NoSilentAbandon ==
  \A j \in Jobs :
    status[j] = "active" /\ (\A w \in Workers : ~Handles(w, j)) => j \in faulted

\* A job with a job_dead line never completes afterwards: the line means that
\* the work is lost (main.ts:76-79).  Needs one JOB_RETRY_LIMIT everywhere.
DeadLogIsFinal == \A j \in deadLog : status[j] \in {"active", "failed"}

\* Every job that ran out of retries, and that no handler still holds, has a
\* job_dead line, the only signal of lost work according to main.ts:76-79.
ExhaustedIsLogged ==
  \A j \in Jobs :
    status[j] = "failed" /\ (\A w \in Workers : ~Handles(w, j)) => j \in deadLog

\* The attempt number a handler is given counts the times its job was fetched
\* (main.ts:56).
AttemptCountsFetches ==
  [][\A w \in Workers :
       cur'[w].stage = "handling" /\ cur[w].stage # "handling"
         => cur'[w].attempt = retries'[cur'[w].job] + 1]_vars

-----------------------------------------------------------------------------
(* Liveness and refinement.                                                *)

\* Every job in the queue is in the end completed or dead-lettered, through
\* crashes, shutdowns, lost acknowledgements and expiries.
EveryJobSettles ==
  \A j \in Jobs : status[j] # "none" ~> status[j] \in {"completed", "failed"}

outcome == [j \in Jobs |->
  CASE status[j] = "none" -> "none"
    [] status[j] \in {"created", "active", "retry"} -> "pending"
    [] status[j] = "completed" -> "done"
    [] status[j] = "failed" -> "dead"]

tries == [j \in Jobs |->
  IF status[j] \in {"none", "created"} THEN 0 ELSE retries[j] + 1]

Promise == INSTANCE ReliableWork
  WITH Limits <- RetryLimits, parked <- deadCopies, allowance <- policy

\* The queue and its processes implement ReliableWork: at most retry limit + 1
\* tries, one final outcome, dead only after the last try, one dead copy.
ImplementsReliableWork == Promise!Spec
=============================================================================
