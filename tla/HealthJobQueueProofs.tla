------------------------ MODULE HealthJobQueueProofs ------------------------
(***************************************************************************)
(* Safety of HealthJobQueue for every set of processes, every retry limit  *)
(* and every number of faults: the type invariant, the queue invariants,   *)
(* the refinement of ReliableWork, that no job is abandoned, and, under    *)
(* their assumptions, that a dead-letter log line is final and that the    *)
(* attempt number counts the fetches.                                      *)
(***************************************************************************)
EXTENDS HealthJobQueue, TLAPS

\* What the columns of a job's row have to do with each other.
RowInv ==
  \A j \in Jobs :
    /\ status[j] \in {"none", "created"} => retries[j] = 0
    /\ status[j] # "none" => policy # NoPolicy /\ retries[j] <= policy
    /\ status[j] = "retry" => retries[j] < policy
    /\ status[j] = "failed" => retries[j] = policy

\* What a process that has come this far knows of the queues, and an enqueuer
\* of its job.
BootInv ==
  /\ HealthQueue \in queues <=> policy # NoPolicy
  /\ \A p \in Procs :
       /\ pc[p] = "deadReady" => DeadLetter \in queues
       /\ pc[p] = "queueReady" => HealthQueue \in queues
  /\ \A e \in Enqueuers :
       pc[e] \in {"down", "started", "deadReady", "queueReady"} => status[e] = "none"

\* What a worker holding a job knows of it.
HandlerInv ==
  \A w \in Workers :
    /\ cur[w].stage \in InFlight =>
         /\ status[cur[w].job] \notin {"none", "created"}
         /\ cur[w].attempt <= Attempt(retries[cur[w].job])
    /\ cur[w].stage = "ok" =>
         cur[w].job \in completedLog /\ argv[cur[w].job] <= cur[w].attempt

IInv ==
  /\ TypeOK /\ RowInv /\ BootInv /\ HandlerInv
  /\ DeadLetterQueueFirst /\ DeadLetterExact /\ CompletedHonestly

-----------------------------------------------------------------------------
LEMMA TypeInit == Init => TypeOK
<1> SUFFICES ASSUME Init PROVE TypeOK
  OBVIOUS
<1> USE ConstantsAssumption DEF Init
<1>1. cur \in [Workers -> [stage : {"idle", "polling", "handling", "ok", "err"},
                          job : Jobs \cup {NoJob}, attempt : Nat]]
  BY DEF Idle
<1>2. \A w \in Workers : cur[w].stage \in InFlight <=> cur[w].job # NoJob
  BY DEF Idle, InFlight
<1> QED
  BY <1>1, <1>2 DEF TypeOK, NoPolicy

LEMMA TypeStep == TypeOK /\ [Next]_vars => TypeOK'
<1> SUFFICES ASSUME TypeOK, [Next]_vars PROVE TypeOK'
  OBVIOUS
<1> USE ConstantsAssumption DEF TypeOK, dbVars, logVars, Procs, Jobs, InFlight
<1>1. ASSUME NEW p \in Procs, Start(p) PROVE TypeOK'
  BY <1>1 DEF Start
<1>2. ASSUME NEW p \in Procs, CreateDeadLetterQueue(p) PROVE TypeOK'
  BY <1>2 DEF CreateDeadLetterQueue
<1>3. ASSUME NEW p \in Procs, CreateHealthQueue(p) PROVE TypeOK'
  BY <1>3 DEF CreateHealthQueue, StoreHealthQueue
<1>4. ASSUME NEW p \in Procs, Crash(p) PROVE TypeOK'
  BY <1>4 DEF Crash, Idle, Up
<1>5. ASSUME NEW i \in Installers, InstallerDone(i) PROVE TypeOK'
  BY <1>5 DEF InstallerDone
<1>6. ASSUME NEW e \in Enqueuers, Send(e) PROVE TypeOK'
  BY <1>6 DEF Send
<1>7. ASSUME NEW e \in Enqueuers, EnqueuerDone(e) PROVE TypeOK'
  BY <1>7 DEF EnqueuerDone
<1>8. ASSUME NEW w \in Workers, Work(w) PROVE TypeOK'
  BY <1>8 DEF Work, Polling
<1>9. ASSUME NEW w \in Workers, NEW j \in Jobs, Fetch(w, j) PROVE TypeOK'
  BY <1>9 DEF Fetch, Attempt
<1>10. ASSUME NEW w \in Workers, Handle(w) PROVE TypeOK'
  BY <1>10 DEF Handle
<1>11. ASSUME NEW w \in Workers, AckComplete(w) PROVE TypeOK'
  BY <1>11 DEF AckComplete, CompleteRow, NextPoll, Polling, Idle
<1>12. ASSUME NEW w \in Workers, AckFail(w) PROVE TypeOK'
  BY <1>12 DEF AckFail, FailRow, NextPoll, Polling, Idle
<1>13. ASSUME NEW w \in Workers, CompleteRejected(w) PROVE TypeOK'
  BY <1>13 DEF CompleteRejected
<1>14. ASSUME NEW w \in Workers, FailRejected(w) PROVE TypeOK'
  BY <1>14 DEF FailRejected, NextPoll, Polling, Idle
<1>15. ASSUME NEW w \in Workers, Shutdown(w) PROVE TypeOK'
  BY <1>15 DEF Shutdown
<1>16. ASSUME NEW w \in Workers, PollEmpty(w) PROVE TypeOK'
  BY <1>16 DEF PollEmpty, Idle
<1>17. ASSUME NEW w \in Workers, Exit(w) PROVE TypeOK'
  BY <1>17 DEF Exit
<1>18. ASSUME NEW w \in Workers, DrainTimeout(w) PROVE TypeOK'
  BY <1>18 DEF DrainTimeout, FailRow, Idle
<1>19. ASSUME NEW j \in Jobs, Expire(j) PROVE TypeOK'
  BY <1>19 DEF Expire, FailRow
<1>20. CASE UNCHANGED vars
  BY <1>20 DEF vars
<1> QED
  BY <1>1, <1>2, <1>3, <1>4, <1>5, <1>6, <1>7, <1>8, <1>9, <1>10, <1>11, <1>12, <1>13, <1>14, <1>15, <1>16, <1>17, <1>18, <1>19, <1>20
  DEF Next, BootStep, WorkerStep, WorkerFault


-----------------------------------------------------------------------------
\* The rows of the job table.
LEMMA RowStep == TypeOK /\ RowInv /\ BootInv /\ HandlerInv /\ [Next]_vars => RowInv'
<1> SUFFICES ASSUME TypeOK, RowInv, BootInv, HandlerInv, [Next]_vars PROVE RowInv'
  OBVIOUS
<1> USE ConstantsAssumption DEF dbVars, logVars, Jobs, InFlight, TypeOK, RowInv, NoPolicy
<1>1. ASSUME NEW p \in Procs, Start(p) PROVE RowInv'
  BY <1>1 DEF Start
<1>2. ASSUME NEW p \in Procs, CreateDeadLetterQueue(p) PROVE RowInv'
  BY <1>2 DEF CreateDeadLetterQueue
<1>3. ASSUME NEW p \in Procs, CreateHealthQueue(p) PROVE RowInv'
  BY <1>3 DEF CreateHealthQueue, StoreHealthQueue, BootInv
<1>4. ASSUME NEW p \in Procs, Crash(p) PROVE RowInv'
  BY <1>4 DEF Crash
<1>5. ASSUME NEW i \in Installers, InstallerDone(i) PROVE RowInv'
  BY <1>5 DEF InstallerDone
<1>6. ASSUME NEW e \in Enqueuers, Send(e) PROVE RowInv'
  BY <1>6 DEF Send, BootInv, Procs
<1>7. ASSUME NEW e \in Enqueuers, EnqueuerDone(e) PROVE RowInv'
  BY <1>7 DEF EnqueuerDone
<1>8. ASSUME NEW w \in Workers, Work(w) PROVE RowInv'
  BY <1>8 DEF Work
<1>9. ASSUME NEW w \in Workers, NEW j \in Jobs, Fetch(w, j) PROVE RowInv'
  BY <1>9 DEF Fetch
<1>10. ASSUME NEW w \in Workers, Handle(w) PROVE RowInv'
  BY <1>10 DEF Handle
<1>11. ASSUME NEW w \in Workers, AckComplete(w) PROVE RowInv'
  BY <1>11 DEF AckComplete, CompleteRow
<1>12. ASSUME NEW w \in Workers, AckFail(w) PROVE RowInv'
  BY <1>12 DEF AckFail, FailRow
<1>13. ASSUME NEW w \in Workers, CompleteRejected(w) PROVE RowInv'
  BY <1>13 DEF CompleteRejected
<1>14. ASSUME NEW w \in Workers, FailRejected(w) PROVE RowInv'
  BY <1>14 DEF FailRejected
<1>15. ASSUME NEW w \in Workers, Shutdown(w) PROVE RowInv'
  BY <1>15 DEF Shutdown
<1>16. ASSUME NEW w \in Workers, PollEmpty(w) PROVE RowInv'
  BY <1>16 DEF PollEmpty
<1>17. ASSUME NEW w \in Workers, Exit(w) PROVE RowInv'
  BY <1>17 DEF Exit
<1>18. ASSUME NEW w \in Workers, DrainTimeout(w) PROVE RowInv'
  BY <1>18 DEF DrainTimeout, FailRow
<1>19. ASSUME NEW j \in Jobs, Expire(j) PROVE RowInv'
  BY <1>19 DEF Expire, FailRow
<1>20. CASE UNCHANGED vars
  BY <1>20 DEF vars
<1> QED
  BY <1>1, <1>2, <1>3, <1>4, <1>5, <1>6, <1>7, <1>8, <1>9, <1>10, <1>11, <1>12, <1>13, <1>14, <1>15, <1>16, <1>17, <1>18, <1>19, <1>20
  DEF Next, BootStep, WorkerStep, WorkerFault

\* How far each process has got.
LEMMA BootStepInv == TypeOK /\ RowInv /\ BootInv /\ [Next]_vars => BootInv'
<1> SUFFICES ASSUME TypeOK, RowInv, BootInv, [Next]_vars PROVE BootInv'
  OBVIOUS
<1> USE ConstantsAssumption DEF dbVars, logVars, Jobs, InFlight, TypeOK, BootInv, Procs
<1>1. ASSUME NEW p \in Procs, Start(p) PROVE BootInv'
  BY <1>1 DEF Start
<1>2. ASSUME NEW p \in Procs, CreateDeadLetterQueue(p) PROVE BootInv'
  BY <1>2 DEF CreateDeadLetterQueue, DeadLetter, HealthQueue
<1>3. ASSUME NEW p \in Procs, CreateHealthQueue(p) PROVE BootInv'
  BY <1>3 DEF CreateHealthQueue, StoreHealthQueue, NoPolicy
<1>4. ASSUME NEW p \in Procs, Crash(p) PROVE BootInv'
  BY <1>4 DEF Crash
<1>5. ASSUME NEW i \in Installers, InstallerDone(i) PROVE BootInv'
  BY <1>5 DEF InstallerDone
<1>6. ASSUME NEW e \in Enqueuers, Send(e) PROVE BootInv'
  BY <1>6 DEF Send
<1>7. ASSUME NEW e \in Enqueuers, EnqueuerDone(e) PROVE BootInv'
  BY <1>7 DEF EnqueuerDone
<1>8. ASSUME NEW w \in Workers, Work(w) PROVE BootInv'
  BY <1>8 DEF Work
<1>9. ASSUME NEW w \in Workers, NEW j \in Jobs, Fetch(w, j) PROVE BootInv'
  BY <1>9 DEF Fetch
<1>10. ASSUME NEW w \in Workers, Handle(w) PROVE BootInv'
  BY <1>10 DEF Handle
<1>11. ASSUME NEW w \in Workers, AckComplete(w) PROVE BootInv'
  BY <1>11 DEF AckComplete, CompleteRow
<1>12. ASSUME NEW w \in Workers, AckFail(w) PROVE BootInv'
  BY <1>12 DEF AckFail, FailRow
<1>13. ASSUME NEW w \in Workers, CompleteRejected(w) PROVE BootInv'
  BY <1>13 DEF CompleteRejected
<1>14. ASSUME NEW w \in Workers, FailRejected(w) PROVE BootInv'
  BY <1>14 DEF FailRejected
<1>15. ASSUME NEW w \in Workers, Shutdown(w) PROVE BootInv'
  BY <1>15 DEF Shutdown
<1>16. ASSUME NEW w \in Workers, PollEmpty(w) PROVE BootInv'
  BY <1>16 DEF PollEmpty
<1>17. ASSUME NEW w \in Workers, Exit(w) PROVE BootInv'
  BY <1>17 DEF Exit
<1>18. ASSUME NEW w \in Workers, DrainTimeout(w) PROVE BootInv'
  BY <1>18 DEF DrainTimeout, FailRow
<1>19. ASSUME NEW j \in Jobs, Expire(j) PROVE BootInv'
  BY <1>19 DEF Expire, FailRow
<1>20. CASE UNCHANGED vars
  BY <1>20 DEF vars
<1> QED
  BY <1>1, <1>2, <1>3, <1>4, <1>5, <1>6, <1>7, <1>8, <1>9, <1>10, <1>11, <1>12, <1>13, <1>14, <1>15, <1>16, <1>17, <1>18, <1>19, <1>20
  DEF Next, BootStep, WorkerStep, WorkerFault

\* A later retry count is a later attempt.
LEMMA AttemptMonotone ==
  ASSUME NEW r \in Nat, NEW s \in Nat, r <= s
  PROVE  Attempt(r) \in Nat /\ Attempt(r) <= Attempt(s)
BY ConstantsAssumption DEF Attempt

\* What a worker holds.
LEMMA HandlerStep == TypeOK /\ RowInv /\ BootInv /\ HandlerInv /\ [Next]_vars => HandlerInv'
<1> SUFFICES ASSUME TypeOK, RowInv, BootInv, HandlerInv, [Next]_vars PROVE HandlerInv'
  OBVIOUS
<1> USE ConstantsAssumption DEF dbVars, logVars, Jobs, InFlight, TypeOK, HandlerInv, Polling, Idle
<1>1. ASSUME NEW p \in Procs, Start(p) PROVE HandlerInv'
  BY <1>1 DEF Start
<1>2. ASSUME NEW p \in Procs, CreateDeadLetterQueue(p) PROVE HandlerInv'
  BY <1>2 DEF CreateDeadLetterQueue
<1>3. ASSUME NEW p \in Procs, CreateHealthQueue(p) PROVE HandlerInv'
  BY <1>3 DEF CreateHealthQueue, StoreHealthQueue
<1>4. ASSUME NEW p \in Procs, Crash(p) PROVE HandlerInv'
  BY <1>4 DEF Crash
<1>5. ASSUME NEW i \in Installers, InstallerDone(i) PROVE HandlerInv'
  BY <1>5 DEF InstallerDone
<1>6. ASSUME NEW e \in Enqueuers, Send(e) PROVE HandlerInv'
  BY <1>6 DEF Send, BootInv, Procs
<1>7. ASSUME NEW e \in Enqueuers, EnqueuerDone(e) PROVE HandlerInv'
  BY <1>7 DEF EnqueuerDone
<1>8. ASSUME NEW w \in Workers, Work(w) PROVE HandlerInv'
  BY <1>8 DEF Work
<1>9. ASSUME NEW w \in Workers, NEW j \in Jobs, Fetch(w, j) PROVE HandlerInv'
  <2> DEFINE r == retries'[j]
  <2>1. r \in Nat /\ retries[j] <= r /\ r \in {retries[j], retries[j] + 1}
    BY <1>9 DEF Fetch
  <2>2. Attempt(retries[j]) <= Attempt(r)
    BY <2>1, AttemptMonotone
  <2>3. Attempt(r) \in Nat /\ Attempt(retries[j]) \in Nat
    BY <2>1, AttemptMonotone
  <2>4. cur' = [cur EXCEPT ![w] = [stage |-> "handling", job |-> j, attempt |-> Attempt(r)]]
    BY <1>9 DEF Fetch
  <2>5. /\ status' = [status EXCEPT ![j] = "active"]
        /\ retries' = [retries EXCEPT ![j] = r]
        /\ UNCHANGED <<argv, completedLog>>
    BY <1>9 DEF Fetch
  <2> QED
    BY <2>1, <2>2, <2>3, <2>4, <2>5
<1>10. ASSUME NEW w \in Workers, Handle(w) PROVE HandlerInv'
  BY <1>10 DEF Handle, HandlerThrows
<1>11. ASSUME NEW w \in Workers, AckComplete(w) PROVE HandlerInv'
  BY <1>11 DEF AckComplete, CompleteRow, NextPoll
<1>12. ASSUME NEW w \in Workers, AckFail(w) PROVE HandlerInv'
  BY <1>12 DEF AckFail, FailRow, NextPoll
<1>13. ASSUME NEW w \in Workers, CompleteRejected(w) PROVE HandlerInv'
  BY <1>13 DEF CompleteRejected
<1>14. ASSUME NEW w \in Workers, FailRejected(w) PROVE HandlerInv'
  BY <1>14 DEF FailRejected, NextPoll
<1>15. ASSUME NEW w \in Workers, Shutdown(w) PROVE HandlerInv'
  BY <1>15 DEF Shutdown
<1>16. ASSUME NEW w \in Workers, PollEmpty(w) PROVE HandlerInv'
  BY <1>16 DEF PollEmpty
<1>17. ASSUME NEW w \in Workers, Exit(w) PROVE HandlerInv'
  BY <1>17 DEF Exit
<1>18. ASSUME NEW w \in Workers, DrainTimeout(w) PROVE HandlerInv'
  BY <1>18 DEF DrainTimeout, FailRow
<1>19. ASSUME NEW j \in Jobs, Expire(j) PROVE HandlerInv'
  BY <1>19 DEF Expire, FailRow
<1>20. CASE UNCHANGED vars
  BY <1>20 DEF vars
<1> QED
  BY <1>1, <1>2, <1>3, <1>4, <1>5, <1>6, <1>7, <1>8, <1>9, <1>10, <1>11, <1>12, <1>13, <1>14, <1>15, <1>16, <1>17, <1>18, <1>19, <1>20
  DEF Next, BootStep, WorkerStep, WorkerFault

\* The copies in the dead-letter queue.
LEMMA DeadLetterStep == TypeOK /\ BootInv /\ DeadLetterExact /\ [Next]_vars => DeadLetterExact'
<1> SUFFICES ASSUME TypeOK, BootInv, DeadLetterExact, [Next]_vars PROVE DeadLetterExact'
  OBVIOUS
<1> USE ConstantsAssumption DEF dbVars, logVars, Jobs, InFlight, TypeOK, DeadLetterExact
<1>1. ASSUME NEW p \in Procs, Start(p) PROVE DeadLetterExact'
  BY <1>1 DEF Start
<1>2. ASSUME NEW p \in Procs, CreateDeadLetterQueue(p) PROVE DeadLetterExact'
  BY <1>2 DEF CreateDeadLetterQueue
<1>3. ASSUME NEW p \in Procs, CreateHealthQueue(p) PROVE DeadLetterExact'
  BY <1>3 DEF CreateHealthQueue, StoreHealthQueue
<1>4. ASSUME NEW p \in Procs, Crash(p) PROVE DeadLetterExact'
  BY <1>4 DEF Crash
<1>5. ASSUME NEW i \in Installers, InstallerDone(i) PROVE DeadLetterExact'
  BY <1>5 DEF InstallerDone
<1>6. ASSUME NEW e \in Enqueuers, Send(e) PROVE DeadLetterExact'
  BY <1>6 DEF Send, BootInv, Procs
<1>7. ASSUME NEW e \in Enqueuers, EnqueuerDone(e) PROVE DeadLetterExact'
  BY <1>7 DEF EnqueuerDone
<1>8. ASSUME NEW w \in Workers, Work(w) PROVE DeadLetterExact'
  BY <1>8 DEF Work
<1>9. ASSUME NEW w \in Workers, NEW j \in Jobs, Fetch(w, j) PROVE DeadLetterExact'
  BY <1>9 DEF Fetch
<1>10. ASSUME NEW w \in Workers, Handle(w) PROVE DeadLetterExact'
  BY <1>10 DEF Handle
<1>11. ASSUME NEW w \in Workers, AckComplete(w) PROVE DeadLetterExact'
  BY <1>11 DEF AckComplete, CompleteRow
<1>12. ASSUME NEW w \in Workers, AckFail(w) PROVE DeadLetterExact'
  BY <1>12 DEF AckFail, FailRow
<1>13. ASSUME NEW w \in Workers, CompleteRejected(w) PROVE DeadLetterExact'
  BY <1>13 DEF CompleteRejected
<1>14. ASSUME NEW w \in Workers, FailRejected(w) PROVE DeadLetterExact'
  BY <1>14 DEF FailRejected
<1>15. ASSUME NEW w \in Workers, Shutdown(w) PROVE DeadLetterExact'
  BY <1>15 DEF Shutdown
<1>16. ASSUME NEW w \in Workers, PollEmpty(w) PROVE DeadLetterExact'
  BY <1>16 DEF PollEmpty
<1>17. ASSUME NEW w \in Workers, Exit(w) PROVE DeadLetterExact'
  BY <1>17 DEF Exit
<1>18. ASSUME NEW w \in Workers, DrainTimeout(w) PROVE DeadLetterExact'
  BY <1>18 DEF DrainTimeout, FailRow
<1>19. ASSUME NEW j \in Jobs, Expire(j) PROVE DeadLetterExact'
  BY <1>19 DEF Expire, FailRow
<1>20. CASE UNCHANGED vars
  BY <1>20 DEF vars
<1> QED
  BY <1>1, <1>2, <1>3, <1>4, <1>5, <1>6, <1>7, <1>8, <1>9, <1>10, <1>11, <1>12, <1>13, <1>14, <1>15, <1>16, <1>17, <1>18, <1>19, <1>20
  DEF Next, BootStep, WorkerStep, WorkerFault

\* The jobs that completed.
LEMMA CompletedStep == TypeOK /\ RowInv /\ HandlerInv /\ CompletedHonestly /\ [Next]_vars => CompletedHonestly'
<1> SUFFICES ASSUME TypeOK, RowInv, HandlerInv, CompletedHonestly, [Next]_vars PROVE CompletedHonestly'
  OBVIOUS
<1> USE ConstantsAssumption DEF dbVars, logVars, Jobs, InFlight, TypeOK, CompletedHonestly
<1>1. ASSUME NEW p \in Procs, Start(p) PROVE CompletedHonestly'
  BY <1>1 DEF Start
<1>2. ASSUME NEW p \in Procs, CreateDeadLetterQueue(p) PROVE CompletedHonestly'
  BY <1>2 DEF CreateDeadLetterQueue
<1>3. ASSUME NEW p \in Procs, CreateHealthQueue(p) PROVE CompletedHonestly'
  BY <1>3 DEF CreateHealthQueue, StoreHealthQueue
<1>4. ASSUME NEW p \in Procs, Crash(p) PROVE CompletedHonestly'
  BY <1>4 DEF Crash
<1>5. ASSUME NEW i \in Installers, InstallerDone(i) PROVE CompletedHonestly'
  BY <1>5 DEF InstallerDone
<1>6. ASSUME NEW e \in Enqueuers, Send(e) PROVE CompletedHonestly'
  BY <1>6 DEF Send
<1>7. ASSUME NEW e \in Enqueuers, EnqueuerDone(e) PROVE CompletedHonestly'
  BY <1>7 DEF EnqueuerDone
<1>8. ASSUME NEW w \in Workers, Work(w) PROVE CompletedHonestly'
  BY <1>8 DEF Work
<1>9. ASSUME NEW w \in Workers, NEW j \in Jobs, Fetch(w, j) PROVE CompletedHonestly'
  BY <1>9 DEF Fetch
<1>10. ASSUME NEW w \in Workers, Handle(w) PROVE CompletedHonestly'
  BY <1>10 DEF Handle
<1>11. ASSUME NEW w \in Workers, AckComplete(w) PROVE CompletedHonestly'
  <2>1. cur[w].job \in Jobs /\ cur[w].attempt \in Nat
    BY <1>11 DEF AckComplete
  <2>2. Attempt(retries[cur[w].job]) \in Nat
    BY <2>1, AttemptMonotone
  <2>3. argv[cur[w].job] \in Nat
    BY <2>1
  <2>4. cur[w].job \in completedLog /\ argv[cur[w].job] <= Attempt(retries[cur[w].job])
    BY <1>11, <2>1, <2>2, <2>3 DEF AckComplete, HandlerInv
  <2> QED
    BY <1>11, <2>4 DEF AckComplete, CompleteRow
<1>12. ASSUME NEW w \in Workers, AckFail(w) PROVE CompletedHonestly'
  BY <1>12 DEF AckFail, FailRow
<1>13. ASSUME NEW w \in Workers, CompleteRejected(w) PROVE CompletedHonestly'
  BY <1>13 DEF CompleteRejected
<1>14. ASSUME NEW w \in Workers, FailRejected(w) PROVE CompletedHonestly'
  BY <1>14 DEF FailRejected
<1>15. ASSUME NEW w \in Workers, Shutdown(w) PROVE CompletedHonestly'
  BY <1>15 DEF Shutdown
<1>16. ASSUME NEW w \in Workers, PollEmpty(w) PROVE CompletedHonestly'
  BY <1>16 DEF PollEmpty
<1>17. ASSUME NEW w \in Workers, Exit(w) PROVE CompletedHonestly'
  BY <1>17 DEF Exit
<1>18. ASSUME NEW w \in Workers, DrainTimeout(w) PROVE CompletedHonestly'
  BY <1>18 DEF DrainTimeout, FailRow
<1>19. ASSUME NEW j \in Jobs, Expire(j) PROVE CompletedHonestly'
  BY <1>19 DEF Expire, FailRow
<1>20. CASE UNCHANGED vars
  BY <1>20 DEF vars
<1> QED
  BY <1>1, <1>2, <1>3, <1>4, <1>5, <1>6, <1>7, <1>8, <1>9, <1>10, <1>11, <1>12, <1>13, <1>14, <1>15, <1>16, <1>17, <1>18, <1>19, <1>20
  DEF Next, BootStep, WorkerStep, WorkerFault

\* The two queues, in their order.
LEMMA QueueOrderStep == BootInv /\ DeadLetterQueueFirst /\ [Next]_vars => DeadLetterQueueFirst'
<1> SUFFICES ASSUME BootInv, DeadLetterQueueFirst, [Next]_vars PROVE DeadLetterQueueFirst'
  OBVIOUS
<1> USE DEF DeadLetterQueueFirst, dbVars
<1>1. ASSUME NEW p \in Procs, CreateDeadLetterQueue(p) PROVE DeadLetterQueueFirst'
  BY <1>1 DEF CreateDeadLetterQueue
<1>2. ASSUME NEW p \in Procs, CreateHealthQueue(p) PROVE DeadLetterQueueFirst'
  BY <1>2 DEF CreateHealthQueue, StoreHealthQueue, BootInv
<1>3. CASE UNCHANGED queues
  BY <1>3
<1>4. \/ \E p \in Procs : CreateDeadLetterQueue(p) \/ CreateHealthQueue(p)
      \/ UNCHANGED queues
  BY DEF Next, vars, BootStep, WorkerStep, WorkerFault, Start, Crash, InstallerDone,
         Send, EnqueuerDone, Work, Fetch, Handle, AckComplete, AckFail,
         CompleteRejected, FailRejected, Shutdown, PollEmpty, Exit, DrainTimeout, Expire
<1> QED
  BY <1>1, <1>2, <1>3, <1>4

-----------------------------------------------------------------------------
LEMMA InvInit == Init => IInv
<1> SUFFICES ASSUME Init PROVE IInv
  OBVIOUS
<1>1. TypeOK
  BY TypeInit
<1>2. RowInv /\ BootInv
  BY DEF Init, RowInv, BootInv, HealthQueue, NoPolicy, Procs, Jobs
<1>3. HandlerInv
  BY DEF Init, HandlerInv, Idle, InFlight
<1>4. DeadLetterQueueFirst /\ DeadLetterExact /\ CompletedHonestly
  BY DEF Init, DeadLetterQueueFirst, DeadLetterExact, CompletedHonestly
<1> QED
  BY <1>1, <1>2, <1>3, <1>4 DEF IInv

\* The inductive invariant holds in every reachable state.
THEOREM Invariance == Spec => []IInv
<1>1. Init => IInv
  BY InvInit
<1>2. IInv /\ [Next]_vars => IInv'
  BY TypeStep, RowStep, BootStepInv, HandlerStep, DeadLetterStep, CompletedStep,
     QueueOrderStep DEF IInv
<1> QED
  BY <1>1, <1>2, PTL DEF Spec

\* The variables keep their types, and a loop holds a job exactly while one is
\* in flight.
THEOREM TypeCorrect == Spec => []TypeOK
<1>1. IInv => TypeOK
  BY DEF IInv
<1> QED
  BY <1>1, Invariance, PTL

\* The dead-letter queue exists before the queue that refers to it, for any
\* number of processes starting and crashing in any order.
THEOREM DeadLetterQueueIsFirst == Spec => []DeadLetterQueueFirst
<1>1. IInv => DeadLetterQueueFirst
  BY DEF IInv
<1> QED
  BY <1>1, Invariance, PTL

\* A failed job has one copy in the dead-letter queue and no other job has any.
THEOREM DeadLetterIsExact == Spec => []DeadLetterExact
<1>1. IInv => DeadLetterExact
  BY DEF IInv
<1> QED
  BY <1>1, Invariance, PTL

\* No job completes without an attempt that reached the configured one.
THEOREM CompletionIsHonest == Spec => []CompletedHonestly
<1>1. IInv => CompletedHonestly
  BY DEF IInv
<1> QED
  BY <1>1, Invariance, PTL

-----------------------------------------------------------------------------
(* Refinement of ReliableWork.                                             *)

\* A failed row is the last of its tries being buried, or nothing the
\* abstract queue can see.
LEMMA FailRefines ==
  ASSUME IInv, NEW j \in Jobs, status[j] \notin {"none", "created"},
         FailRow(j), UNCHANGED <<retries, policy>>
  PROVE  Promise!Bury(j) \/ UNCHANGED Promise!vars
<1> USE ConstantsAssumption DEF IInv, TypeOK, RowInv, Promise!vars
<1>1. CASE status[j] \in {"active", "retry"} /\ retries[j] >= policy
  <2>1. status' = [status EXCEPT ![j] = "failed"] /\ deadCopies' = [deadCopies EXCEPT ![j] = @ + 1]
    BY <1>1 DEF FailRow
  <2>2. outcome' = [outcome EXCEPT ![j] = "dead"] /\ outcome[j] = "pending"
    BY <1>1, <2>1 DEF outcome
  <2>3. tries' = tries /\ tries[j] = policy + 1
    BY <1>1, <2>1 DEF tries, NoPolicy
  <2> QED
    BY <2>1, <2>2, <2>3 DEF Promise!Bury
<1>2. CASE ~(status[j] \in {"active", "retry"} /\ retries[j] >= policy)
  <2>1. /\ status' = [status EXCEPT ![j] = IF @ = "active" THEN "retry" ELSE @]
        /\ deadCopies' = deadCopies
    BY <1>2 DEF FailRow
  <2>2. outcome' = outcome
    BY <2>1 DEF outcome
  <2>3. tries' = tries
    BY <2>1 DEF tries
  <2> QED
    BY <2>1, <2>2, <2>3
<1> QED
  BY <1>1, <1>2

LEMMA StepRefines == IInv /\ [Next]_vars => [Promise!Next]_Promise!vars
<1> SUFFICES ASSUME IInv, [Next]_vars PROVE Promise!Next \/ UNCHANGED Promise!vars
  OBVIOUS
<1> USE ConstantsAssumption DEF IInv, TypeOK, dbVars, Promise!vars
<1>1. ASSUME NEW p \in Procs, CreateHealthQueue(p) PROVE Promise!Next \/ UNCHANGED Promise!vars
  <2>1. outcome' = outcome /\ tries' = tries /\ deadCopies' = deadCopies
    BY <1>1 DEF CreateHealthQueue, outcome, tries
  <2>2. CASE HealthQueue \in queues
    BY <1>1, <2>1, <2>2 DEF CreateHealthQueue, StoreHealthQueue
  <2>3. CASE HealthQueue \notin queues
    <3>1. policy = NoPolicy /\ policy' \in RetryLimits
      BY <1>1, <2>3 DEF CreateHealthQueue, StoreHealthQueue, BootInv
    <3> QED
      BY <2>1, <3>1 DEF Promise!Next, Promise!Declare, Promise!Undeclared, NoPolicy
  <2> QED
    BY <2>2, <2>3
<1>2. ASSUME NEW e \in Enqueuers, Send(e) PROVE Promise!Next \/ UNCHANGED Promise!vars
  <2>1. status[e] = "none" /\ policy # NoPolicy
    BY <1>2 DEF Send, BootInv, Procs
  <2>2. status' = [status EXCEPT ![e] = "created"] /\ UNCHANGED <<retries, deadCopies, policy>>
    BY <1>2 DEF Send
  <2>3. outcome[e] = "none" /\ outcome' = [outcome EXCEPT ![e] = "pending"]
    BY <2>1, <2>2 DEF outcome, Jobs
  <2>4. tries' = tries
    BY <2>1, <2>2 DEF tries, Jobs
  <2>5. Promise!Accept(e)
    BY <2>1, <2>2, <2>3, <2>4 DEF Promise!Accept, Promise!Undeclared, NoPolicy
  <2> QED
    BY <2>5 DEF Promise!Next, Jobs
<1>3. ASSUME NEW w \in Workers, NEW j \in Jobs, Fetch(w, j)
      PROVE  Promise!Next \/ UNCHANGED Promise!vars
  <2>1. /\ status' = [status EXCEPT ![j] = "active"]
        /\ retries' = [retries EXCEPT ![j] = IF status[j] = "retry" THEN @ + 1 ELSE @]
        /\ status[j] \in {"created", "retry"}
        /\ UNCHANGED <<policy, deadCopies>>
    BY <1>3 DEF Fetch
  <2>2. outcome[j] = "pending" /\ outcome' = outcome
    BY <2>1 DEF outcome
  <2>3. tries[j] <= policy
    BY <2>1 DEF tries, RowInv, NoPolicy
  <2>4. status[j] = "created" => retries[j] = 0
    BY DEF RowInv
  <2>5. tries' = [tries EXCEPT ![j] = @ + 1]
    BY <2>1, <2>4 DEF tries
  <2>6. Promise!Try(j)
    BY <2>1, <2>2, <2>3, <2>5 DEF Promise!Try
  <2> QED
    BY <2>6 DEF Promise!Next
<1>4. ASSUME NEW w \in Workers, AckComplete(w) PROVE Promise!Next \/ UNCHANGED Promise!vars
  <2> DEFINE j == cur[w].job
  <2>1. j \in Jobs
    BY <1>4 DEF AckComplete, InFlight
  <2>2. /\ status' = [status EXCEPT ![j] = IF @ = "active" THEN "completed" ELSE @]
        /\ UNCHANGED <<retries, deadCopies, policy>>
    BY <1>4 DEF AckComplete, CompleteRow
  <2>3. tries' = tries
    BY <2>1, <2>2 DEF tries
  <2>4. CASE status[j] = "active"
    <3>1. outcome[j] = "pending" /\ outcome' = [outcome EXCEPT ![j] = "done"] /\ tries[j] > 0
      BY <2>1, <2>2, <2>4 DEF outcome, tries
    <3>2. Promise!Finish(j)
      BY <2>2, <2>3, <3>1 DEF Promise!Finish
    <3> QED
      BY <2>1, <3>2 DEF Promise!Next
  <2>5. CASE status[j] # "active"
    <3>1. outcome' = outcome
      BY <2>1, <2>2, <2>5 DEF outcome
    <3> QED
      BY <2>2, <2>3, <3>1
  <2> QED
    BY <2>4, <2>5
<1>5. ASSUME NEW j \in Jobs, status[j] \notin {"none", "created"}, FailRow(j),
             UNCHANGED <<retries, policy>>
      PROVE  Promise!Next \/ UNCHANGED Promise!vars
  <2>1. Promise!Bury(j) \/ UNCHANGED Promise!vars
    BY <1>5, FailRefines
  <2> QED
    BY <2>1 DEF Promise!Next
<1>6. ASSUME NEW w \in Workers, AckFail(w) \/ DrainTimeout(w)
      PROVE  Promise!Next \/ UNCHANGED Promise!vars
  <2>1. cur[w].job \in Jobs /\ status[cur[w].job] \notin {"none", "created"}
    BY <1>6 DEF AckFail, DrainTimeout, HandlerInv, InFlight
  <2>2. FailRow(cur[w].job) /\ UNCHANGED <<retries, policy>>
    BY <1>6 DEF AckFail, DrainTimeout
  <2> QED
    BY <1>5, <2>1, <2>2
<1>7. ASSUME NEW j \in Jobs, Expire(j) PROVE Promise!Next \/ UNCHANGED Promise!vars
  BY <1>5, <1>7 DEF Expire
<1>8. CASE UNCHANGED <<status, retries, deadCopies, policy>>
  <2>1. outcome' = outcome /\ tries' = tries
    BY <1>8 DEF outcome, tries
  <2> QED
    BY <1>8, <2>1
<1>9. \/ \E p \in Procs : CreateHealthQueue(p)
      \/ \E e \in Enqueuers : Send(e)
      \/ \E w \in Workers : \E j \in Jobs : Fetch(w, j)
      \/ \E w \in Workers : AckComplete(w) \/ AckFail(w) \/ DrainTimeout(w)
      \/ \E j \in Jobs : Expire(j)
      \/ UNCHANGED <<status, retries, deadCopies, policy>>
  BY DEF Next, vars, BootStep, WorkerStep, WorkerFault, Start, CreateDeadLetterQueue,
         Crash, InstallerDone, EnqueuerDone, Work, Handle, CompleteRejected,
         FailRejected, Shutdown, PollEmpty, Exit
<1> QED
  BY <1>1, <1>2, <1>3, <1>4, <1>6, <1>7, <1>8, <1>9

LEMMA InitRefines == Init => Promise!Init
<1> SUFFICES ASSUME Init PROVE Promise!Init
  OBVIOUS
<1> QED
  BY DEF Init, Promise!Init, Promise!Undeclared, NoPolicy, outcome, tries

\* Every behaviour of the processes and the queue is one of ReliableWork: an
\* accepted job is tried at most retry limit + 1 times, settles once, and dies
\* only after its last try, leaving one copy in the dead-letter queue.
THEOREM Refinement == Spec => ImplementsReliableWork
<1>1. Init => Promise!Init
  BY InitRefines
<1>2. IInv /\ [Next]_vars => [Promise!Next]_Promise!vars
  BY StepRefines
<1> QED
  BY <1>1, <1>2, Invariance, PTL DEF Spec, ImplementsReliableWork, Promise!Spec

-----------------------------------------------------------------------------
(* Jobs that nobody holds, and jobs given up.                              *)

\* Only a worker that has started its loop, and has not left it, is busy.
LoopInv == \A w \in Workers : cur[w].stage # "idle" => pc[w] \in {"working", "draining"}

\* A row that stays active has whoever held it before.
LEMMA StillHeld ==
  ASSUME NoSilentAbandon, faulted \subseteq faulted',
         \A j \in Jobs : status'[j] = "active" =>
           /\ status[j] = "active"
           /\ \A w \in Workers : Handles(w, j) => Handles(w, j)' \/ j \in faulted'
  PROVE  NoSilentAbandon'
BY DEF NoSilentAbandon

\* What a worker that leaves a job behind does to its row.
LEMMA FailedRowIsNotActive ==
  ASSUME TypeOK, NEW j \in Jobs, FailRow(j)
  PROVE  /\ status'[j] # "active"
         /\ \A i \in Jobs : status'[i] = "active" => status[i] = "active"
BY DEF TypeOK, FailRow

\* A loop that starts, polls or ends holds nothing.
LEMMA LoopStep == TypeOK /\ LoopInv /\ [Next]_vars => LoopInv'
<1> SUFFICES ASSUME TypeOK, LoopInv, [Next]_vars PROVE LoopInv'
  OBVIOUS
<1> USE ConstantsAssumption DEF TypeOK, LoopInv, InFlight, Procs, Idle, Polling, NextPoll
<1>1. ASSUME NEW p \in Procs, Start(p) PROVE LoopInv'
  BY <1>1 DEF Start
<1>2. ASSUME NEW p \in Procs, CreateDeadLetterQueue(p) PROVE LoopInv'
  BY <1>2 DEF CreateDeadLetterQueue
<1>3. ASSUME NEW p \in Procs, CreateHealthQueue(p) PROVE LoopInv'
  BY <1>3 DEF CreateHealthQueue
<1>4. ASSUME NEW p \in Procs, Crash(p) PROVE LoopInv'
  BY <1>4 DEF Crash
<1>5. ASSUME NEW i \in Installers, InstallerDone(i) PROVE LoopInv'
  BY <1>5 DEF InstallerDone
<1>6. ASSUME NEW e \in Enqueuers, Send(e) \/ EnqueuerDone(e) PROVE LoopInv'
  BY <1>6 DEF Send, EnqueuerDone
<1>7. ASSUME NEW w \in Workers, Work(w) \/ Shutdown(w) PROVE LoopInv'
  BY <1>7 DEF Work, Shutdown
<1>8. ASSUME NEW w \in Workers, NEW j \in Jobs, Fetch(w, j) PROVE LoopInv'
  BY <1>8 DEF Fetch
<1>9. ASSUME NEW w \in Workers, Handle(w) \/ CompleteRejected(w) PROVE LoopInv'
  BY <1>9 DEF Handle, CompleteRejected
<1>10. ASSUME NEW w \in Workers, AckComplete(w) \/ AckFail(w) \/ FailRejected(w) PROVE LoopInv'
  BY <1>10 DEF AckComplete, AckFail, FailRejected
<1>11. ASSUME NEW w \in Workers, PollEmpty(w) \/ Exit(w) \/ DrainTimeout(w) PROVE LoopInv'
  BY <1>11 DEF PollEmpty, Exit, DrainTimeout
<1>12. ASSUME NEW j \in Jobs, Expire(j) PROVE LoopInv'
  BY <1>12 DEF Expire
<1>13. CASE UNCHANGED vars
  BY <1>13 DEF vars
<1> QED
  BY <1>1, <1>2, <1>3, <1>4, <1>5, <1>6, <1>7, <1>8, <1>9, <1>10, <1>11, <1>12, <1>13
  DEF Next, BootStep, WorkerStep, WorkerFault

\* No step leaves an active job to itself, unless the history says so.
LEMMA AbandonStep == TypeOK /\ LoopInv /\ NoSilentAbandon /\ [Next]_vars => NoSilentAbandon'
<1> SUFFICES ASSUME TypeOK, LoopInv, NoSilentAbandon, [Next]_vars PROVE NoSilentAbandon'
  OBVIOUS
<1> USE ConstantsAssumption DEF TypeOK, InFlight, Handles, dbVars
<1>1. ASSUME NEW p \in Procs, BootStep(p) PROVE NoSilentAbandon'
  BY <1>1, StillHeld DEF BootStep, Start, CreateDeadLetterQueue, CreateHealthQueue
<1>2. ASSUME NEW p \in Procs, Crash(p) PROVE NoSilentAbandon'
  BY <1>2, StillHeld DEF Crash
<1>3. ASSUME NEW i \in Installers, InstallerDone(i) PROVE NoSilentAbandon'
  BY <1>3, StillHeld DEF InstallerDone
<1>4. ASSUME NEW e \in Enqueuers, Send(e) \/ EnqueuerDone(e) PROVE NoSilentAbandon'
  BY <1>4, StillHeld DEF Send, EnqueuerDone, Jobs
<1>5. ASSUME NEW w \in Workers, Work(w) \/ Shutdown(w) \/ PollEmpty(w) \/ Exit(w)
      PROVE  NoSilentAbandon'
  BY <1>5, StillHeld DEF Work, Shutdown, PollEmpty, Exit, LoopInv
<1>6. ASSUME NEW w \in Workers, NEW j \in Jobs, Fetch(w, j) PROVE NoSilentAbandon'
  <2>1. /\ cur' = [cur EXCEPT ![w] = [stage |-> "handling", job |-> j, attempt |-> cur'[w].attempt]]
        /\ cur[w].stage = "polling"
        /\ status' = [status EXCEPT ![j] = "active"] /\ faulted' = faulted \ {j}
    BY <1>6 DEF Fetch
  <2>2. Handles(w, j)'
    BY <2>1
  <2>3. \A i \in Jobs, v \in Workers : Handles(v, i) => Handles(v, i)'
    BY <2>1
  <2> QED
    BY <2>1, <2>2, <2>3 DEF NoSilentAbandon
<1>7. ASSUME NEW w \in Workers, Handle(w) \/ CompleteRejected(w) PROVE NoSilentAbandon'
  BY <1>7, StillHeld DEF Handle, CompleteRejected
<1>8. ASSUME NEW w \in Workers, AckComplete(w) PROVE NoSilentAbandon'
  BY <1>8, StillHeld DEF AckComplete, CompleteRow
<1>9. ASSUME NEW w \in Workers, AckFail(w) \/ DrainTimeout(w) PROVE NoSilentAbandon'
  <2>1. cur[w].job \in Jobs /\ FailRow(cur[w].job)
    BY <1>9 DEF AckFail, DrainTimeout
  <2> QED
    BY <1>9, <2>1, FailedRowIsNotActive, StillHeld DEF AckFail, DrainTimeout
<1>10. ASSUME NEW w \in Workers, FailRejected(w) PROVE NoSilentAbandon'
  BY <1>10, StillHeld DEF FailRejected
<1>11. ASSUME NEW j \in Jobs, Expire(j) PROVE NoSilentAbandon'
  BY <1>11, FailedRowIsNotActive, StillHeld DEF Expire
<1>12. CASE UNCHANGED vars
  BY <1>12, StillHeld DEF vars
<1> QED
  BY <1>1, <1>2, <1>3, <1>4, <1>5, <1>6, <1>7, <1>8, <1>9, <1>10, <1>11, <1>12
  DEF Next, WorkerStep, WorkerFault

\* An active job without a live worker was cut off by a crash or a lost
\* acknowledgement, whatever else happened to it (main.ts:133-134).
THEOREM NoJobIsAbandoned == Spec => []NoSilentAbandon
<1>1. Init => LoopInv /\ NoSilentAbandon
  BY DEF Init, LoopInv, Idle, NoSilentAbandon
<1>2. TypeOK /\ LoopInv /\ NoSilentAbandon /\ [Next]_vars => LoopInv' /\ NoSilentAbandon'
  BY LoopStep, AbandonStep
<1> QED
  BY <1>1, <1>2, TypeCorrect, PTL DEF Spec

\* A job with a job_dead line has used up its tries, and needs one more than it has.
DeadInv ==
  \A j \in deadLog : /\ status[j] \in {"active", "failed"}
                     /\ retries[j] = policy /\ argv[j] > policy + 1

\* Where all environments agree, a row's policy is every worker's limit.
LEMMA OnePolicy ==
  ASSUME TypeOK, NEW l, RetryLimits = {l}, policy # NoPolicy
  PROVE  /\ policy = l /\ l \in Nat
         /\ \A w \in Workers : limit[w] = l
BY ConstantsAssumption DEF TypeOK, NoPolicy, Procs

\* An attempt is at most one more than the retries.
LEMMA AttemptBound ==
  ASSUME NEW r \in Nat
  PROVE  Attempt(r) \in Nat /\ Attempt(r) <= r + 1
BY DEF Attempt

\* A worker that reports success for a job has made an attempt that is enough.
LEMMA DeadJobsDoNotSucceed ==
  ASSUME IInv, DeadInv, NEW w \in Workers, cur[w].stage = "ok"
  PROVE  cur[w].job \notin deadLog
<1> SUFFICES ASSUME cur[w].job \in deadLog PROVE FALSE
  OBVIOUS
<1> DEFINE j == cur[w].job
           a == cur[w].attempt
<1>1. /\ j \in Jobs /\ a \in Nat /\ retries[j] \in Nat /\ argv[j] \in Nat
  BY ConstantsAssumption DEF IInv, TypeOK, InFlight, Jobs
<1>2. a <= Attempt(retries[j]) /\ argv[j] <= a
  BY DEF IInv, HandlerInv, InFlight
<1>3. retries[j] = policy /\ argv[j] > policy + 1
  BY DEF DeadInv
<1> QED
  BY <1>1, <1>2, <1>3, AttemptBound

\* Failing a job that has used up its tries buries it, if it is not buried.
LEMMA DeadRowsFail ==
  ASSUME IInv, DeadInv, NEW j \in Jobs, FailRow(j), UNCHANGED <<retries, policy, argv, deadLog>>
  PROVE  DeadInv'
<1>1. /\ status \in [Jobs -> {"none", "created", "active", "retry", "completed", "failed"}]
      /\ deadLog \subseteq Jobs /\ retries[j] \in Nat
  BY DEF IInv, TypeOK
<1>2. j \in deadLog => retries[j] >= policy
  BY <1>1 DEF DeadInv
<1> QED
  BY <1>1, <1>2 DEF FailRow, DeadInv

\* The line is written for the last try only, where all environments agree.
LEMMA DeadLineIsLast ==
  ASSUME IInv, DeadInv, NEW l, RetryLimits = {l}, NEW w \in Workers, Handle(w)
  PROVE  DeadInv'
<1> DEFINE j == cur[w].job
           a == cur[w].attempt
<1>1. /\ j \in Jobs /\ a \in Nat /\ retries[j] \in Nat /\ argv[j] \in Nat
      /\ status[j] \in {"none", "created", "active", "retry", "completed", "failed"}
  BY ConstantsAssumption DEF Handle, IInv, TypeOK, InFlight, Jobs
<1>2. /\ status[j] \notin {"none", "created"} /\ a <= Attempt(retries[j])
  BY DEF Handle, IInv, HandlerInv, InFlight
<1>3. /\ policy # NoPolicy /\ retries[j] <= policy
      /\ status[j] = "retry" => retries[j] < policy
  BY <1>1, <1>2 DEF IInv, RowInv
<1>4. policy = l /\ l \in Nat /\ limit[w] = l
  BY <1>3, OnePolicy DEF IInv
<1>5. Attempt(retries[j]) \in Nat /\ Attempt(retries[j]) <= retries[j] + 1
  BY <1>1, AttemptBound
<1>6. status[j] = "completed" => argv[j] <= Attempt(retries[j])
  BY <1>1 DEF IInv, CompletedHonestly
<1>7. ASSUME HandlerThrows(j, a), ~WillRetry(w, a)
      PROVE  status[j] \in {"active", "failed"} /\ retries[j] = policy /\ argv[j] > policy + 1
  <2>1. a < argv[j] /\ ~(a <= l)
    BY <1>4, <1>7 DEF HandlerThrows, WillRetry
  <2>2. a = l + 1 /\ retries[j] = l /\ argv[j] > l + 1
    BY <1>1, <1>2, <1>3, <1>4, <1>5, <2>1
  <2> QED
    BY <1>1, <1>2, <1>3, <1>4, <1>5, <1>6, <2>2
<1>8. /\ deadLog' = IF HandlerThrows(j, a) /\ ~WillRetry(w, a) THEN deadLog \cup {j} ELSE deadLog
      /\ UNCHANGED <<status, retries, policy, argv>>
  BY DEF Handle, dbVars
<1> HIDE DEF j, a
<1> QED
  BY <1>7, <1>8 DEF DeadInv

\* A job that is given up stays so.
LEMMA DeadStep ==
  ASSUME IInv, DeadInv, [Next]_vars, NEW l, RetryLimits = {l}
  PROVE  DeadInv'
<1> USE DEF dbVars, logVars, Jobs
<1>1. TypeOK /\ BootInv /\ deadLog \subseteq Jobs
  BY DEF IInv, TypeOK
<1>2. \A j \in deadLog : j \in Jobs /\ policy # NoPolicy
  <2>1. \A j \in deadLog : j \in Jobs /\ status[j] # "none"
    BY <1>1 DEF DeadInv
  <2> QED
    BY <2>1 DEF IInv, RowInv
<1>3. ASSUME NEW p \in Procs, BootStep(p) PROVE DeadInv'
  BY <1>1, <1>2, <1>3
     DEF BootStep, Start, CreateDeadLetterQueue, CreateHealthQueue, StoreHealthQueue, BootInv, DeadInv
<1>4. ASSUME NEW p \in Procs, Crash(p) PROVE DeadInv'
  BY <1>4 DEF Crash, DeadInv
<1>5. ASSUME NEW i \in Installers, InstallerDone(i) PROVE DeadInv'
  BY <1>5 DEF InstallerDone, DeadInv
<1>6. ASSUME NEW e \in Enqueuers, Send(e) \/ EnqueuerDone(e) PROVE DeadInv'
  <2>1. pc[e] = "queueReady" => e \notin deadLog
    BY <1>1 DEF BootInv, DeadInv
  <2> QED
    BY <1>1, <1>6, <2>1 DEF Send, EnqueuerDone, DeadInv, TypeOK
<1>7. ASSUME NEW w \in Workers,
             Work(w) \/ CompleteRejected(w) \/ FailRejected(w) \/ Shutdown(w) \/ PollEmpty(w) \/ Exit(w)
      PROVE  DeadInv'
  BY <1>7 DEF Work, CompleteRejected, FailRejected, Shutdown, PollEmpty, Exit, DeadInv
<1>8. ASSUME NEW w \in Workers, NEW j \in Jobs, Fetch(w, j) PROVE DeadInv'
  <2>1. j \notin deadLog
    BY <1>8 DEF Fetch, DeadInv
  <2>2. /\ \A i \in Jobs : i # j => status'[i] = status[i] /\ retries'[i] = retries[i]
        /\ UNCHANGED <<policy, argv, deadLog>>
    BY <1>1, <1>8 DEF Fetch, TypeOK
  <2> QED
    BY <1>1, <2>1, <2>2 DEF DeadInv, TypeOK
<1>9. ASSUME NEW w \in Workers, Handle(w) PROVE DeadInv'
  BY <1>9, DeadLineIsLast
<1>10. ASSUME NEW w \in Workers, AckComplete(w) PROVE DeadInv'
  <2>1. cur[w].job \notin deadLog
    BY <1>10, DeadJobsDoNotSucceed DEF AckComplete
  <2> QED
    BY <1>1, <1>10, <2>1 DEF AckComplete, CompleteRow, DeadInv, TypeOK
<1>11. ASSUME NEW w \in Workers, AckFail(w) \/ DrainTimeout(w) PROVE DeadInv'
  <2>1. cur[w].job \in Jobs
    BY <1>1, <1>11, ConstantsAssumption DEF AckFail, DrainTimeout, TypeOK, InFlight
  <2> QED
    BY <1>11, <2>1, DeadRowsFail DEF AckFail, DrainTimeout
<1>12. ASSUME NEW j \in Jobs, Expire(j) PROVE DeadInv'
  BY <1>12, DeadRowsFail DEF Expire
<1>13. CASE UNCHANGED vars
  BY <1>13 DEF vars, DeadInv
<1> QED
  BY <1>3, <1>4, <1>5, <1>6, <1>7, <1>8, <1>9, <1>10, <1>11, <1>12, <1>13
  DEF Next, WorkerStep, WorkerFault

\* Where all processes have the same JOB_RETRY_LIMIT, a job_dead line is the last
\* word on its job (main.ts:76-79).
THEOREM DeadLogStaysFinal ==
  ASSUME NEW l, RetryLimits = {l}
  PROVE  Spec => []DeadLogIsFinal
<1>1. Init => DeadInv
  BY DEF Init, DeadInv
<1>2. IInv /\ DeadInv /\ [Next]_vars => DeadInv'
  BY DeadStep
<1>3. DeadInv => DeadLogIsFinal
  BY DEF DeadInv, DeadLogIsFinal
<1> QED
  BY <1>1, <1>2, <1>3, Invariance, PTL DEF Spec
=============================================================================
