---------------------------- MODULE SmokeTestProofs ----------------------------
(***************************************************************************)
(* For every set of databases, every content of the smoke test's variables *)
(* and every number of scripts: the databases keep what DatabaseRolesProofs *)
(* proves of them while the smoke test runs, and its verdict is true of    *)
(* the system.                                                             *)
(*                                                                         *)
(* The invariant for the verdict ties every recorded result to the         *)
(* databases and services as they are now, as long as nobody else acted.   *)
(***************************************************************************)
EXTENDS SmokeTest, DatabaseRolesProofs

-----------------------------------------------------------------------------
(* The databases under the smoke test.                                     *)

\* enqueue-health makes the queue where its role may: an installation by the
\* smoke test itself, outside the documented order.
LEMMA EnqueueRolesStep ==
  ASSUME RolesInv, SmokeTypeOK, Enqueue
  PROVE  RolesInv' /\ BoundaryStep
<1>1. PICK u \in env.main :
        LET b == IF MakesQueue(db[u.d], u.role) THEN QueueMade(db[u.d], u.role) ELSE db[u.d]
        IN /\ restoring[u.d] = {}
           /\ db' = [db EXCEPT ![u.d] = b]
           /\ stage' = IF b = db[u.d] THEN stage ELSE [stage EXCEPT ![u.d] = "other"]
  BY DEF Enqueue
<1> DEFINE d == u.d
           b == IF MakesQueue(db[d], u.role) THEN QueueMade(db[d], u.role) ELSE db[d]
           to == IF b = db[d] THEN stage[d] ELSE "other"
<1>2. d \in Databases /\ u.role \in Roles
  BY EnvironmentsAssumption DEF SmokeTypeOK, URLs, Unread
<1>3. /\ db' = [db EXCEPT ![d] = b] /\ restoring[d] = {}
      /\ UNCHANGED <<disk, dumps, restoring, exit, ops>>
  BY <1>1 DEF Enqueue
<1>4. /\ db \in [Databases -> Database] /\ stage \in [Databases -> Stages]
      /\ Sound(db[d]) /\ StageFits(db[d], stage[d])
  BY <1>2 DEF RolesInv, TypeOK, DatabasesSound, StagesFit, Stages
<1>5. stage' = [stage EXCEPT ![d] = to]
  BY <1>1, <1>2, <1>4
<1>6. Keeps(db[d], b)
  BY <1>2, <1>4, QueueMadeKeeps DEF Keeps
<1>7. StageFits(b, to) /\ to \in Stages
  BY <1>2, <1>4 DEF StageFits, Stages
<1>8. Sound(b) /\ b \in Database
  BY <1>6 DEF Keeps, Sound
<1> HIDE DEF d, b, to
<1>9. TypeOK'
  BY <1>2, <1>3, <1>4, <1>5, <1>7, <1>8 DEF RolesInv, TypeOK, Stages
<1>10. DatabasesSound' /\ StagesFit'
  BY <1>2, <1>3, <1>4, <1>5, <1>7, <1>8 DEF RolesInv, DatabasesSound, StagesFit
<1>11. RestoresFit'
  BY <1>2, <1>3, <1>4, <1>5 DEF RolesInv, RestoresFit
<1>12. BoundaryStep
  BY <1>2, <1>3, <1>4, <1>6 DEF BoundaryStep, Keeps
<1> QED
  BY <1>9, <1>10, <1>11, <1>12 DEF RolesInv

LEMMA MeanwhileRolesStep ==
  ASSUME RolesInv, SmokeTypeOK, SmokeNext
  PROVE  RolesInv' /\ BoundaryStep
<1>1. ASSUME UNCHANGED vars
      PROVE  RolesInv' /\ BoundaryStep
  BY <1>1 DEF vars, RolesInv, TypeOK, DatabasesSound, RestoresFit, StagesFit, BoundaryStep
<1>2. CASE Script
  BY <1>2, <1>1, RolesStep DEF Script
<1>3. ASSUME NEW s \in {"api", "worker"}, Operate(s)
      PROVE  RolesInv' /\ BoundaryStep
  <2>1. /\ UNCHANGED <<db, dumps, stage>> /\ disk' \in SUBSET Migrations /\ exit' \in Codes
        /\ ops' \in 0..MaxOps /\ restoring' = restoring
    BY <1>3, DatabasesAssumption DEF Operate, RolesInv, TypeOK, Codes
  <2> QED
    BY <2>1, QuietStep
<1>4. CASE Summary
  <2>1. /\ UNCHANGED <<db, dumps, stage>> /\ disk' \in SUBSET Migrations /\ exit' \in Codes
        /\ ops' \in 0..MaxOps /\ restoring' = restoring
    BY <1>4 DEF Summary, RolesInv, TypeOK, Codes
  <2> QED
    BY <2>1, QuietStep
<1>5. CASE Enqueue
  BY <1>5, EnqueueRolesStep
<1>6. CASE \/ WorkerCompletes \/ Start \/ Postgres \/ MigrationsApplied \/ RolesExist
           \/ AuditRefuses \/ ApiLive \/ ApiReady \/ QueueRoundTrip \/ SocketPing
  <2>1. UNCHANGED vars
    BY <1>6 DEF WorkerCompletes, Start, Postgres, MigrationsApplied, RolesExist, AuditRefuses,
                ApiLive, ApiReady, QueueRoundTrip, SocketPing, Looks
  <2> QED
    BY <1>1, <2>1
<1> QED
  BY <1>2, <1>3, <1>4, <1>5, <1>6 DEF SmokeNext, Smoke

-----------------------------------------------------------------------------
(* The eight records, one after the other.                                 *)

LEMMA RecordsInOrder ==
  /\ Records[1] = "postgres" /\ Records[2] = "migrations" /\ Records[3] = "roles"
  /\ Records[4] = "audit" /\ Records[5] = "live" /\ Records[6] = "ready"
  /\ Records[7] = "queue" /\ Records[8] = "socket"
  /\ Names = {"postgres", "migrations", "roles", "audit", "live", "ready", "queue", "socket"}
  /\ 1..8 = {1, 2, 3, 4, 5, 6, 7, 8}
<1>1. 1..8 = {1, 2, 3, 4, 5, 6, 7, 8}
  OBVIOUS
<1> QED
  BY <1>1 DEF Records, Names

\* The i-th record is made exactly when the smoke test has come past it.
Made(n, i) == results[n] = "none" <=> next <= i

Progress ==
  /\ Made("postgres", 1) /\ Made("migrations", 2) /\ Made("roles", 3) /\ Made("audit", 4)
  /\ Made("live", 5) /\ Made("ready", 6) /\ Made("queue", 7) /\ Made("socket", 8)
  /\ next <= 6 => job = "none"

\* The place of the record that is being made.
LEMMA PlaceOf ==
  ASSUME NEW k \in 1..8
  PROVE  /\ Records[k] \in Names
         /\ Records[k] = "postgres" <=> k = 1
         /\ Records[k] = "migrations" <=> k = 2
         /\ Records[k] = "roles" <=> k = 3
         /\ Records[k] = "audit" <=> k = 4
         /\ Records[k] = "live" <=> k = 5
         /\ Records[k] = "ready" <=> k = 6
         /\ Records[k] = "queue" <=> k = 7
         /\ Records[k] = "socket" <=> k = 8
<1>1. k \in {1, 2, 3, 4, 5, 6, 7, 8}
  OBVIOUS
<1> QED
  BY <1>1, RecordsInOrder

LEMMA LooksRecords ==
  ASSUME SmokeTypeOK, NEW n, NEW v \in Verdicts, Looks(n, v)
  PROVE  /\ n \in Names /\ next \in 1..8 /\ Records[next] = n /\ next' = next + 1
         /\ results' = [results EXCEPT ![n] = v]
         /\ UNCHANGED <<vars, up, env, quiet, job>>
<1>1. /\ next \in 1..8 /\ Records[next] = n /\ next' = next + 1
      /\ results' = [results EXCEPT ![Records[next]] = v]
      /\ UNCHANGED <<vars, up, env, quiet, job>>
  BY DEF Looks, Record
<1>2. Records[next] \in Names
  BY <1>1, PlaceOf
<1> QED
  BY <1>1, <1>2

\* The questions that the smoke test asks.
Asked == IF env.ledger # {} THEN env.ledger ELSE env.main
LedgerSaysOk == \E u \in Asked : StatusCode(db[u.d], u.role) = "ok"
RolesThere == \E u \in env.main : db[u.d].roles = "present"
Reached == {u \in env.runtime : Connects(db[u.d], u.role)}
Refusing == \A u \in Reached : ~May(db[u.d], u.role, "UPDATE", "audit_log")
Unguarded ==
  \E u \in Reached : May([db[u.d] EXCEPT !.guard = {}], u.role, "UPDATE", "audit_log")
ApiConnects == Connects(db[Served], "runtime_app")
QueueSent == \E u \in env.main : May(db[u.d], u.role, "INSERT", "job")
QueueReadable == \E u \in env.main : May(db[u.d], u.role, "SELECT", "job")
WorkerWorks ==
  /\ "worker" \in up /\ \E u \in env.main : u.d = Served
  /\ May(db[Served], "runtime_worker", "UPDATE", "job")

\* A verdict that was recorded is what the step found.
Found(n, v) ==
  /\ n = "migrations" => /\ v = "PASS" => LedgerSaysOk
                         /\ v = "FAIL" => ~LedgerSaysOk
                         /\ v = "BLOCKED" => ~Connected
  /\ n = "roles" => /\ v = "PASS" => RolesThere
                    /\ v = "FAIL" => ~RolesThere
                    /\ v = "BLOCKED" => ~Connected
  /\ n = "audit" => /\ v = "PASS" => Reached # {} /\ Refusing
                    /\ v = "FAIL" => Unguarded
                    /\ v = "BLOCKED" => Reached = {}
  /\ n = "live" => /\ v = "PASS" => "api" \in up
                   /\ v # "FAIL"
                   /\ v = "BLOCKED" => "api" \notin up
  /\ n = "ready" => /\ v = "FAIL" => ~ApiConnects
                    /\ v = "BLOCKED" => "api" \notin up
  /\ n = "socket" => /\ v = "FAIL" => "api" \notin up
                     /\ v # "BLOCKED"
  /\ n = "queue" => /\ v = "PASS" => job = "completed"
                    /\ v = "FAIL" => job # "completed"
                    /\ v = "BLOCKED" => ~Connected \/ job = "none" \/ ~QueueReadable

\* The steps that only look record what they find.
LEMMA LookingFinds ==
  ASSUME SmokeTypeOK,
         \/ Postgres \/ MigrationsApplied \/ RolesExist \/ AuditRefuses
         \/ ApiLive \/ ApiReady \/ QueueRoundTrip \/ SocketPing
  PROVE  \E n \in Names, v \in Verdicts : Looks(n, v) /\ Found(n, v)
<1>1. ASSUME NEW n, NEW v \in Verdicts, Looks(n, v), Found(n, v)
      PROVE  \E m \in Names, w \in Verdicts : Looks(m, w) /\ Found(m, w)
  BY <1>1, LooksRecords
<1>2. CASE Postgres
  <2> DEFINE v == IF \E u \in env.main : Connects(db[u.d], u.role) THEN "PASS" ELSE "BLOCKED"
  <2>1. Looks("postgres", v) /\ v \in Verdicts
    BY <1>2 DEF Postgres, Verdicts
  <2> HIDE DEF v
  <2>2. Found("postgres", v)
    BY DEF Found
  <2> QED
    BY <1>1, <2>1, <2>2
<1>3. CASE MigrationsApplied
  <2> DEFINE v == IF ~Connected THEN "BLOCKED" ELSE IF LedgerSaysOk THEN "PASS" ELSE "FAIL"
  <2>1. Looks("migrations", v)
    BY <1>3 DEF MigrationsApplied, LedgerSaysOk, Asked
  <2>2. Found("migrations", v) /\ v \in Verdicts
    BY DEF Found, Verdicts
  <2> HIDE DEF v
  <2> QED
    BY <1>1, <2>1, <2>2
<1>4. CASE RolesExist
  <2> DEFINE v == IF ~Connected THEN "BLOCKED" ELSE IF RolesThere THEN "PASS" ELSE "FAIL"
  <2>1. Looks("roles", v)
    BY <1>4 DEF RolesExist, RolesThere
  <2>2. Found("roles", v) /\ v \in Verdicts
    BY DEF Found, Verdicts
  <2> HIDE DEF v
  <2> QED
    BY <1>1, <2>1, <2>2
<1>5. CASE AuditRefuses
  <2>1. \/ Reached = {} /\ Looks("audit", "BLOCKED")
        \/ Reached # {} /\ Refusing /\ Looks("audit", "PASS")
        \/ Unguarded /\ Looks("audit", "FAIL")
    BY <1>5 DEF AuditRefuses, Reached, Refusing, Unguarded
  <2>2. /\ Reached = {} => Found("audit", "BLOCKED")
        /\ Reached # {} /\ Refusing => Found("audit", "PASS")
        /\ Unguarded => Found("audit", "FAIL")
    BY DEF Found
  <2> QED
    BY <1>1, <2>1, <2>2 DEF Verdicts
<1>6. CASE ApiLive
  <2> DEFINE v == IF "api" \in up THEN "PASS" ELSE "BLOCKED"
  <2>1. Looks("live", v)
    BY <1>6 DEF ApiLive
  <2>2. Found("live", v) /\ v \in Verdicts
    BY DEF Found, Verdicts
  <2> HIDE DEF v
  <2> QED
    BY <1>1, <2>1, <2>2
<1>7. CASE ApiReady
  <2> DEFINE v == IF "api" \notin up THEN "BLOCKED" ELSE IF ApiConnects THEN "PASS" ELSE "FAIL"
  <2>1. Looks("ready", v)
    BY <1>7 DEF ApiReady, ApiConnects
  <2>2. Found("ready", v) /\ v \in Verdicts
    BY DEF Found, Verdicts
  <2> HIDE DEF v
  <2> QED
    BY <1>1, <2>1, <2>2
<1>8. CASE QueueRoundTrip
  <2> DEFINE v == IF ~QueueReadable THEN "BLOCKED" ELSE IF job = "completed" THEN "PASS" ELSE "FAIL"
  <2>1. (~Connected /\ Looks("queue", "BLOCKED")) \/ Looks("queue", v)
    BY <1>8 DEF QueueRoundTrip, QueueReadable
  <2>2. Found("queue", v) /\ v \in Verdicts /\ (~Connected => Found("queue", "BLOCKED"))
    BY DEF Found, Verdicts
  <2> HIDE DEF v
  <2> QED
    BY <1>1, <2>1, <2>2 DEF Verdicts
<1>9. CASE SocketPing
  <2> DEFINE v == IF "api" \in up /\ HandlePing = "ack" THEN "PASS" ELSE "FAIL"
  <2>1. Looks("socket", v)
    BY <1>9 DEF SocketPing
  <2>2. Found("socket", v) /\ v \in Verdicts
    BY DEF Found, Verdicts, HandlePing
  <2> HIDE DEF v
  <2> QED
    BY <1>1, <2>1, <2>2
<1> QED
  BY <1>2, <1>3, <1>4, <1>5, <1>6, <1>7, <1>8, <1>9

\* What enqueue-health does to the records and the job.
LEMMA EnqueueRecords ==
  ASSUME SmokeTypeOK, Enqueue
  PROVE  /\ next = 7 /\ job = "none" /\ Connected /\ UNCHANGED <<disk, up, env, quiet>>
         /\ \/ job' = "sent" /\ UNCHANGED <<next, results>>
            \/ /\ next' = next + 1 /\ results' = [results EXCEPT !["queue"] = "BLOCKED"]
               /\ job' = job
BY PlaceOf DEF Enqueue

\* A record for the place that comes next keeps the records in order.
LEMMA RecordProgress ==
  ASSUME SmokeTypeOK, Progress, NEW n \in Names, NEW v \in Verdicts,
         next \in 1..8, Records[next] = n, next' = next + 1,
         results' = [results EXCEPT ![n] = v], next <= 5 => job' = job
  PROVE  /\ results' \in [Names -> Verdicts \cup {"none"}] /\ next' \in 0..10
         /\ Progress' /\ results[n] = "none"
<1>1. /\ results' \in [Names -> Verdicts \cup {"none"}] /\ next' \in 0..10
      /\ results \in [Names -> Verdicts \cup {"none"}] /\ v # "none"
  BY DEF SmokeTypeOK, Verdicts
<1>2. \A m \in Names : results'[m] = IF m = n THEN v ELSE results[m]
  BY <1>1
<1> DEFINE Fits(m, i) == Made(m, i)' /\ (m = n => results[m] = "none")
<1>3. ASSUME NEW m \in Names, NEW i \in 1..8, Records[next] = m <=> next = i, Made(m, i)
      PROVE  Fits(m, i)
  BY <1>1, <1>2, <1>3 DEF Made
<1> HIDE DEF Fits
<1>4. /\ "postgres" \in Names /\ "migrations" \in Names /\ "roles" \in Names
      /\ "audit" \in Names /\ "live" \in Names /\ "ready" \in Names
      /\ "queue" \in Names /\ "socket" \in Names
  BY RecordsInOrder
<1>5. /\ Fits("postgres", 1) /\ Fits("migrations", 2) /\ Fits("roles", 3)
      /\ Fits("audit", 4) /\ Fits("live", 5) /\ Fits("ready", 6)
      /\ Fits("queue", 7) /\ Fits("socket", 8)
  BY <1>3, <1>4, PlaceOf DEF Progress
<1>6. next' <= 6 => job' = "none"
  BY DEF Progress
<1>7. results[n] = "none"
  BY <1>5, RecordsInOrder DEF Fits
<1> QED
  BY <1>1, <1>5, <1>6, <1>7 DEF Fits, Progress

\* The smoke test's own variables.
Types ==
  /\ up \subseteq {"api", "worker"}
  /\ env \in Environments \cup {Unread}
  /\ next \in 0..10
  /\ results \in [Names -> Verdicts \cup {"none"}]
  /\ job \in {"none", "sent", "completed", "lost"}
  /\ quiet \in {"yes", "no"}

LEMMA ProgressStep ==
  ASSUME SmokeTypeOK, Progress, SmokeNext
  PROVE  Types' /\ Progress'
<1>1. Types
  BY DEF Types, SmokeTypeOK
<1>2. CASE Script
  <2>1. job' \in {job, "lost"} /\ (job = "none" => job' = "none") /\ quiet' = "no"
        /\ UNCHANGED <<up, env, next, results>>
    BY <1>2 DEF Script
  <2> QED
    BY <1>1, <2>1 DEF Types, Progress, Made
<1>3. ASSUME NEW s \in {"api", "worker"}, Operate(s)
      PROVE  Types' /\ Progress'
  <2>1. up' \subseteq {"api", "worker"} /\ quiet' = "no" /\ UNCHANGED <<env, next, results, job>>
    BY <1>1, <1>3 DEF Operate, Types
  <2> QED
    BY <1>1, <2>1 DEF Types, Progress, Made
<1>4. CASE WorkerCompletes
  <2>1. job = "sent" /\ job' = "completed" /\ UNCHANGED <<up, env, next, results, quiet>>
    BY <1>4 DEF WorkerCompletes
  <2> QED
    BY <1>1, <2>1 DEF Types, Progress, Made
<1>5. CASE Start
  <2>1. /\ next = 0 /\ next' = 1 /\ env' \in Environments /\ quiet' = "yes"
        /\ UNCHANGED <<up, results, job>>
    BY <1>5 DEF Start
  <2> QED
    BY <1>1, <2>1 DEF Types, Progress, Made
<1>6. CASE Summary
  <2>1. next = 9 /\ next' = 10 /\ UNCHANGED <<up, env, results, job, quiet>>
    BY <1>6 DEF Summary
  <2> QED
    BY <1>1, <2>1 DEF Types, Progress, Made
<1>7. CASE Enqueue
  <2>1. /\ next = 7 /\ UNCHANGED <<up, env, quiet>>
        /\ \/ job' = "sent" /\ UNCHANGED <<next, results>>
           \/ /\ next' = next + 1 /\ results' = [results EXCEPT !["queue"] = "BLOCKED"]
              /\ job' = job
    BY <1>7, EnqueueRecords
  <2>2. CASE job' = "sent" /\ UNCHANGED <<next, results>>
    BY <1>1, <2>1, <2>2 DEF Types, Progress, Made
  <2>3. CASE /\ next' = next + 1 /\ results' = [results EXCEPT !["queue"] = "BLOCKED"]
             /\ job' = job
    <3>1. "queue" \in Names /\ Records[7] = "queue" /\ "BLOCKED" \in Verdicts
      BY RecordsInOrder DEF Verdicts
    <3>2. /\ next \in 1..8 /\ Records[next] = "queue" /\ (next <= 5 => job' = job)
          /\ next' = next + 1 /\ results' = [results EXCEPT !["queue"] = "BLOCKED"]
      BY <2>1, <2>3, <3>1
    <3>3. results' \in [Names -> Verdicts \cup {"none"}] /\ next' \in 0..10 /\ Progress'
      BY <3>1, <3>2, RecordProgress
    <3> QED
      BY <1>1, <2>1, <2>3, <3>3 DEF Types
  <2> QED
    BY <2>1, <2>2, <2>3
<1>8. CASE \/ Postgres \/ MigrationsApplied \/ RolesExist \/ AuditRefuses
           \/ ApiLive \/ ApiReady \/ QueueRoundTrip \/ SocketPing
  <2>1. PICK n \in Names, v \in Verdicts : Looks(n, v)
    BY <1>8, LookingFinds
  <2>2. /\ next \in 1..8 /\ Records[next] = n /\ next' = next + 1
        /\ results' = [results EXCEPT ![n] = v] /\ UNCHANGED <<up, env, quiet, job>>
    BY <2>1, LooksRecords
  <2>3. results' \in [Names -> Verdicts \cup {"none"}] /\ next' \in 0..10 /\ Progress'
    BY <2>2, RecordProgress
  <2> QED
    BY <1>1, <2>2, <2>3 DEF Types
<1> QED
  BY <1>2, <1>3, <1>4, <1>5, <1>6, <1>7, <1>8 DEF SmokeNext, Smoke

-----------------------------------------------------------------------------
(* The databases stay what DatabaseRolesProofs shows them to be.           *)

Base == SmokeTypeOK /\ RolesInv /\ Progress

LEMMA InitBase == SmokeInit => Base
<1> SUFFICES ASSUME SmokeInit PROVE Base
  OBVIOUS
<1>1. RolesInv /\ TypeOK
  BY InitRolesInv DEF SmokeInit, RolesInv
<1>2. SmokeTypeOK
  BY <1>1 DEF SmokeInit, SmokeTypeOK
<1>3. Progress
  BY RecordsInOrder DEF SmokeInit, Progress, Made
<1> QED
  BY <1>1, <1>2, <1>3 DEF Base

LEMMA BaseStep ==
  ASSUME Base, [SmokeNext]_<<vars, smokeVars>>
  PROVE  Base' /\ (BoundaryStep \/ UNCHANGED vars)
<1>1. CASE SmokeNext
  <2>1. RolesInv' /\ BoundaryStep
    BY <1>1, MeanwhileRolesStep DEF Base
  <2>2. Types' /\ Progress'
    BY <1>1, ProgressStep DEF Base
  <2>3. SmokeTypeOK'
    BY <2>1, <2>2 DEF SmokeTypeOK, Types, RolesInv
  <2> QED
    BY <2>1, <2>2, <2>3 DEF Base
<1>2. CASE UNCHANGED <<vars, smokeVars>>
  <2>1. UNCHANGED vars /\ UNCHANGED <<up, env, next, results, job, quiet>>
    BY <1>2 DEF smokeVars
  <2>2. RolesInv'
    BY <2>1 DEF Base, vars, RolesInv, TypeOK, DatabasesSound, RestoresFit, StagesFit
  <2>3. Progress'
    BY <2>1 DEF Base, Progress, Made
  <2>4. SmokeTypeOK'
    BY <2>1, <2>2 DEF Base, SmokeTypeOK, RolesInv
  <2> QED
    BY <2>1, <2>2, <2>3, <2>4 DEF Base
<1> QED
  BY <1>1, <1>2

LEMMA AlwaysBase == SmokeSpec => []Base
<1>1. Base /\ [SmokeNext]_<<vars, smokeVars>> => Base'
  BY BaseStep
<1> QED
  BY InitBase, <1>1, PTL DEF SmokeSpec

\* The databases, the services and the smoke test keep their types.
THEOREM SmokeTypesOK == SmokeSpec => []SmokeTypeOK
BY AlwaysBase, PTL DEF Base

\* What the scripts promise of the databases they promise with the smoke test,
\* its installation of the queue and its worker among them as well.
THEOREM ScriptsKeepTheirWord ==
  SmokeSpec => [](AuditProtected /\ LeastPrivilege /\ CleanOrderIsUsable /\ StatusIsAGate)
<1>1. Base => AuditProtected /\ LeastPrivilege /\ CleanOrderIsUsable /\ StatusIsAGate
  BY GuardProtects, PrivilegedOwn, ReadyIsUsable, AppliedIsAGate DEF Base
<1> QED
  BY <1>1, AlwaysBase, PTL

\* The privilege boundary is lost to nothing that the smoke test does either.
THEOREM SmokeKeepsTheBoundary == SmokeSpec => BoundaryLostByRestoreOnly
<1>1. Base /\ [SmokeNext]_<<vars, smokeVars>> => [BoundaryStep]_vars
  BY BaseStep
<1>2. SmokeSpec => [][BoundaryStep]_vars
  BY <1>1, AlwaysBase, PTL DEF SmokeSpec
<1> QED
  BY <1>2, BoundaryBySteps

-----------------------------------------------------------------------------
(* What the smoke test has been told is so.                                *)

\* Every verdict recorded so far says of the system what is the case now.
ToldDatabase ==
  /\ results["migrations"] = "PASS" => LedgerSaysOk
  /\ results["migrations"] = "FAIL" => ~LedgerSaysOk
  /\ results["migrations"] = "BLOCKED" => ~Connected
  /\ results["roles"] = "PASS" => RolesThere
  /\ results["roles"] = "FAIL" => ~RolesThere
  /\ results["roles"] = "BLOCKED" => ~Connected
  /\ results["audit"] = "PASS" => Reached # {} /\ Refusing
  /\ results["audit"] = "FAIL" => Unguarded
  /\ results["audit"] = "BLOCKED" => Reached = {}
ToldServices ==
  /\ results["live"] = "PASS" => "api" \in up
  /\ results["live"] # "FAIL"
  /\ results["live"] = "BLOCKED" => "api" \notin up
  /\ results["ready"] = "FAIL" => ~ApiConnects
  /\ results["ready"] = "BLOCKED" => "api" \notin up
  /\ results["socket"] = "FAIL" => "api" \notin up
  /\ results["socket"] # "BLOCKED"
ToldQueue ==
  /\ results["queue"] = "PASS" => job = "completed"
  /\ results["queue"] = "FAIL" => job # "completed"
  /\ results["queue"] = "BLOCKED" => ~Connected \/ job = "none" \/ ~QueueReadable
  /\ job # "lost"
  /\ job # "none" => Connected /\ QueueSent
  /\ job = "completed" => WorkerWorks
Told == ToldDatabase /\ ToldServices /\ ToldQueue

SmokeInv == Base /\ (quiet = "yes" => Told)

\* Looking changes none of the answers.
SameAnswers ==
  /\ LedgerSaysOk' <=> LedgerSaysOk
  /\ RolesThere' <=> RolesThere
  /\ Reached' = Reached
  /\ Refusing' <=> Refusing
  /\ Unguarded' <=> Unguarded
  /\ ApiConnects' <=> ApiConnects

LEMMA AnswersSame ==
  ASSUME db' = db, disk' = disk, up' = up, env' = env
  PROVE  /\ SameAnswers /\ (QueueSent' <=> QueueSent) /\ (QueueReadable' <=> QueueReadable)
         /\ WorkerWorks' <=> WorkerWorks
<1>1. Reached' = Reached /\ Asked' = Asked
  BY DEF Reached, Asked
<1>2. LedgerSaysOk' <=> LedgerSaysOk
  BY <1>1 DEF LedgerSaysOk, StatusCode
<1>3. (Refusing' <=> Refusing) /\ (Unguarded' <=> Unguarded)
  BY <1>1 DEF Refusing, Unguarded
<1>4. (RolesThere' <=> RolesThere) /\ (ApiConnects' <=> ApiConnects)
  BY DEF RolesThere, ApiConnects
<1>5. /\ (QueueSent' <=> QueueSent) /\ (QueueReadable' <=> QueueReadable)
      /\ WorkerWorks' <=> WorkerWorks
  BY DEF QueueSent, QueueReadable, WorkerWorks
<1> QED
  BY <1>1, <1>2, <1>3, <1>4, <1>5 DEF SameAnswers

\* A database where only the queue differs gives every role the same answers.
SameButQueue(b, c) ==
  /\ c.roles = b.roles /\ c.applied = b.applied /\ c.guard = b.guard /\ c.usage = b.usage
  /\ c.schema["public"] = b.schema["public"]
  /\ \A t \in Tables \ {"job"} : c.owner[t] = b.owner[t] /\ c.grants[t] = b.grants[t]

LEMMA QueueMadeSame ==
  ASSUME NEW b, Sound(b), NEW r \in Roles, MakesQueue(b, r)
  PROVE  SameButQueue(b, QueueMade(b, r))
<1> DEFINE g == Initial(b, r, "pgboss")
           w == WithTable(b, "job", r, g)
           c == QueueMade(b, r)
<1>4. g \in Grants
  BY InitialGrants
<1>2. c = [w EXCEPT !.schema["pgboss"] = IF @ = "none" THEN r ELSE @]
  BY DEF QueueMade
<1> HIDE DEF g
<1>5. /\ w \in Database
      /\ w.owner = [b.owner EXCEPT !["job"] = r] /\ w.grants = [b.grants EXCEPT !["job"] = g]
      /\ w.roles = b.roles /\ w.applied = b.applied /\ w.guard = b.guard
      /\ w.usage = b.usage /\ w.schema = b.schema
  BY <1>4, WithTableFields DEF Sound, Tables
<1>1. /\ w \in Database /\ w.roles = b.roles /\ w.applied = b.applied /\ w.guard = b.guard
      /\ w.usage = b.usage /\ w.schema = b.schema
      /\ \A t \in Tables \ {"job"} : w.owner[t] = b.owner[t] /\ w.grants[t] = b.grants[t]
  <2> HIDE DEF w
  <2> QED
    BY <1>5 DEF Sound, Database
<1> SUFFICES SameButQueue(b, c)
  OBVIOUS
<1> HIDE DEF w, c
<1>3. /\ c.roles = w.roles /\ c.applied = w.applied /\ c.guard = w.guard /\ c.usage = w.usage
      /\ c.schema["public"] = w.schema["public"] /\ c.owner = w.owner /\ c.grants = w.grants
  BY <1>1, <1>2 DEF Database, Schemas
<1> QED
  BY <1>1, <1>3 DEF SameButQueue

Bared(b) == [b EXCEPT !.guard = {}]

LEMMA SameMay ==
  ASSUME NEW b \in Database, NEW c \in Database, SameButQueue(b, c),
         NEW r, NEW t \in {"pgmigrations", "audit_log"}, NEW op
  PROVE  /\ Connects(c, r) <=> Connects(b, r)
         /\ May(c, r, op, t) <=> May(b, r, op, t)
         /\ May(Bared(c), r, op, t) <=> May(Bared(b), r, op, t)
<1>1. SchemaOf(t) = "public" /\ t \in Tables \ {"job"}
  BY DEF SchemaOf, Tables
<1>2. Connects(c, r) <=> Connects(b, r)
  BY DEF SameButQueue, Connects
<1>3. May(c, r, op, t) <=> May(b, r, op, t)
  BY <1>1 DEF SameButQueue, May, Holds
<1> DEFINE b0 == Bared(b)
           c0 == Bared(c)
<1>4. /\ b0.owner = b.owner /\ b0.grants = b.grants /\ b0.schema = b.schema
      /\ b0.usage = b.usage /\ b0.guard = {}
      /\ c0.owner = c.owner /\ c0.grants = c.grants /\ c0.schema = c.schema
      /\ c0.usage = c.usage /\ c0.guard = {}
  BY DEF Database, Bared
<1> HIDE DEF b0, c0
<1>5. May(c0, r, op, t) <=> May(b0, r, op, t)
  BY <1>1, <1>4 DEF SameButQueue, May, Holds
<1> QED
  BY <1>2, <1>3, <1>5 DEF b0, c0

\* The smoke test's own installation of the queue changes none of the answers it
\* was given before.
LEMMA EnqueueSame ==
  ASSUME Base, Enqueue
  PROVE  SameAnswers
<1>1. PICK u \in env.main :
        db' = [db EXCEPT ![u.d] = IF MakesQueue(db[u.d], u.role)
                                  THEN QueueMade(db[u.d], u.role) ELSE db[u.d]]
  BY DEF Enqueue
<1>2. u.d \in Databases /\ u.role \in Roles /\ disk' = disk /\ env' = env
  BY EnvironmentsAssumption DEF Base, SmokeTypeOK, URLs, Unread, Enqueue
<1>3. /\ db \in [Databases -> Database] /\ db' \in [Databases -> Database]
      /\ \A d \in Databases : Sound(db[d])
  BY EnqueueRolesStep DEF Base, RolesInv, TypeOK, DatabasesSound
<1>4. ASSUME NEW d \in Databases
      PROVE  SameButQueue(db[d], db'[d])
  <2>1. CASE d = u.d /\ MakesQueue(db[d], u.role)
    <3>1. db'[d] = QueueMade(db[d], u.role)
      BY <1>1, <1>2, <1>3, <2>1
    <3> QED
      BY <1>2, <1>3, <2>1, <3>1, QueueMadeSame
  <2>2. CASE ~(d = u.d /\ MakesQueue(db[d], u.role))
    <3>1. db'[d] = db[d]
      BY <1>1, <1>2, <1>3, <2>2
    <3> QED
      BY <3>1 DEF SameButQueue
  <2> QED
    BY <2>1, <2>2
<1>5. ASSUME NEW d \in Databases, NEW r
      PROVE  /\ Connects(db'[d], r) <=> Connects(db[d], r)
             /\ \A op : May(db'[d], r, op, "audit_log") <=> May(db[d], r, op, "audit_log")
             /\ \A op : May([db'[d] EXCEPT !.guard = {}], r, op, "audit_log")
                          <=> May([db[d] EXCEPT !.guard = {}], r, op, "audit_log")
             /\ \A op : May(db'[d], r, op, "pgmigrations") <=> May(db[d], r, op, "pgmigrations")
             /\ db'[d].roles = db[d].roles
             /\ db'[d].applied = db[d].applied
             /\ db'[d].owner["pgmigrations"] = db[d].owner["pgmigrations"]
  <2>1. db[d] \in Database /\ db'[d] \in Database /\ SameButQueue(db[d], db'[d])
    BY <1>3, <1>4
  <2>2. "pgmigrations" \in Tables \ {"job"}
    BY DEF Tables
  <2>3. ASSUME NEW op, NEW t \in {"pgmigrations", "audit_log"}
        PROVE  /\ Connects(db'[d], r) <=> Connects(db[d], r)
               /\ May(db'[d], r, op, t) <=> May(db[d], r, op, t)
               /\ May(Bared(db'[d]), r, op, t) <=> May(Bared(db[d]), r, op, t)
    BY <2>1, SameMay
  <2> QED
    BY <2>1, <2>2, <2>3 DEF SameButQueue, Bared
<1>6. /\ \A v \in env.main \cup env.ledger \cup env.runtime : v.d \in Databases
      /\ Served \in Databases
  BY EnvironmentsAssumption DEF Base, SmokeTypeOK, URLs, Unread
<1>7. Asked' = Asked /\ Asked \subseteq env.main \cup env.ledger
  BY <1>2 DEF Asked
<1>8. LedgerSaysOk' <=> LedgerSaysOk
  BY <1>2, <1>5, <1>6, <1>7 DEF LedgerSaysOk, StatusCode
<1>9. RolesThere' <=> RolesThere
  BY <1>2, <1>5, <1>6 DEF RolesThere
<1>10. Reached' = Reached /\ Reached \subseteq env.runtime
  BY <1>2, <1>5, <1>6 DEF Reached
<1>11. (Refusing' <=> Refusing) /\ (Unguarded' <=> Unguarded)
  BY <1>5, <1>6, <1>10 DEF Refusing, Unguarded
<1>12. ApiConnects' <=> ApiConnects
  BY <1>5, <1>6 DEF ApiConnects
<1> QED
  BY <1>8, <1>9, <1>10, <1>11, <1>12 DEF SameAnswers

\* Nothing has been recorded after the place of the smoke test.
LEMMA NothingAhead ==
  ASSUME SmokeTypeOK, Progress
  PROVE  /\ next <= 1 => results["migrations"] = "none" /\ results["roles"] = "none"
                           /\ results["queue"] = "none" /\ job = "none"
         /\ next = 7 => results["queue"] = "none"
         /\ next = 0 => \A n \in Names : results[n] = "none"
BY RecordsInOrder DEF SmokeTypeOK, Progress, Made

LEMMA LookingTold ==
  ASSUME Base, Told, NEW n \in Names, NEW v \in Verdicts, Looks(n, v), Found(n, v)
  PROVE  Told'
<1>1. /\ next \in 1..8 /\ Records[next] = n /\ results' = [results EXCEPT ![n] = v]
      /\ UNCHANGED <<vars, up, env, quiet, job>>
      /\ results \in [Names -> Verdicts \cup {"none"}]
  BY LooksRecords DEF Base, SmokeTypeOK
<1>2. \A m \in Names : results'[m] = IF m = n THEN v ELSE results[m]
  BY <1>1
<1>3. /\ SameAnswers /\ (QueueSent' <=> QueueSent) /\ (QueueReadable' <=> QueueReadable)
      /\ WorkerWorks' <=> WorkerWorks
  BY <1>1, AnswersSame DEF vars
<1>4. n = "postgres" => /\ results["migrations"] = "none" /\ results["roles"] = "none"
                        /\ results["queue"] = "none" /\ job = "none"
  <2>1. n = "postgres" => next <= 1
    BY <1>1, PlaceOf
  <2> QED
    BY <2>1, NothingAhead DEF Base
<1>5. /\ "postgres" \in Names /\ "migrations" \in Names /\ "roles" \in Names
      /\ "audit" \in Names /\ "live" \in Names /\ "ready" \in Names
      /\ "queue" \in Names /\ "socket" \in Names
  BY RecordsInOrder
<1>6. n # "postgres" => (Connected' <=> Connected)
  BY <1>2, <1>5 DEF Connected
<1>7. ToldDatabase'
  BY <1>2, <1>3, <1>4, <1>5, <1>6 DEF Told, ToldDatabase, Found, SameAnswers
<1>8. ToldServices'
  BY <1>1, <1>2, <1>3, <1>5 DEF Told, ToldServices, Found, SameAnswers
<1>9. ToldQueue'
  BY <1>1, <1>2, <1>3, <1>4, <1>5, <1>6 DEF Told, ToldQueue, Found
<1> QED
  BY <1>7, <1>8, <1>9 DEF Told

LEMMA EnqueueTold ==
  ASSUME Base, Told, Enqueue
  PROVE  Told'
<1>1. /\ next = 7 /\ job = "none" /\ Connected /\ UNCHANGED <<disk, up, env, quiet>>
      /\ \/ job' = "sent" /\ UNCHANGED <<next, results>>
         \/ /\ next' = next + 1 /\ results' = [results EXCEPT !["queue"] = "BLOCKED"]
            /\ job' = job
      /\ results \in [Names -> Verdicts \cup {"none"}]
  BY EnqueueRecords DEF Base, SmokeTypeOK
<1>2. SameAnswers
  BY EnqueueSame
<1>3. results["queue"] = "none"
  BY <1>1, NothingAhead DEF Base
<1>4. /\ "postgres" \in Names /\ "migrations" \in Names /\ "roles" \in Names
      /\ "audit" \in Names /\ "live" \in Names /\ "ready" \in Names
      /\ "queue" \in Names /\ "socket" \in Names
  BY RecordsInOrder
<1>5. \A m \in Names \ {"queue"} : results'[m] = results[m]
  BY <1>1
<1>6. Connected' /\ results'["queue"] \in {"none", "BLOCKED"}
      /\ (results'["queue"] = "BLOCKED" => job' = "none")
  BY <1>1, <1>3, <1>4, <1>5 DEF Connected
<1>7. job' = "sent" => QueueSent'
  <2> SUFFICES ASSUME job' = "sent" PROVE QueueSent'
    OBVIOUS
  <2>1. PICK u \in env.main :
          LET b == IF MakesQueue(db[u.d], u.role) THEN QueueMade(db[u.d], u.role) ELSE db[u.d]
          IN /\ db' = [db EXCEPT ![u.d] = b]
             /\ May(b, u.role, "INSERT", "job")
    BY <1>1 DEF Enqueue
  <2>2. u.d \in Databases /\ db \in [Databases -> Database]
    BY EnvironmentsAssumption DEF Base, SmokeTypeOK, TypeOK, URLs, Unread
  <2>3. May(db'[u.d], u.role, "INSERT", "job")
    BY <2>1, <2>2
  <2> QED
    BY <1>1, <2>3 DEF QueueSent
<1>8. ToldDatabase'
  BY <1>1, <1>2, <1>4, <1>5, <1>6 DEF Told, ToldDatabase, SameAnswers
<1>9. ToldServices'
  BY <1>1, <1>2, <1>4, <1>5 DEF Told, ToldServices, SameAnswers
<1>10. ToldQueue'
  BY <1>1, <1>6, <1>7 DEF Told, ToldQueue
<1> QED
  BY <1>8, <1>9, <1>10 DEF Told

LEMMA ToldStep ==
  ASSUME SmokeInv, [SmokeNext]_<<vars, smokeVars>>
  PROVE  SmokeInv'
<1>1. Base /\ Base'
  BY BaseStep DEF SmokeInv
<1> SUFFICES ASSUME quiet' = "yes" PROVE Told'
  BY <1>1 DEF SmokeInv
<1>2. results \in [Names -> Verdicts \cup {"none"}]
  BY <1>1 DEF Base, SmokeTypeOK
<1>3. ASSUME quiet = "yes", UNCHANGED <<vars, up, env, results, job>>
      PROVE  Told'
  <2>1. /\ SameAnswers /\ (QueueSent' <=> QueueSent) /\ (QueueReadable' <=> QueueReadable)
        /\ (WorkerWorks' <=> WorkerWorks) /\ Told /\ (Connected' <=> Connected)
    BY <1>3, AnswersSame DEF vars, SmokeInv, Connected
  <2> QED
    BY <1>3, <2>1 DEF Told, ToldDatabase, ToldServices, ToldQueue, SameAnswers
<1>4. CASE UNCHANGED <<vars, smokeVars>>
  BY <1>3, <1>4 DEF smokeVars
<1>5. CASE Script \/ \E s \in {"api", "worker"} : Operate(s)
  BY <1>5 DEF Script, Operate
<1>6. CASE WorkerCompletes
  <2>1. /\ job = "sent" /\ job' = "completed" /\ results["queue"] = "none" /\ quiet = "yes"
        /\ UNCHANGED <<vars, up, env, results>> /\ WorkerWorks
    BY <1>6 DEF WorkerCompletes, WorkerWorks
  <2>2. /\ SameAnswers /\ (QueueSent' <=> QueueSent) /\ (WorkerWorks' <=> WorkerWorks)
        /\ Told /\ (Connected' <=> Connected)
    BY <2>1, AnswersSame DEF vars, SmokeInv, Connected
  <2> QED
    BY <2>1, <2>2 DEF Told, ToldDatabase, ToldServices, ToldQueue, SameAnswers
<1>7. CASE Start
  <2>1. next = 0 /\ UNCHANGED <<results, job>>
    BY <1>7 DEF Start
  <2>2. job' = "none" /\ \A n \in Names : results'[n] = "none"
    BY <1>1, <2>1, NothingAhead DEF Base
  <2> QED
    BY <2>2, RecordsInOrder DEF Told, ToldDatabase, ToldServices, ToldQueue
<1>8. CASE Summary
  <2>1. db' = db /\ disk' = disk /\ up' = up /\ env' = env /\ quiet = "yes" /\ Told
        /\ UNCHANGED <<results, job>>
    BY <1>8 DEF Summary, SmokeInv
  <2>2. /\ SameAnswers /\ (QueueSent' <=> QueueSent) /\ (QueueReadable' <=> QueueReadable)
        /\ (WorkerWorks' <=> WorkerWorks) /\ (Connected' <=> Connected)
    BY <2>1, AnswersSame DEF Connected
  <2> QED
    BY <2>1, <2>2 DEF Told, ToldDatabase, ToldServices, ToldQueue, SameAnswers
<1>9. CASE Enqueue
  <2>1. quiet = "yes"
    BY <1>9 DEF Enqueue
  <2> QED
    BY <1>1, <1>9, <2>1, EnqueueTold DEF SmokeInv
<1>10. CASE \/ Postgres \/ MigrationsApplied \/ RolesExist \/ AuditRefuses
            \/ ApiLive \/ ApiReady \/ QueueRoundTrip \/ SocketPing
  <2>1. PICK n \in Names, v \in Verdicts : Looks(n, v) /\ Found(n, v)
    BY <1>1, <1>10, LookingFinds DEF Base
  <2>2. quiet = "yes"
    BY <1>1, <2>1, LooksRecords DEF Base
  <2> QED
    BY <1>1, <2>1, <2>2, LookingTold DEF SmokeInv
<1> QED
  BY <1>4, <1>5, <1>6, <1>7, <1>8, <1>9, <1>10 DEF SmokeNext, Smoke

LEMMA AlwaysSmokeInv == SmokeSpec => []SmokeInv
<1>1. SmokeInit => SmokeInv
  <2> SUFFICES ASSUME SmokeInit PROVE SmokeInv
    OBVIOUS
  <2>1. quiet = "no"
    BY DEF SmokeInit
  <2> QED
    BY <2>1, InitBase DEF SmokeInv
<1>2. SmokeInv /\ [SmokeNext]_<<vars, smokeVars>> => SmokeInv'
  BY ToldStep
<1> QED
  BY <1>1, <1>2, PTL DEF SmokeSpec

-----------------------------------------------------------------------------
(* The verdict.                                                            *)

\* RUNTIME_APP_DATABASE_URL is runtime_app's, as 10-environment-variables.md (31) has it.
RuntimeDocumented == \A e \in Environments : \A v \in e.runtime : v.role = "runtime_app"

\* MIGRATION_DATABASE_URL is not support's: support may not read the ledger.
LedgerDocumented == \A e \in Environments : \A v \in e.ledger : v.role # Support

\* Who may not UPDATE audit_log may mutate it in no way, and who may UPDATE a job
\* may read it: a runtime role's privileges come together.
LEMMA PrivilegesTogether ==
  ASSUME NEW b, Sound(b), NEW r \in Runtime
  PROVE  /\ b.owner["audit_log"] # "none" /\ ~May(b, r, "UPDATE", "audit_log")
              => \A op \in Mutations : ~May(b, r, op, "audit_log")
         /\ May(b, r, "UPDATE", "job") => May(b, r, "SELECT", "job")
<1>1. /\ "audit_log" \in Tables /\ "job" \in Tables /\ r # Admin
      /\ SchemaOf("audit_log") \in Schemas
  BY DEF Tables, Runtime, Admin, SchemaOf, Schemas
<1>2. /\ b.owner["audit_log"] # r /\ b.grants["audit_log"][r] \in Shares
      /\ b.grants["job"][r] \in Shares /\ b.guard \in {{}, Mutations}
  BY <1>1, NamesDiffer DEF Sound, OwnersPrivileged, GrantsTogether
<1>3. /\ \A op \in Mutations : op \in b.grants["audit_log"][r] => "UPDATE" \in b.grants["audit_log"][r]
      /\ "UPDATE" \in b.grants["job"][r] => "SELECT" \in b.grants["job"][r]
      /\ "UPDATE" \in Mutations
  BY <1>2 DEF Shares, Dml, Mutations
<1>4. b.owner["audit_log"] # "none" /\ ~May(b, r, "UPDATE", "audit_log")
        => \A op \in Mutations : ~May(b, r, op, "audit_log")
  BY <1>1, <1>2, <1>3 DEF May, Holds
<1>5. May(b, r, "UPDATE", "job") => May(b, r, "SELECT", "job")
  BY <1>1, <1>3 DEF May, Holds
<1> QED
  BY <1>4, <1>5

LEMMA PassIsTrue ==
  ASSUME RuntimeDocumented, SmokeInv
  PROVE  PassMeansWired
<1> SUFFICES ASSUME Undisturbed, ExitCode(results) = 0, 2 \in disk,
                    "audit_log" \notin db[Served].torn
             PROVE  LET b == db[Served]
                    IN /\ up = {"api", "worker"}
                       /\ b.roles = "present" /\ b.applied = disk
                       /\ b.owner["audit_log"] # "none"
                       /\ \A op \in Mutations : ~May(b, "runtime_app", op, "audit_log")
                       /\ \A op \in {"SELECT", "UPDATE"} : May(b, "runtime_worker", op, "job")
  BY DEF PassMeansWired
<1> DEFINE b == db[Served]
<1>1. next = 10 /\ Told /\ Base /\ \A u \in env.main, v \in env.ledger \cup env.runtime : u.d = v.d
  BY DEF Undisturbed, SmokeInv
<1>2. \A n \in Names : results[n] = "PASS"
  <2>1. \A n \in Names : results[n] # "FAIL" /\ results[n] # "BLOCKED"
    BY DEF ExitCode
  <2>2. \A n \in Names : results[n] \in {"PASS", "FAIL", "BLOCKED", "none"}
    BY <1>1 DEF Base, SmokeTypeOK, Verdicts
  <2>3. \A n \in Names : results[n] # "none"
    BY <1>1, RecordsInOrder DEF Base, Progress, Made
  <2> QED
    BY <2>1, <2>2, <2>3
<1>3. /\ "api" \in up /\ LedgerSaysOk /\ RolesThere /\ Reached # {} /\ Refusing
      /\ job = "completed" /\ WorkerWorks
  BY <1>1, <1>2, RecordsInOrder DEF Told, ToldDatabase, ToldServices, ToldQueue
<1>4. PICK u \in env.main : u.d = Served
  BY <1>3 DEF WorkerWorks
<1>5. env \in Environments
  BY <1>1, <1>4 DEF Base, SmokeTypeOK, Unread
<1>6. env.main = {u}
  BY <1>4, <1>5, EnvironmentsAssumption DEF URLs
<1>7. b.roles = "present"
  BY <1>3, <1>4, <1>6 DEF RolesThere
<1>8. b.applied = disk
  BY <1>1, <1>3, <1>4, <1>6 DEF LedgerSaysOk, Asked, StatusCode
<1>9. Sound(b)
  BY <1>1, EnvironmentsAssumption DEF Base, RolesInv, DatabasesSound
<1>10. up = {"api", "worker"} /\ May(b, "runtime_worker", "UPDATE", "job")
  BY <1>1, <1>3 DEF WorkerWorks, Base, SmokeTypeOK
<1>11. ~May(b, "runtime_app", "UPDATE", "audit_log")
  <2>1. PICK v \in env.runtime : ~May(db[v.d], v.role, "UPDATE", "audit_log")
    BY <1>3 DEF Reached, Refusing
  <2>2. v.d = Served /\ v.role = "runtime_app"
    BY <1>1, <1>4, <1>5 DEF RuntimeDocumented
  <2> QED
    BY <2>1, <2>2
<1>15. 2 \in b.applied /\ "audit_log" \notin b.torn
  BY <1>8
<1> HIDE DEF b
<1>12. b.owner["audit_log"] # "none"
  BY <1>9, <1>15 DEF Sound, AppliedIsThere
<1>13. "runtime_app" \in Runtime /\ "runtime_worker" \in Runtime
  BY DEF Runtime
<1>14. /\ \A op \in Mutations : ~May(b, "runtime_app", op, "audit_log")
       /\ May(b, "runtime_worker", "SELECT", "job")
  BY <1>9, <1>10, <1>11, <1>12, <1>13, PrivilegesTogether
<1> QED
  BY <1>7, <1>8, <1>10, <1>12, <1>14 DEF b

\* Where RUNTIME_APP_DATABASE_URL names runtime_app, a smoke test that passed, with
\* nothing else running and unless a restore has torn audit_log, has looked at a
\* system that is up, whose roles exist and whose migrations are applied, whose
\* audit_log runtime_app can mutate in no way and whose worker can work on its queue.
THEOREM PassIsWired ==
  ASSUME RuntimeDocumented
  PROVE  SmokeSpec => []PassMeansWired
<1>1. SmokeInv => PassMeansWired
  BY PassIsTrue
<1> QED
  BY <1>1, AlwaysSmokeInv, PTL

\* In a database built in the documented order everybody but support can read the
\* ledger, runtime_app has no privilege to change audit_log, and whoever can send
\* to migration_owner's queue can read it.
LEMMA BuiltGrants ==
  ASSUME NEW b, Sound(b), Ready(b)
  PROVE  /\ \A r \in Roles \ {Support} :
              /\ Connects(b, r)
              /\ b.owner["pgmigrations"] # "none" => May(b, r, "SELECT", "pgmigrations")
         /\ ~May(Bared(b), "runtime_app", "UPDATE", "audit_log")
         /\ \A r \in Roles : b.owner["job"] = Owner /\ May(b, r, "INSERT", "job")
                               => May(b, r, "SELECT", "job")
<1>1. /\ "audit_log" \in Tables /\ "job" \in Tables /\ "pgmigrations" \in Tables
      /\ "public" \in Schemas /\ SchemaOf("pgmigrations") = "public"
      /\ "runtime_app" \in Runtime /\ "UPDATE" \in Mutations
      /\ Roles = {Admin, Owner, Support} \cup Runtime
      /\ "runtime_app" # Admin /\ "runtime_app" # Owner
  BY DEF Tables, Schemas, SchemaOf, Runtime, Mutations, Roles, Admin, Owner
<1>2. ASSUME NEW r \in Roles \ {Support}
      PROVE  /\ Connects(b, r)
             /\ b.owner["pgmigrations"] # "none" => May(b, r, "SELECT", "pgmigrations")
  <2>1. Connects(b, r) /\ r \in {Admin, Owner} \cup Runtime
    BY <1>1 DEF Ready, Connects
  <2>2. CASE r \in Runtime
    BY <1>1, <2>1, <2>2 DEF Ready, May, Holds
  <2>3. CASE r \in {Admin, Owner}
    BY <1>1, <2>1, <2>3 DEF Ready, May, Holds
  <2> QED
    BY <2>1, <2>2, <2>3
<1>3. ~May(Bared(b), "runtime_app", "UPDATE", "audit_log")
  <2> DEFINE c == Bared(b)
  <2>1. c.owner = b.owner /\ c.grants = b.grants
    BY DEF Bared, Sound, Database
  <2> HIDE DEF c
  <2>2. ~May(c, "runtime_app", "UPDATE", "audit_log")
    BY <1>1, <2>1 DEF Ready, May, Holds
  <2> QED
    BY <2>2 DEF c
<1>4. ASSUME NEW r \in Roles, b.owner["job"] = Owner, May(b, r, "INSERT", "job")
      PROVE  May(b, r, "SELECT", "job")
  <2>1. r = Admin \/ r = Owner \/ "INSERT" \in b.grants["job"][r]
    BY <1>4 DEF May, Holds
  <2>2. r = Admin \/ r = Owner \/ "SELECT" \in b.grants["job"][r]
    <3>1. r = Support => "INSERT" \notin b.grants["job"][r]
      BY <1>1 DEF Sound, SupportReadsMeta
    <3>2. r \in Runtime => b.grants["job"][r] \in Shares
      BY <1>1 DEF Sound, GrantsTogether
    <3> QED
      BY <1>1, <2>1, <3>1, <3>2 DEF Shares, Dml
  <2> QED
    BY <1>4, <2>2 DEF May, Holds
<1> QED
  BY <1>2, <1>3, <1>4

LEMMA WiredIsPassed ==
  ASSUME LedgerDocumented, SmokeInv
  PROVE  WiredPasses
<1> DEFINE b == db[Served]
<1> SUFFICES ASSUME Undisturbed, stage[Served] = "built", b.owner["job"] = Owner,
                    b.applied = disk, up = {"api", "worker"}, job = "completed",
                    env.runtime = {[d |-> Served, role |-> "runtime_app"]}
             PROVE  ExitCode(results) = 0
  BY DEF WiredPasses
<1>1. next = 10 /\ Told /\ Base /\ \A u \in env.main, v \in env.ledger \cup env.runtime : u.d = v.d
  BY DEF Undisturbed, SmokeInv
<1>2. Sound(b) /\ Ready(b)
  BY <1>1, EnvironmentsAssumption DEF Base, RolesInv, DatabasesSound, StagesFit, StageFits
<1>3. Connected /\ QueueSent /\ WorkerWorks
  BY <1>1 DEF Told, ToldQueue
<1>4. PICK u \in env.main : u.d = Served
  BY <1>3 DEF WorkerWorks
<1>5. env \in Environments
  BY <1>1, <1>4 DEF Base, SmokeTypeOK, Unread
<1>6. env.main = {u} /\ u.role \in Roles
  BY <1>4, <1>5, EnvironmentsAssumption DEF URLs
<1>7. May(b, u.role, "INSERT", "job") /\ u.role # Support
  <2>1. May(b, u.role, "INSERT", "job")
    BY <1>3, <1>4, <1>6 DEF QueueSent
  <2>2. ~May(b, Support, "INSERT", "job")
    BY <1>2, NamesDiffer DEF May, Holds, Sound, OwnersPrivileged, SupportReadsMeta, Tables,
                             Admin, Support
  <2> QED
    BY <2>1, <2>2
<1>8. PICK w \in Asked : w.d = Served /\ w.role \in Roles \ {Support}
  <2>1. CASE env.ledger = {}
    BY <1>4, <1>6, <1>7, <2>1 DEF Asked
  <2>2. CASE env.ledger # {}
    <3>1. PICK w \in env.ledger : TRUE
      BY <2>2
    <3>2. w.d = Served /\ w.role \in Roles
      BY <1>1, <1>4, <1>5, <3>1, EnvironmentsAssumption DEF URLs
    <3> QED
      BY <1>5, <2>2, <3>1, <3>2 DEF Asked, LedgerDocumented
  <2> QED
    BY <2>1, <2>2
<1>9. LedgerSaysOk
  <2>1. StatusCode(b, w.role) = "ok"
    BY <1>2, <1>8, BuiltGrants DEF StatusCode
  <2> QED
    BY <1>8, <2>1 DEF LedgerSaysOk
<1>10. RolesThere
  BY <1>2, <1>4 DEF RolesThere, Ready
<1>11. Reached # {} /\ ~Unguarded
  <2>1. Connects(b, "runtime_app") /\ ~May(Bared(b), "runtime_app", "UPDATE", "audit_log")
    BY <1>2, BuiltGrants DEF Ready, Connects
  <2> DEFINE v == [d |-> Served, role |-> "runtime_app"]
  <2>2. v \in env.runtime /\ v.d = Served /\ v.role = "runtime_app"
    OBVIOUS
  <2>3. Reached = {v}
    BY <2>1, <2>2 DEF Reached
  <2> HIDE DEF v
  <2> QED
    BY <2>1, <2>2, <2>3 DEF Unguarded, Bared
<1>12. ApiConnects
  BY <1>2 DEF ApiConnects, Connects, Ready
<1>13. QueueReadable
  BY <1>2, <1>4, <1>6, <1>7, BuiltGrants DEF QueueReadable
<1>14. \A n \in Names : results[n] # "FAIL" /\ results[n] # "BLOCKED"
  <2>1. results["postgres"] = "PASS"
    BY <1>3 DEF Connected
  <2>2. /\ results["migrations"] \notin {"FAIL", "BLOCKED"} /\ results["roles"] \notin {"FAIL", "BLOCKED"}
        /\ results["audit"] \notin {"FAIL", "BLOCKED"}
    BY <1>1, <1>3, <1>9, <1>10, <1>11 DEF Told, ToldDatabase
  <2>3. /\ results["live"] \notin {"FAIL", "BLOCKED"} /\ results["ready"] \notin {"FAIL", "BLOCKED"}
        /\ results["socket"] \notin {"FAIL", "BLOCKED"}
    BY <1>1, <1>12 DEF Told, ToldServices
  <2>4. results["queue"] \notin {"FAIL", "BLOCKED"}
    BY <1>1, <1>3, <1>13 DEF Told, ToldQueue
  <2> QED
    BY <2>1, <2>2, <2>3, <2>4, RecordsInOrder
<1> QED
  BY <1>14 DEF ExitCode

\* Where MIGRATION_DATABASE_URL is not support's, a system brought up in the
\* documented order, with a worker that was in time, is not failed.
THEOREM WiredDoesPass ==
  ASSUME LedgerDocumented
  PROVE  SmokeSpec => []WiredPasses
<1>1. SmokeInv => WiredPasses
  BY WiredIsPassed
<1> QED
  BY <1>1, AlwaysSmokeInv, PTL
=============================================================================
