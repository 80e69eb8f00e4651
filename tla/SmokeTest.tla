------------------------------ MODULE SmokeTest ------------------------------
(***************************************************************************)
(* The foundation smoke test, run against databases that the scripts of    *)
(* DatabaseRoles change, and against an API and a worker that the operator *)
(* starts and stops.  Its eight records are made one after the other, so   *)
(* anything may happen between two of them.                                *)
(***************************************************************************)
EXTENDS DatabaseRoles

CONSTANTS
  Served,        \* the database that DATABASE_URL of the API and the worker names
  Environments   \* what the smoke test's own variables may say, see EnvironmentsAssumption

\* A URL is a set of at most one record, empty when the variable is not set.
URLs == {{}} \cup {{[d |-> d, role |-> r]} : d \in Databases, r \in Roles}

ASSUME EnvironmentsAssumption ==
  /\ Served \in Databases
  /\ Environments \subseteq [main : URLs, ledger : URLs, runtime : URLs]

Unread == [main |-> {}, ledger |-> {}, runtime |-> {}]

Records == <<"postgres", "migrations", "roles", "audit", "live", "ready", "queue", "socket">>
Names == {Records[i] : i \in 1..8}
Verdicts == {"PASS", "FAIL", "BLOCKED"}

VARIABLES
  up,      \* the services that run
  env,     \* the variables of the smoke test
  next,    \* index in Records of the record to be made, 0 before, 10 after
  results, \* the verdicts recorded so far
  job,     \* the marker job of this run: none, sent, completed or lost
  quiet    \* history: nothing but the smoke test and the worker acted since it started

smokeVars == <<up, env, next, results, job, quiet>>

SmokeTypeOK ==
  /\ TypeOK
  /\ up \subseteq {"api", "worker"}
  /\ env \in Environments \cup {Unread}
  /\ next \in 0..10
  /\ results \in [Names -> Verdicts \cup {"none"}]
  /\ job \in {"none", "sent", "completed", "lost"}
  /\ quiet \in {"yes", "no"}

SmokeInit ==
  /\ Init
  /\ up = {"api", "worker"}
  /\ env = Unread
  /\ next = 0
  /\ results = [n \in Names |-> "none"]
  /\ job = "none"
  /\ quiet = "no"

-----------------------------------------------------------------------------
(* What the others do meanwhile.                                           *)

\* Bound: one script or operator's step during the smoke test, if not too many came
\* before, and none after it.
MayDisturb == next = 0 \/ (next < 10 /\ quiet = "yes" /\ ops + 1 < MaxOps)

\* A script runs; where it replaced the queue table the job may be gone.
Script ==
  /\ MayDisturb /\ Next
  /\ next # 0 => <<db, disk, restoring>>' # <<db, disk, restoring>>
  /\ quiet' = "no"
  /\ job' \in IF db' = db THEN {job} ELSE {job, IF job = "none" THEN job ELSE "lost"}
  /\ UNCHANGED <<up, env, next, results>>

\* The API or the worker is started or stopped.
Operate(s) ==
  /\ MayDisturb /\ ops < MaxOps /\ ops' = ops + 1
  /\ up' = IF s \in up THEN up \ {s} ELSE up \cup {s}
  /\ quiet' = "no"
  /\ UNCHANGED <<db, disk, dumps, restoring, exit, stage, env, next, results, job>>

\* The worker takes the job as runtime_worker, in time or else it does not matter.
WorkerCompletes ==
  /\ job = "sent" /\ results["queue"] = "none" /\ "worker" \in up
  /\ \E u \in env.main : u.d = Served
  /\ May(db[Served], "runtime_worker", "UPDATE", "job")
  /\ job' = "completed"
  /\ UNCHANGED <<vars, up, env, next, results, quiet>>

-----------------------------------------------------------------------------
(* The steps of the smoke test.                                            *)

Record(v) ==
  /\ results' = [results EXCEPT ![Records[next]] = v]
  /\ next' = next + 1
  /\ UNCHANGED <<up, env, quiet>>

Looks(n, v) == /\ next \in 1..8 /\ Records[next] = n
               /\ Record(v)
               /\ UNCHANGED <<vars, job>>

Connected == results["postgres"] = "PASS"

\* Bound: it is started after a script that succeeded.
Start ==
  /\ next = 0 /\ exit = "ok"
  /\ next' = 1
  /\ env' \in Environments
  /\ quiet' = "yes"
  /\ UNCHANGED <<vars, up, results, job>>

\* 1: without DATABASE_URL, or when it cannot connect, BLOCKED.
Postgres ==
  Looks("postgres", IF \E u \in env.main : Connects(db[u.d], u.role) THEN "PASS" ELSE "BLOCKED")

\* 2: migrate:status, which prefers MIGRATION_DATABASE_URL; the smoke test's own
\* connection only decides whether it is asked.
MigrationsApplied ==
  Looks("migrations",
        IF ~Connected THEN "BLOCKED"
        ELSE IF \E u \in IF env.ledger # {} THEN env.ledger ELSE env.main :
                  StatusCode(db[u.d], u.role) = "ok"
        THEN "PASS" ELSE "FAIL")

\* 3.
RolesExist ==
  Looks("roles", IF ~Connected THEN "BLOCKED"
                 ELSE IF \E u \in env.main : db[u.d].roles = "present" THEN "PASS" ELSE "FAIL")

\* 4: whatever makes the UPDATE fail is a refusal.  A row trigger refuses nothing
\* in an empty table, and whether audit_log is empty is not modelled.
AuditRefuses ==
  LET reached == {u \in env.runtime : Connects(db[u.d], u.role)}
      unguarded == {u \in reached : May([db[u.d] EXCEPT !.guard = {}], u.role, "UPDATE", "audit_log")}
      updates == {u \in reached : May(db[u.d], u.role, "UPDATE", "audit_log")}
  IN \/ reached = {} /\ Looks("audit", "BLOCKED")
     \/ reached # {} /\ updates = {} /\ Looks("audit", "PASS")
     \/ unguarded # {} /\ Looks("audit", "FAIL")

\* 5: /health/live answers while the API runs; /health/ready asks its database.
ApiLive == Looks("live", IF "api" \in up THEN "PASS" ELSE "BLOCKED")
ApiReady ==
  Looks("ready", IF "api" \notin up THEN "BLOCKED"
                 ELSE IF Connects(db[Served], "runtime_app") THEN "PASS" ELSE "FAIL")

\* 6: enqueue-health, which installs the queue where its role may, then sends.
Enqueue ==
  /\ next \in 1..8 /\ Records[next] = "queue" /\ job = "none" /\ Connected
  /\ \E u \in env.main :
       LET b == IF MakesQueue(db[u.d], u.role) THEN QueueMade(db[u.d], u.role) ELSE db[u.d]
       IN /\ restoring[u.d] = {}
          /\ db' = [db EXCEPT ![u.d] = b]
          /\ IF Connects(b, u.role) /\ May(b, u.role, "INSERT", "job")
             THEN job' = "sent" /\ UNCHANGED <<next, results>>
             ELSE /\ next' = next + 1
                  /\ results' = [results EXCEPT !["queue"] = "BLOCKED"]
                  /\ UNCHANGED job
          /\ stage' = IF b = db[u.d] THEN stage ELSE [stage EXCEPT ![u.d] = "other"]
  /\ UNCHANGED <<disk, dumps, restoring, exit, ops, up, env, quiet>>

\* Three seconds later the job has been completed or it has not; a job table that
\* cannot be read is BLOCKED.
QueueRoundTrip ==
  \/ ~Connected /\ Looks("queue", "BLOCKED")
  \/ /\ job # "none"
     /\ Looks("queue", IF ~\E u \in env.main : May(db[u.d], u.role, "SELECT", "job")
                       THEN "BLOCKED"
                       ELSE IF job = "completed" THEN "PASS" ELSE "FAIL")

\* Mutant: the answer is wrapped as {event, data}, so that it is emitted as an
\* event of its own and nothing acknowledges the ping.
WrappedPong == "event"

\* What NestJS does with a plain return value: it acknowledges the ping.
HandlePing == "ack"

\* 7: no connection and no acknowledgement within five seconds are both FAIL.
SocketPing == Looks("socket", IF "api" \in up /\ HandlePing = "ack" THEN "PASS" ELSE "FAIL")

\* Mutant: BLOCKED is not counted.
ExitUnlessFailed(r) == IF \E n \in Names : r[n] = "FAIL" THEN 1 ELSE 0

\* Any FAIL is exit code 1, else any BLOCKED is 2.
ExitCode(r) ==
  IF \E n \in Names : r[n] = "FAIL" THEN 1
  ELSE IF \E n \in Names : r[n] = "BLOCKED" THEN 2 ELSE 0

\* The summary ends the process.
Summary ==
  /\ next = 9
  /\ next' = 10
  /\ exit' = IF ExitCode(results) = 0 THEN "ok" ELSE "failed"
  /\ UNCHANGED <<db, disk, dumps, restoring, stage, ops, up, env, results, job, quiet>>

Smoke ==
  \/ Start \/ Postgres \/ MigrationsApplied \/ RolesExist \/ AuditRefuses
  \/ ApiLive \/ ApiReady \/ Enqueue \/ QueueRoundTrip \/ SocketPing \/ Summary

SmokeNext ==
  \/ Script
  \/ \E s \in {"api", "worker"} : Operate(s)
  \/ WorkerCompletes
  \/ Smoke

SmokeSpec == SmokeInit /\ [][SmokeNext]_<<vars, smokeVars>>

-----------------------------------------------------------------------------
(* Properties.                                                             *)

\* Nothing ran meanwhile, and the ledger's and the runtime role's URLs name the
\* database of DATABASE_URL.
Undisturbed ==
  /\ next = 10 /\ quiet = "yes"
  /\ \A u \in env.main, v \in env.ledger \cup env.runtime : u.d = v.d

\* A passed smoke test means what its header says (8-16), although any error of
\* the UPDATE counts as a refusal (103-106): audit_log exists and runtime_app can
\* mutate it in no way, the four roles exist, the migrations on disk are applied,
\* and the worker can work on the queue of the database that the API serves; unless
\* a restore has torn audit_log.
PassMeansWired ==
  Undisturbed /\ ExitCode(results) = 0 /\ 2 \in disk /\ "audit_log" \notin db[Served].torn =>
    LET b == db[Served]
    IN /\ up = {"api", "worker"}
       /\ b.roles = "present" /\ b.applied = disk
       /\ b.owner["audit_log"] # "none"
       /\ \A op \in Mutations : ~May(b, "runtime_app", op, "audit_log")
       /\ \A op \in {"SELECT", "UPDATE"} : May(b, "runtime_worker", op, "job")

\* Conversely a system brought up in the documented order, with every variable
\* set and with a worker that was in time, is not failed: no step asks for more
\* than the scripts install, and the ping is acknowledged (68-74 of the gateway).
WiredPasses ==
  Undisturbed /\ stage[Served] = "built" /\ db[Served].owner["job"] = Owner
    /\ db[Served].applied = disk /\ restoring[Served] = {}
    /\ up = {"api", "worker"} /\ job = "completed"
    /\ env.runtime = {[d |-> Served, role |-> "runtime_app"]}
    => ExitCode(results) = 0
=============================================================================
