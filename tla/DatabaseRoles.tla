---------------------------- MODULE DatabaseRoles ----------------------------
(***************************************************************************)
(* Who may do what in the databases of the platform, under the scripts of  *)
(* packages/db run in any order and with any environment: apply-roles,     *)
(* migrate, migrate:down, the queue installation, reset, backup, restore,  *)
(* migrate:status and provision-admin.                                     *)
(*                                                                         *)
(* A script is a function on what one database holds (its schemas, tables, *)
(* owners, grants and default privileges), and an action that applies it.  *)
(* PostgreSQL, node-pg-migrate, pg-boss, pg_dump and pg_restore are not in *)
(* the repository; their definitions are marked external.                  *)
(***************************************************************************)
EXTENDS Naturals, FiniteSets

CONSTANTS
  Databases,  \* databases that a URL may name, each on a server of its own
  Local,      \* those whose URL says localhost
  Container,  \* Container[d]: what psql in the project's container opens for d's URL
  Stops,      \* bound: the statements of roles.sql after which psql may stop
  MaxOps      \* bound: script runs that change something

ASSUME DatabasesAssumption ==
  /\ Local \subseteq Databases
  /\ Container \in [Databases -> Databases]
  /\ Stops \subseteq 1..7
  /\ MaxOps \in Nat

Admin == "admin"                       \* ADMIN_DATABASE_URL: a superuser
Owner == "migration_owner"
Runtime == {"runtime_app", "runtime_worker"}
Support == "read_only_support"
Roles == {Admin, Owner, Support} \cup Runtime
Schemas == {"public", "pgboss"}
Tables == {"pgmigrations", "platform_meta", "audit_log", "job"}
SchemaOf(t) == IF t = "job" THEN "pgboss" ELSE "public"
TablesOf(s) == {t \in Tables : SchemaOf(t) = s}
Migrations == {1, 2}                   \* 0001_foundation_baseline, 0002_foundation_audit_log
Mutations == {"UPDATE", "DELETE", "TRUNCATE"}
Dml == {"SELECT", "INSERT", "UPDATE", "DELETE"}
Grants == [Roles -> SUBSET (Dml \cup Mutations)]
NoGrants == [r \in Roles |-> {}]

\* What one database holds.  roles are the server's; create is migration_owner's
\* CREATE on the database; usage lists who has USAGE on a schema, defaults where
\* migration_owner has default privileges; guard is what audit_log's triggers
\* refuse; torn is a history: the tables that a restore began to replace, here or
\* where the restored dump was taken, and did not finish.
Database ==
  [roles : {"absent", "present"}, create : {"no", "yes"},
   schema : [Schemas -> Roles \cup {"none"}], usage : [Schemas -> SUBSET Roles],
   defaults : SUBSET Schemas,
   owner : [Tables -> Roles \cup {"none"}], grants : [Tables -> Grants],
   applied : SUBSET Migrations, guard : SUBSET Mutations, torn : SUBSET Tables]

Fresh ==
  [roles |-> "absent", create |-> "no",
   schema |-> [s \in Schemas |-> IF s = "public" THEN Admin ELSE "none"],
   usage |-> [s \in Schemas |-> IF s = "public" THEN Roles ELSE {}],
   defaults |-> {},
   owner |-> [t \in Tables |-> "none"], grants |-> [t \in Tables |-> NoGrants],
   applied |-> {}, guard |-> {}, torn |-> {}]

\* The table that a migration makes.
TableOf(i) == IF i = 1 THEN "platform_meta" ELSE "audit_log"

\* What pg_restore replaces, in the order of a dump's contents: the schema pgboss,
\* the tables, and then the rows of all tables as one.
Contents == <<"pgboss", "job", "audit_log", "pgmigrations", "platform_meta", "rows">>
Items == {Contents[i] : i \in 1..6}
Before(o, p) == \E i, j \in 1..6 : i < j /\ Contents[i] = o /\ Contents[j] = p

\* A pg_restore in progress: who runs it, of which dump, the tables it replaces,
\* what it has still to drop and what it has still to make.
Jobs == [role : Roles, dump : Database, tables : SUBSET Tables,
         drop : SUBSET Items, make : SUBSET Items]

VARIABLES
  db,         \* what each database holds
  disk,       \* the migrations in the working tree
  dumps,      \* the backup files
  restoring,  \* restoring[d]: the pg_restore in progress, or {}
  exit,       \* how the last script ended
  stage,      \* history: how far the documented order has come since a bare database
  ops         \* script runs so far that changed something

vars == <<db, disk, dumps, restoring, exit, stage, ops>>

TypeOK ==
  /\ db \in [Databases -> Database]
  /\ disk \subseteq Migrations
  /\ dumps \subseteq Database
  /\ restoring \in [Databases -> SUBSET Jobs]
  /\ exit \in {"running", "ok", "failed", "refused", "blocked"}
  /\ stage \in [Databases -> {"bare", "ready", "built", "other"}]
  /\ ops \in 0..MaxOps

Init ==
  /\ db = [d \in Databases |-> Fresh]
  /\ disk = Migrations
  /\ dumps = {}
  /\ restoring = [d \in Databases |-> {}]
  /\ exit = "ok"
  /\ stage = [d \in Databases |-> "bare"]
  /\ ops = 0

-----------------------------------------------------------------------------
(* PostgreSQL.                                                             *)

Connects(b, r) == r = Admin \/ b.roles = "present"
Builds(b, r, s) == r = Admin \/ b.schema[s] = r
MakesSchemas(b, r) == r = Admin \/ (r = Owner /\ b.create = "yes")

\* May r do op on t?  A trigger refuses even those who hold the privilege.
Holds(b, r, op, t) == b.owner[t] = r \/ op \in b.grants[t][r]
May(b, r, op, t) ==
  /\ b.owner[t] # "none"
  /\ r = Admin \/ b.schema[SchemaOf(t)] = r \/ r \in b.usage[SchemaOf(t)]
  /\ r = Admin \/ Holds(b, r, op, t)
  /\ ~(t = "audit_log" /\ op \in b.guard)

\* Default privileges reach the tables that migration_owner creates from then on.
Initial(b, r, s) ==
  [x \in Roles |-> IF r = Owner /\ s \in b.defaults /\ x \in Runtime THEN Dml ELSE {}]

Created(b, t, r, g) == [b EXCEPT !.owner[t] = r, !.grants[t] = g]
Dropped(b, T) ==
  [b EXCEPT !.owner = [t \in Tables |-> IF t \in T THEN "none" ELSE @[t]],
            !.grants = [t \in Tables |-> IF t \in T THEN NoGrants ELSE @[t]],
            !.applied = IF "pgmigrations" \in T THEN {} ELSE @,
            !.guard = IF "audit_log" \in T THEN {} ELSE @]

\* The same by anything but a restore: what it leaves is no longer torn.
WithTable(b, t, r, g) == [Created(b, t, r, g) EXCEPT !.torn = @ \ {t}]
Without(b, T) == [Dropped(b, T) EXCEPT !.torn = @ \ T]

\* A script ran on d and left b behind; one that changed nothing is not counted.
Ran(d, b, code) ==
  /\ restoring[d] = {}
  /\ IF b = db[d] THEN UNCHANGED ops ELSE ops < MaxOps /\ ops' = ops + 1
  /\ db' = [db EXCEPT ![d] = b]
  /\ exit' = code
  /\ UNCHANGED <<disk, dumps, restoring>>

\* A script ended without having reached a database.
Stopped(code) ==
  /\ exit' = code
  /\ UNCHANGED <<db, disk, dumps, restoring, stage, ops>>

Stage(d, to) == stage' = [stage EXCEPT ![d] = to]

-----------------------------------------------------------------------------
(* apply-roles.mjs, psql-runner.mjs and roles.sql.                         *)

\* The host's psql opens what the URL says.  The container's psql is given the
\* user and the database name only and connects to the container's own server.
Opened(d, psql) == IF psql = "host" THEN d ELSE Container[d]

\* Mutant: support gets the default privileges of the others.
RolesForAll(b) ==
  [b EXCEPT !.roles = "present", !.create = "yes",
            !.schema = [s \in Schemas |->
                          IF s = "public" \/ @[s] = "none" THEN Owner ELSE @[s]],
            !.usage = [s \in Schemas |->
                         @[s] \cup Runtime \cup (IF s = "public" THEN {Support} ELSE {})],
            !.defaults = Schemas,
            !.grants = [t \in Tables |-> [@[t] EXCEPT ![Support] =
                          IF b.owner[t] = Owner THEN Dml ELSE @]]]

\* Mutant: default privileges for the public schema only.
RolesWithoutQueue(b) ==
  [b EXCEPT !.roles = "present", !.create = "yes",
            !.schema = [s \in Schemas |->
                          IF s = "public" \/ @[s] = "none" THEN Owner ELSE @[s]],
            !.usage = [s \in Schemas |->
                         @[s] \cup Runtime \cup (IF s = "public" THEN {Support} ELSE {})],
            !.defaults = @ \cup {"public"}]

\* The first n of the statements of roles.sql that matter here, each of which
\* commits by itself: the roles (40-66), CREATE on the database (82), the owner of
\* public (86) and usage of it (87), pgboss unless it exists (91) and usage of it
\* (92), and the default privileges in public (97-104) and in pgboss (106-110).  No
\* table that exists already is granted to anybody.
RolesUpTo(b, n) ==
  [b EXCEPT !.roles = IF n >= 1 THEN "present" ELSE @,
            !.create = IF n >= 2 THEN "yes" ELSE @,
            !.schema = [s \in Schemas |-> IF \/ (s = "public" /\ n >= 3)
                                              \/ (s = "pgboss" /\ n >= 5 /\ @[s] = "none")
                                           THEN Owner ELSE @[s]],
            !.usage = [s \in Schemas |->
                         @[s] \cup (IF s = "public"
                                    THEN IF n >= 4 THEN Runtime \cup {Support} ELSE {}
                                    ELSE IF n >= 6 THEN Runtime ELSE {})],
            !.defaults = @ \cup (IF n >= 7 THEN {"public"} ELSE {})
                           \cup (IF n >= 8 THEN {"pgboss"} ELSE {})]

RolesApplied(b) == RolesUpTo(b, 8)

\* Variables are missing or still CHANGE_ME; or there is no psql to run.
ApplyRolesStops == Stopped("refused") \/ Stopped("failed")

ApplyRoles(d, psql) ==
  LET e == Opened(d, psql)
  IN /\ Ran(e, RolesApplied(db[e]), "ok")
     /\ Stage(e, IF stage[e] = "bare" THEN "ready" ELSE stage[e])

\* psql stops at a statement that fails (DATABASE_NAME names no database, the
\* connection is lost): what came before stays.
ApplyRolesFails(d, psql) ==
  LET e == Opened(d, psql)
  IN /\ \E n \in Stops : Ran(e, RolesUpTo(db[e], n), "failed")
     /\ UNCHANGED stage

-----------------------------------------------------------------------------
(* Migrations.  DATABASE_URL says as whom they run.                        *)

\* 0001: platform_meta is default-granted, and readable by support.
Baseline(b, r) ==
  [WithTable(b, "platform_meta", r,
             [Initial(b, r, "public") EXCEPT ![Support] = {"SELECT"}])
     EXCEPT !.applied = @ \cup {1}]

\* Mutant: the blanket default privilege is not revoked.
AuditLogNotRevoked(b, r) ==
  [WithTable(b, "audit_log", r,
             [x \in Roles |-> IF x \in Runtime
                              THEN Initial(b, r, "public")[x] \cup {"SELECT", "INSERT"}
                              ELSE Initial(b, r, "public")[x]])
     EXCEPT !.applied = @ \cup {2}, !.guard = Mutations]

\* Mutant: no trigger for DELETE.
AuditLogDeletable(b, r) ==
  [WithTable(b, "audit_log", r,
             [x \in Roles |-> IF x \in Runtime THEN {"SELECT", "INSERT"}
                              ELSE Initial(b, r, "public")[x]])
     EXCEPT !.applied = @ \cup {2}, !.guard = Mutations \ {"DELETE"}]

\* 0002: the runtime roles' default grants are revoked and replaced, and three
\* triggers refuse mutation to everybody.
AuditLog(b, r) ==
  [WithTable(b, "audit_log", r,
             [x \in Roles |-> IF x \in Runtime THEN {"SELECT", "INSERT"}
                              ELSE Initial(b, r, "public")[x]])
     EXCEPT !.applied = @ \cup {2}, !.guard = Mutations]

\* node-pg-migrate makes its ledger before the transaction of the migrations.
Ledger(b, r) ==
  IF b.owner["pgmigrations"] = "none"
  THEN WithTable(b, "pgmigrations", r, Initial(b, r, "public")) ELSE b

Pending(b) == disk \ b.applied

\* Can r use the ledger, or else make it?
LedgerUsable(b, r) ==
  /\ Connects(b, r)
  /\ IF b.owner["pgmigrations"] = "none" THEN Builds(b, r, "public")
     ELSE May(b, r, "INSERT", "pgmigrations")

\* What the statements of the pending migrations require: the right to create,
\* an extension, grants to roles that exist, tables that do not.
Runs(b, r) ==
  /\ Builds(b, r, "public") /\ b.roles = "present"
  /\ 1 \in Pending(b) => MakesSchemas(b, r) /\ b.owner["platform_meta"] = "none"
  /\ 2 \in Pending(b) => b.owner["audit_log"] = "none"

Migrated(b, r) ==
  LET one == IF 1 \in Pending(b) THEN Baseline(b, r) ELSE b
  IN IF 2 \in Pending(b) THEN AuditLog(one, r) ELSE one

\* The documented order is roles, then migrations as migration_owner.
MigrateStage(d, r) ==
  IF r # Owner
  THEN IF db[d].owner["pgmigrations"] # "none" /\ Pending(db[d]) = {} THEN stage[d] ELSE "other"
  ELSE IF stage[d] = "bare" THEN "other"
  ELSE IF stage[d] = "ready" /\ exit' = "ok" THEN "built" ELSE stage[d]

\* Mutant: the ledger is written before the statements, outside their transaction.
MigrateUntransacted(d, r) ==
  LET b == Ledger(db[d], r)
  IN /\ LedgerUsable(db[d], r)
     /\ \/ Pending(b) = {} /\ Ran(d, b, "ok")
        \/ Pending(b) # {} /\ Runs(b, r) /\ Ran(d, Migrated(b, r), "ok")
        \/ Pending(b) # {} /\ Ran(d, [b EXCEPT !.applied = disk], "failed")
     /\ Stage(d, MigrateStage(d, r))

\* All pending migrations are one transaction, which may always fail.
Migrate(d, r) ==
  LET b == Ledger(db[d], r)
  IN /\ LedgerUsable(db[d], r)
     /\ \/ Pending(b) = {} /\ Ran(d, b, "ok")
        \/ Pending(b) # {} /\ Runs(b, r) /\ Ran(d, Migrated(b, r), "ok")
        \/ Pending(b) # {} /\ Ran(d, b, "failed")
     /\ Stage(d, MigrateStage(d, r))

MigrateStops(d) == {r \in Roles : ~LedgerUsable(db[d], r)} # {} /\ Stopped("failed")

\* migrate:down reverts the last migration, if its file is on disk; dropTable says
\* no IF EXISTS.
MigrateDown(d, r) ==
  LET b == db[d]
      last == IF 2 \in b.applied THEN 2 ELSE 1
      t == TableOf(last)
  IN /\ b.applied # {} /\ last \in disk /\ LedgerUsable(b, r)
     /\ b.owner[t] # "none" /\ (r = Admin \/ b.owner[t] = r)
     /\ Ran(d, [Without(b, {t}) EXCEPT !.applied = @ \ {last}], "ok")
     /\ Stage(d, "other")

\* pg-boss makes its schema and its tables unless they exist.
MakesQueue(b, r) ==
  /\ b.owner["job"] = "none" /\ Connects(b, r)
  /\ IF b.schema["pgboss"] = "none" THEN MakesSchemas(b, r) ELSE Builds(b, r, "pgboss")

QueueMade(b, r) ==
  [WithTable(b, "job", r, Initial(b, r, "pgboss"))
     EXCEPT !.schema["pgboss"] = IF @ = "none" THEN r ELSE @]

\* install-queue, and what a worker attempts as runtime_worker.
InstallQueue(d, r) ==
  /\ MakesQueue(db[d], r)
  /\ Ran(d, QueueMade(db[d], r), "ok")
  /\ Stage(d, IF r = Owner /\ stage[d] # "bare" THEN stage[d] ELSE "other")

\* The working tree moves to another commit.
Checkout ==
  /\ ops < MaxOps /\ ops' = ops + 1
  /\ disk' \in {{1}, {1, 2}} \ {disk}
  /\ UNCHANGED <<db, dumps, restoring, exit, stage>>

-----------------------------------------------------------------------------
(* migration-status.mjs and provision-admin.mjs: they change nothing.      *)

\* Mutant: a ledger that may not be read has an exit code of its own.
StatusCodeUnreadable(b, r) ==
  IF ~Connects(b, r) \/ (b.owner["pgmigrations"] # "none" /\ ~May(b, r, "SELECT", "pgmigrations"))
  THEN "unreadable"
  ELSE IF b.applied = disk THEN "ok" ELSE "failed"

\* Without a ledger nothing is applied; an unknown or a pending migration, a
\* ledger that may not be read and a refused connection all fail.
StatusCode(b, r) ==
  IF /\ Connects(b, r)
     /\ b.owner["pgmigrations"] # "none" => May(b, r, "SELECT", "pgmigrations")
     /\ b.applied \subseteq disk /\ disk \subseteq b.applied
  THEN "ok" ELSE "failed"

\* It may look at any moment, in the middle of a restore too.
Status(d) == \E code \in {StatusCode(db[d], r) : r \in Roles} : Stopped(code)

\* The guards of provision-admin in their order; behind them it only prints.
ProvisionCode(node, owner, input) ==
  IF node = "production" THEN "refused"
  ELSE IF owner = "unset" THEN "blocked"
  ELSE IF input = "invalid" THEN "refused" ELSE "ok"

Provision ==
  \E code \in {ProvisionCode(node, owner, input) : node \in {"production", "development"},
                  owner \in {"set", "unset"}, input \in {"valid", "invalid"}} : Stopped(code)

-----------------------------------------------------------------------------
(* reset.mjs.                                                              *)

\* Both schemas go, and with them every grant and default privilege in them;
\* the new public belongs to whoever connected.
Emptied(b, r) ==
  [Without(b, Tables) EXCEPT
     !.schema = [s \in Schemas |-> IF s = "public" THEN r ELSE "none"],
     !.usage = [s \in Schemas |-> {}],
     !.defaults = {}]

MayReset(b, r) ==
  \/ r = Admin
  \/ /\ Connects(b, r) /\ Builds(b, r, "public") /\ MakesSchemas(b, r)
     /\ b.schema["pgboss"] \in {"none", r}

\* The three guards: no production, a local host, and ALLOW_DB_RESET.
ResetAllowed(d, node, allow) == node # "production" /\ d \in Local /\ allow = "yes"

\* Behind them the drop, as one transaction.
Reset(d, r) ==
  /\ r \in {Admin, Owner}
  /\ \E allowed \in {ResetAllowed(d, node, allow) :
                       node \in {"production", "development"}, allow \in {"yes", "no"}} :
       IF ~allowed THEN Stopped("refused")
       ELSE IF MayReset(db[d], r)
       THEN Ran(d, Emptied(db[d], r), "ok") /\ Stage(d, "bare")
       ELSE Stopped("failed")

-----------------------------------------------------------------------------
(* backup.mjs and restore.mjs.                                             *)

\* pg_dump needs to read everything, else it writes no usable file.
Backup(d, r) ==
  /\ r \in {Admin, Owner} /\ restoring[d] = {} /\ ops < MaxOps
  /\ ops' = ops + 1
  /\ LET complete == Connects(db[d], r) /\ \A t \in Tables :
                       db[d].owner[t] = "none" \/ May(db[d], r, "SELECT", t)
     IN /\ dumps' = IF complete THEN dumps \cup {db[d]} ELSE dumps
        /\ exit' = IF complete THEN "ok" ELSE "failed"
  /\ UNCHANGED <<db, disk, restoring, stage>>

\* Does pg_restore --clean --no-owner replace the schema pgboss?
RemakesPgboss(b, r, s) ==
  /\ s.schema["pgboss"] # "none"
  /\ r = Admin \/ (MakesSchemas(b, r) /\ b.schema["pgboss"] \in {"none", r})
  /\ b.owner["job"] = "none" \/ s.owner["job"] # "none"

\* The dumped tables that it replaces; the others keep what they are.
Remakes(b, r, s) ==
  {t \in Tables : /\ s.owner[t] # "none"
                  /\ IF t = "job" THEN RemakesPgboss(b, r, s) ELSE Builds(b, r, "public")}

\* One statement of pg_restore: a DROP, and a CREATE or the rows.  Without
\* --single-transaction each of them commits by itself.  A new pgboss has lost what
\* was granted on the old one; a new table brings its creator's default privileges.
RestoreDropped(b, o) ==
  IF o = "pgboss"
  THEN [b EXCEPT !.schema[o] = "none", !.usage[o] = {}, !.defaults = @ \ {o}]
  ELSE Dropped(b, {o})

RestoreMade(b, job, o) ==
  CASE o = "pgboss" -> [b EXCEPT !.schema[o] = job.role]
    [] o = "rows" ->
         [b EXCEPT !.applied = IF "pgmigrations" \in job.tables THEN job.dump.applied ELSE @]
    [] OTHER -> Created(b, o, job.role, Initial(b, job.role, SchemaOf(o)))

\* Before the tables go their triggers do, where the role owns the table.
Untriggered(b, r, s, T) ==
  [b EXCEPT !.torn = @ \cup T \cup s.torn,
            !.guard = IF "audit_log" \in T /\ (r = Admin \/ b.owner["audit_log"] = r)
                      THEN @ \ s.guard ELSE @]

\* No dump, no target, or the target is the text of ADMIN_DATABASE_URL.
RestoreStops == Stopped("refused") \/ Stopped("failed")

RestoreStart(d, r, s) ==
  LET T == Remakes(db[d], r, s)
      objects == T \cup (IF RemakesPgboss(db[d], r, s) THEN {"pgboss"} ELSE {})
  IN /\ ops < MaxOps /\ restoring[d] = {} /\ Connects(db[d], r)
     /\ ops' = ops + 1
     /\ db' = [db EXCEPT ![d] = Untriggered(@, r, s, T)]
     /\ restoring' = [restoring EXCEPT ![d] =
          {[role |-> r, dump |-> s, tables |-> T, drop |-> objects, make |-> objects \cup {"rows"}]}]
     /\ exit' = "running"
     /\ Stage(d, "other")
     /\ UNCHANGED <<disk, dumps>>

\* --clean: first everything is dropped, the last of the contents first.
RestoreDrop(d) ==
  \E job \in restoring[d], o \in Items :
    /\ o \in job.drop /\ ~\E p \in job.drop : Before(o, p)
    /\ db' = [db EXCEPT ![d] = RestoreDropped(@, o)]
    /\ restoring' = [restoring EXCEPT ![d] = {[job EXCEPT !.drop = @ \ {o}]}]
    /\ UNCHANGED <<disk, dumps, exit, stage, ops>>

\* Then it is made again, the first of the contents first.
RestoreMake(d) ==
  \E job \in restoring[d], o \in Items :
    /\ job.drop = {} /\ o \in job.make /\ ~\E p \in job.make : Before(p, o)
    /\ db' = [db EXCEPT ![d] = RestoreMade(@, job, o)]
    /\ restoring' = [restoring EXCEPT ![d] = {[job EXCEPT !.make = @ \ {o}]}]
    /\ UNCHANGED <<disk, dumps, exit, stage, ops>>

\* Last come triggers and grants; a grant to a role that does not exist is skipped.
RestoredRest(b, job) ==
  LET s == job.dump
      known == b.roles = "present"
  IN [b EXCEPT
        !.grants = [t \in Tables |-> IF known /\ t \in job.tables
                      THEN [x \in Roles |-> @[t][x] \cup s.grants[t][x]] ELSE @[t]],
        !.usage = [c \in Schemas |-> IF known /\ Builds(b, job.role, c)
                                     THEN @[c] \cup s.usage[c] ELSE @[c]],
        !.defaults = IF known THEN @ \cup {c \in s.defaults : Builds(b, job.role, c)} ELSE @,
        !.guard = IF "audit_log" \in job.tables THEN s.guard ELSE @,
        !.torn = (@ \ job.tables) \cup s.torn]

\* pg_restore goes on after an error and reports it with its exit code.
RestoreRest(d) ==
  \E job \in restoring[d] :
    /\ job.drop = {} /\ job.make = {}
    /\ db' = [db EXCEPT ![d] = RestoredRest(@, job)]
    /\ restoring' = [restoring EXCEPT ![d] = {}]
    /\ exit' \in IF /\ db[d].roles = "present"
                    /\ \A t \in Tables : job.dump.owner[t] # "none" => t \in job.tables
                 THEN {"ok", "failed"} ELSE {"failed"}
    /\ UNCHANGED <<disk, dumps, stage, ops>>

\* The terminal is closed, or the connection is lost, between any two.
RestoreDies(d) ==
  /\ restoring[d] # {}
  /\ restoring' = [restoring EXCEPT ![d] = {}]
  /\ exit' = "failed"
  /\ UNCHANGED <<db, disk, dumps, stage, ops>>

-----------------------------------------------------------------------------
RoleScripts ==
  \/ ApplyRolesStops
  \/ \E d \in Databases, psql \in {"host", "container"} : ApplyRoles(d, psql) \/ ApplyRolesFails(d, psql)

SchemaScripts ==
  \/ \E d \in Databases, r \in Roles :
       Migrate(d, r) \/ MigrateDown(d, r) \/ InstallQueue(d, r)
  \/ \E d \in Databases : MigrateStops(d) \/ Status(d)
  \/ Checkout \/ Provision

CopyScripts ==
  \/ \E d \in Databases, r \in Roles :
       Reset(d, r) \/ Backup(d, r) \/ \E s \in dumps : RestoreStart(d, r, s)
  \/ \E d \in Databases : RestoreDrop(d) \/ RestoreMake(d) \/ RestoreRest(d) \/ RestoreDies(d)
  \/ RestoreStops

Next == RoleScripts \/ SchemaScripts \/ CopyScripts

Spec == Init /\ [][Next]_vars

-----------------------------------------------------------------------------
(* Properties.                                                             *)

\* Whatever was run in whatever order, no runtime role and not support can
\* change or remove an audit row: of the two protections of 0002 (82-116 of the
\* migration) one may be lost, by a restore for example, and never both, except
\* where a restore of audit_log is in progress or was broken off.
AuditProtected ==
  \A d \in Databases : "audit_log" \notin db[d].torn =>
    \A r \in Runtime \cup {Support}, op \in Mutations : ~May(db[d], r, op, "audit_log")

\* The privilege, which 0002 calls the boundary (9-14), is lost by nothing but a
\* restore that migration_owner runs where it has default privileges: pg_restore
\* grants on top of them and nothing revokes.
BoundaryLostByRestoreOnly ==
  [][\A d \in Databases :
       (\E r \in Runtime, op \in Mutations : op \in db'[d].grants["audit_log"][r])
       => \/ \E r \in Runtime, op \in Mutations : op \in db[d].grants["audit_log"][r]
          \/ /\ "public" \in db[d].defaults
             /\ \E job \in restoring'[d] : job.role = Owner
          \/ \E job \in restoring[d], r \in Runtime, op \in Mutations :
               op \in job.dump.grants["audit_log"][r]]_vars

\* Runtime roles and support own nothing, and support holds no privilege but
\* SELECT, and on platform_meta alone (roles.sql 6-13 and 112-117).
LeastPrivilege ==
  \A d \in Databases :
    /\ \A r \in Runtime \cup {Support} :
         r \notin {db[d].owner[t] : t \in Tables} \cup {db[d].schema[s] : s \in Schemas}
    /\ \A t \in Tables : db[d].grants[t][Support] \subseteq
                           IF t = "platform_meta" THEN {"SELECT"} ELSE {}

\* In the documented order (reset.mjs 55-56, ci.yml) every table that exists can
\* be used as the role tests say: nothing arrives without its grants.
CleanOrderIsUsable ==
  \A d \in Databases : stage[d] = "built" =>
    /\ \A r \in Runtime, t \in Tables, op \in {"SELECT", "INSERT"} :
         db[d].owner[t] # "none" => May(db[d], r, op, t)
    /\ \A r \in Runtime, op \in Dml : db[d].owner["job"] # "none" => May(db[d], r, op, "job")
    /\ 1 \in db[d].applied => May(db[d], Support, "SELECT", "platform_meta")

\* When migrate:status says that the schema is up to date, the tables of every
\* migration on disk are there, and the triggers of 0002, although the gate reads
\* names in a ledger that roles, down and restore change too (41-60 of
\* migration-status): only tables that a restore has torn may be missing.
StatusIsAGate ==
  \A d \in Databases, r \in Roles : StatusCode(db[d], r) = "ok" =>
    /\ \A i \in disk : TableOf(i) \in db[d].torn \/ db[d].owner[TableOf(i)] # "none"
    /\ 2 \in disk /\ "audit_log" \notin db[d].torn => db[d].guard = Mutations

\* What "OK: schema is up to date" (migration-status 60) says where no restore is in
\* progress, whether or not one was broken off before.
UpToDateIsThere ==
  \A d \in Databases, r \in Roles : StatusCode(db[d], r) = "ok" /\ restoring[d] = {} =>
    \A i \in disk : db[d].owner[TableOf(i)] # "none"
=============================================================================
