------------------------- MODULE DatabaseRolesProofs -------------------------
(***************************************************************************)
(* For every set of databases and every number of scripts, run in any      *)
(* order: audit_log stays protected, privileges stay least, migrate:status *)
(* is a gate and the documented order works.                               *)
(*                                                                         *)
(* A script is an operator on what one database holds, so the argument is  *)
(* one lemma per script about one database, and one step that lifts them.  *)
(***************************************************************************)
EXTENDS DatabaseRoles, TLAPS

Privileged == {Admin, Owner}

\* Only the privileged own anything.
OwnersPrivileged(b) ==
  /\ \A s \in Schemas : b.schema[s] \in Privileged \cup {"none"}
  /\ \A t \in Tables : b.owner[t] \in Privileged \cup {"none"}

\* Support can select from platform_meta and nothing else.
SupportReadsMeta(b) ==
  \A t \in Tables : b.grants[t][Support] \subseteq
                      IF t = "platform_meta" THEN {"SELECT"} ELSE {}

\* The table of an applied migration is there, unless a restore has torn it.
AppliedIsThere(b) ==
  /\ 1 \in b.applied /\ "platform_meta" \notin b.torn => b.owner["platform_meta"] # "none"
  /\ 2 \in b.applied /\ "audit_log" \notin b.torn => b.owner["audit_log"] # "none"

\* audit_log has its triggers, unless a restore has torn it.
AuditGuarded(b) ==
  "audit_log" \notin b.torn /\ b.owner["audit_log"] # "none" => b.guard = Mutations

\* A runtime role holds nothing on a table, or may select and insert, or all of
\* DML; and the triggers of audit_log stand together or not at all.
Shares == {{}, {"SELECT", "INSERT"}, Dml}
GrantsTogether(b) ==
  /\ \A t \in Tables, x \in Runtime : b.grants[t][x] \in Shares
  /\ b.guard \in {{}, Mutations}

Sound(b) ==
  /\ b \in Database
  /\ OwnersPrivileged(b) /\ SupportReadsMeta(b) /\ AppliedIsThere(b) /\ AuditGuarded(b)
  /\ GrantsTogether(b)

\* The privilege on audit_log, the boundary of 0002, is gone.
Loose(b) == \E r \in Runtime, op \in Mutations : op \in b.grants["audit_log"][r]

\* A script takes b to c: c is sound, and has the boundary if b has it.
Keeps(b, c) == Sound(c) /\ (Loose(c) => Loose(b))

-----------------------------------------------------------------------------
(* One lemma per script.                                                   *)

LEMMA NamesDiffer ==
  /\ Admin \in Roles /\ Owner \in Roles /\ Support \in Roles /\ Runtime \subseteq Roles
  /\ Privileged \subseteq Roles /\ "none" \notin Roles
  /\ Privileged \cap (Runtime \cup {Support}) = {} /\ Support \notin Runtime
BY DEF Roles, Runtime, Support, Admin, Owner, Privileged

LEMMA FreshSound == Sound(Fresh)
<1>1. Fresh \in Database
  BY NamesDiffer DEF Fresh, Database, NoGrants, Grants, Schemas
<1>2. OwnersPrivileged(Fresh)
  BY DEF Fresh, OwnersPrivileged, Privileged
<1>3. SupportReadsMeta(Fresh)
  BY NamesDiffer DEF Fresh, SupportReadsMeta, NoGrants
<1>4. AppliedIsThere(Fresh) /\ AuditGuarded(Fresh)
  BY DEF Fresh, AppliedIsThere, AuditGuarded, Tables
<1>5. GrantsTogether(Fresh)
  BY NamesDiffer DEF Fresh, GrantsTogether, NoGrants, Shares
<1> QED
  BY <1>1, <1>2, <1>3, <1>4, <1>5 DEF Sound

LEMMA RolesUpToFields ==
  ASSUME NEW b, Sound(b), NEW n \in Nat
  PROVE  LET c == RolesUpTo(b, n) IN
         /\ c \in Database /\ c.owner = b.owner /\ c.grants = b.grants /\ c.applied = b.applied
         /\ c.guard = b.guard /\ c.torn = b.torn
         /\ \A s \in Schemas : c.schema[s] \in {b.schema[s], Owner} /\ b.usage[s] \subseteq c.usage[s]
         /\ b.roles = "present" => c.roles = "present"
         /\ b.schema["public"] = Owner => c.schema["public"] = Owner
         /\ b.defaults \subseteq c.defaults
<1> DEFINE sch == [s \in Schemas |-> IF \/ (s = "public" /\ n >= 3)
                                        \/ (s = "pgboss" /\ n >= 5 /\ b.schema[s] = "none")
                                     THEN Owner ELSE b.schema[s]]
           use == [s \in Schemas |-> b.usage[s]
                     \cup (IF s = "public" THEN IF n >= 4 THEN Runtime \cup {Support} ELSE {}
                           ELSE IF n >= 6 THEN Runtime ELSE {})]
           def == b.defaults \cup (IF n >= 7 THEN {"public"} ELSE {})
                             \cup (IF n >= 8 THEN {"pgboss"} ELSE {})
           rls == IF n >= 1 THEN "present" ELSE b.roles
           crt == IF n >= 2 THEN "yes" ELSE b.create
           c == RolesUpTo(b, n)
<1>1. /\ sch \in [Schemas -> Roles \cup {"none"}] /\ use \in [Schemas -> SUBSET Roles]
      /\ def \in SUBSET Schemas /\ rls \in {"absent", "present"} /\ crt \in {"no", "yes"}
  BY NamesDiffer DEF Database, Sound, Schemas
<1>2. c = [b EXCEPT !.roles = rls, !.create = crt, !.schema = sch, !.usage = use, !.defaults = def]
  BY DEF RolesUpTo
<1>3. /\ \A s \in Schemas : sch[s] \in {b.schema[s], Owner} /\ b.usage[s] \subseteq use[s]
      /\ b.roles = "present" => rls = "present"
      /\ b.schema["public"] = Owner => sch["public"] = Owner
      /\ b.defaults \subseteq def
  BY DEF Schemas
<1> SUFFICES /\ c \in Database /\ c.owner = b.owner /\ c.grants = b.grants
             /\ c.applied = b.applied /\ c.guard = b.guard /\ c.torn = b.torn
             /\ c.schema = sch /\ c.usage = use /\ c.roles = rls /\ c.defaults = def
  BY <1>3
<1> HIDE DEF c, sch, use, def, rls, crt
<1> QED
  BY <1>1, <1>2 DEF Sound, Database

LEMMA RolesUpToKeeps ==
  ASSUME NEW b, Sound(b), NEW n \in Nat
  PROVE  Keeps(b, RolesUpTo(b, n))
<1> DEFINE c == RolesUpTo(b, n)
<1>1. /\ c \in Database /\ c.owner = b.owner /\ c.grants = b.grants /\ c.applied = b.applied
      /\ c.guard = b.guard /\ c.torn = b.torn
      /\ \A s \in Schemas : c.schema[s] \in {b.schema[s], Owner}
  BY RolesUpToFields
<1> SUFFICES Keeps(b, c)
  OBVIOUS
<1> HIDE DEF c
<1>2. OwnersPrivileged(c)
  BY <1>1 DEF Sound, OwnersPrivileged, Privileged
<1>3. /\ SupportReadsMeta(c) /\ AppliedIsThere(c) /\ AuditGuarded(c) /\ GrantsTogether(c)
      /\ Loose(c) => Loose(b)
  BY <1>1 DEF Sound, SupportReadsMeta, AppliedIsThere, AuditGuarded, GrantsTogether, Loose
<1> QED
  BY <1>1, <1>2, <1>3 DEF Keeps, Sound

\* Default privileges are for the runtime roles and never on what support reads.
LEMMA InitialGrants ==
  ASSUME NEW b, NEW r, NEW s
  PROVE  /\ Initial(b, r, s) \in Grants
         /\ Initial(b, r, s)[Support] = {}
         /\ \A x \in Runtime : Initial(b, r, s)[x] \in Shares
BY NamesDiffer DEF Initial, Grants, Dml, Shares

\* What creating a table, otherwise than by a restore, leaves.
LEMMA WithTableFields ==
  ASSUME NEW b, b \in Database, NEW t \in Tables, NEW r \in Roles, NEW g \in Grants
  PROVE  LET c == WithTable(b, t, r, g) IN
         /\ c \in Database
         /\ c.owner = [b.owner EXCEPT ![t] = r] /\ c.grants = [b.grants EXCEPT ![t] = g]
         /\ c.torn = b.torn \ {t}
         /\ c.roles = b.roles /\ c.create = b.create /\ c.schema = b.schema
         /\ c.usage = b.usage /\ c.defaults = b.defaults
         /\ c.applied = b.applied /\ c.guard = b.guard
<1> DEFINE e == Created(b, t, r, g)
           c == WithTable(b, t, r, g)
           own == [b.owner EXCEPT ![t] = r]
           gra == [b.grants EXCEPT ![t] = g]
<1>3. e = [b EXCEPT !.owner = own, !.grants = gra]
  BY DEF Created
<1>4. own \in [Tables -> Roles \cup {"none"}] /\ gra \in [Tables -> Grants]
  BY DEF Database
<1>1. /\ e \in Database /\ e.owner = own /\ e.grants = gra
      /\ e.torn = b.torn /\ e.roles = b.roles /\ e.create = b.create /\ e.schema = b.schema
      /\ e.usage = b.usage /\ e.defaults = b.defaults
      /\ e.applied = b.applied /\ e.guard = b.guard
  <2> HIDE DEF e, own, gra
  <2> QED
    BY <1>3, <1>4 DEF Database
<1>2. c = [e EXCEPT !.torn = @ \ {t}]
  BY DEF WithTable
<1> SUFFICES /\ c \in Database /\ c.owner = e.owner /\ c.grants = e.grants /\ c.torn = e.torn \ {t}
             /\ c.roles = e.roles /\ c.create = e.create /\ c.schema = e.schema
             /\ c.usage = e.usage /\ c.defaults = e.defaults
             /\ c.applied = e.applied /\ c.guard = e.guard
  BY <1>1
<1> HIDE DEF c, e
<1> QED
  BY <1>1, <1>2 DEF Database

\* A table that a privileged role creates, with grants that give support nothing
\* it may not have, where it is no audit_log.
LEMMA WithTableKeeps ==
  ASSUME NEW b, Sound(b), NEW t \in Tables, NEW r \in Privileged, NEW g \in Grants,
         g[Support] \subseteq IF t = "platform_meta" THEN {"SELECT"} ELSE {},
         \A x \in Runtime : g[x] \in Shares, t # "audit_log"
  PROVE  Keeps(b, WithTable(b, t, r, g))
<1> DEFINE c == WithTable(b, t, r, g)
<1>0. b \in Database /\ r \in Roles
  BY NamesDiffer DEF Sound
<1>1. c \in Database /\ "audit_log" \in Tables /\ "platform_meta" \in Tables /\ r # "none"
  BY <1>0, WithTableFields, NamesDiffer DEF Tables
<1>2. /\ c.owner = [b.owner EXCEPT ![t] = r] /\ c.grants = [b.grants EXCEPT ![t] = g]
      /\ c.schema = b.schema /\ c.applied = b.applied /\ c.guard = b.guard
      /\ c.torn = b.torn \ {t}
  BY <1>0, WithTableFields
<1>3. b.owner \in [Tables -> Roles \cup {"none"}] /\ b.grants \in [Tables -> Grants]
  BY DEF Sound, Database
<1> SUFFICES Keeps(b, c)
  OBVIOUS
<1> HIDE DEF c
<1>4. OwnersPrivileged(c) /\ AppliedIsThere(c) /\ AuditGuarded(c)
  BY <1>1, <1>2, <1>3 DEF Sound, OwnersPrivileged, AppliedIsThere, AuditGuarded
<1>5. SupportReadsMeta(c) /\ GrantsTogether(c) /\ (Loose(c) => Loose(b))
  BY <1>1, <1>2, <1>3 DEF Sound, SupportReadsMeta, GrantsTogether, Loose
<1> QED
  BY <1>1, <1>4, <1>5 DEF Keeps, Sound

LEMMA BaselineKeeps ==
  ASSUME NEW b, Sound(b), NEW r \in Privileged
  PROVE  Keeps(b, Baseline(b, r))
<1> DEFINE g == [Initial(b, r, "public") EXCEPT ![Support] = {"SELECT"}]
           c == WithTable(b, "platform_meta", r, g)
<1>1. g \in Grants /\ g[Support] = {"SELECT"} /\ \A x \in Runtime : g[x] \in Shares
  BY InitialGrants, NamesDiffer DEF Grants, Dml
<1>2. Keeps(b, c) /\ "platform_meta" \in Tables
  BY <1>1, WithTableKeeps DEF Tables
<1> HIDE DEF g
<1>7. /\ c \in Database /\ c.owner = [b.owner EXCEPT !["platform_meta"] = r]
      /\ c.grants = [b.grants EXCEPT !["platform_meta"] = g]
  <2>1. b \in Database /\ r \in Roles /\ "platform_meta" \in Tables /\ g \in Grants
    BY <1>1, NamesDiffer DEF Sound, Tables
  <2> QED
    BY <2>1, WithTableFields
<1>6. c.owner["platform_meta"] = r /\ r # "none"
  <2> HIDE DEF c
  <2> QED
    BY <1>2, <1>7, NamesDiffer DEF Sound, Database
<1> DEFINE d == Baseline(b, r)
<1>3. d = [c EXCEPT !.applied = @ \cup {1}]
  BY DEF Baseline, g
<1> SUFFICES Keeps(b, d)
  OBVIOUS
<1> HIDE DEF c
<1>4. d \in Database
  BY <1>2, <1>3 DEF Keeps, Sound, Database, Migrations
<1>5. /\ d.schema = c.schema /\ d.owner = c.owner /\ d.grants = c.grants
      /\ d.applied = c.applied \cup {1} /\ d.guard = c.guard /\ d.torn = c.torn
  BY <1>2, <1>3 DEF Keeps, Sound, Database
<1> HIDE DEF d
<1> QED
  BY <1>2, <1>4, <1>5, <1>6 DEF Keeps, Sound, OwnersPrivileged, SupportReadsMeta,
                                AppliedIsThere, AuditGuarded, GrantsTogether, Loose

LEMMA AuditLogKeeps ==
  ASSUME NEW b, Sound(b), NEW r \in Privileged
  PROVE  Keeps(b, AuditLog(b, r))
<1> DEFINE g == [x \in Roles |-> IF x \in Runtime THEN {"SELECT", "INSERT"}
                                 ELSE Initial(b, r, "public")[x]]
           w == WithTable(b, "audit_log", r, g)
           c == AuditLog(b, r)
<1>1. g \in Grants /\ g[Support] = {} /\ \A x \in Runtime : g[x] = {"SELECT", "INSERT"}
  BY InitialGrants, NamesDiffer DEF Grants, Dml
<1>2. c = [w EXCEPT !.applied = @ \cup {2}, !.guard = Mutations]
  BY DEF AuditLog
<1> HIDE DEF g
<1>3. /\ w \in Database
      /\ w.owner = [b.owner EXCEPT !["audit_log"] = r]
      /\ w.grants = [b.grants EXCEPT !["audit_log"] = g]
      /\ w.schema = b.schema /\ w.applied = b.applied /\ w.torn = b.torn \ {"audit_log"}
  BY <1>1, WithTableFields, NamesDiffer DEF Sound, Tables
<1> SUFFICES Keeps(b, c)
  OBVIOUS
<1> HIDE DEF c, w
<1>4. /\ c \in Database /\ c.owner = w.owner /\ c.grants = w.grants /\ c.schema = w.schema
      /\ c.applied = w.applied \cup {2} /\ c.guard = Mutations /\ c.torn = w.torn
  BY <1>2, <1>3 DEF Database, Migrations
<1>5. /\ b.owner \in [Tables -> Roles \cup {"none"}] /\ b.grants \in [Tables -> Grants]
      /\ r # "none" /\ "audit_log" \in Tables /\ "platform_meta" \in Tables
  BY NamesDiffer DEF Sound, Database, Tables
<1>6. OwnersPrivileged(c) /\ AppliedIsThere(c) /\ AuditGuarded(c)
  BY <1>3, <1>4, <1>5 DEF Sound, OwnersPrivileged, AppliedIsThere, AuditGuarded
<1>7. SupportReadsMeta(c) /\ GrantsTogether(c)
  BY <1>1, <1>3, <1>4, <1>5 DEF Sound, SupportReadsMeta, GrantsTogether, Shares
<1>8. ~Loose(c)
  BY <1>1, <1>3, <1>4, <1>5 DEF Loose, Mutations
<1> QED
  BY <1>4, <1>6, <1>7, <1>8 DEF Keeps, Sound

\* Who may build in the public schema, or make schemas, is privileged.
LEMMA BuildersPrivileged ==
  ASSUME NEW b, Sound(b), NEW r \in Roles
  PROVE  /\ \A s \in Schemas : Builds(b, r, s) => r \in Privileged
         /\ MakesSchemas(b, r) => r \in Privileged
BY NamesDiffer DEF Sound, OwnersPrivileged, Builds, MakesSchemas, Privileged

LEMMA LedgerKeeps ==
  ASSUME NEW b, Sound(b), NEW r \in Roles, LedgerUsable(b, r)
  PROVE  Keeps(b, Ledger(b, r))
<1>1. CASE b.owner["pgmigrations"] = "none"
  <2>1. r \in Privileged
    BY <1>1, BuildersPrivileged DEF LedgerUsable, Schemas
  <2>2. Ledger(b, r) = WithTable(b, "pgmigrations", r, Initial(b, r, "public"))
    BY <1>1 DEF Ledger
  <2> QED
    BY <2>1, <2>2, WithTableKeeps, InitialGrants DEF Tables
<1>2. CASE b.owner["pgmigrations"] # "none"
  BY <1>2 DEF Ledger, Keeps
<1> QED
  BY <1>1, <1>2

LEMMA KeepsIsTransitive ==
  ASSUME NEW b, NEW c, NEW d, Keeps(b, c), Keeps(c, d)
  PROVE  Keeps(b, d)
BY DEF Keeps

LEMMA MigratedKeeps ==
  ASSUME NEW b, Sound(b), NEW r \in Roles, Runs(b, r)
  PROVE  Keeps(b, Migrated(b, r))
<1>1. r \in Privileged
  BY BuildersPrivileged DEF Runs, Schemas
<1> DEFINE one == IF 1 \in Pending(b) THEN Baseline(b, r) ELSE b
<1>2. Keeps(b, one)
  BY <1>1, BaselineKeeps DEF Keeps
<1>3. Migrated(b, r) = IF 2 \in Pending(b) THEN AuditLog(one, r) ELSE one
  BY DEF Migrated
<1> HIDE DEF one
<1>4. Sound(one)
  BY <1>2 DEF Keeps
<1>5. CASE 2 \in Pending(b)
  BY <1>1, <1>2, <1>3, <1>4, <1>5, AuditLogKeeps, KeepsIsTransitive
<1>6. CASE 2 \notin Pending(b)
  BY <1>2, <1>3, <1>6
<1> QED
  BY <1>5, <1>6

\* What dropping tables leaves, in a restore and otherwise.
LEMMA DroppedFields ==
  ASSUME NEW b, b \in Database, NEW T \in SUBSET Tables
  PROVE  LET c == Dropped(b, T) IN
         /\ c \in Database /\ c.schema = b.schema /\ c.defaults = b.defaults /\ c.torn = b.torn
         /\ c.owner = [t \in Tables |-> IF t \in T THEN "none" ELSE b.owner[t]]
         /\ c.grants = [t \in Tables |-> IF t \in T THEN NoGrants ELSE b.grants[t]]
         /\ c.applied = IF "pgmigrations" \in T THEN {} ELSE b.applied
         /\ c.guard = IF "audit_log" \in T THEN {} ELSE b.guard
<1> DEFINE c == Dropped(b, T)
           own == [t \in Tables |-> IF t \in T THEN "none" ELSE b.owner[t]]
           gra == [t \in Tables |-> IF t \in T THEN NoGrants ELSE b.grants[t]]
           app == IF "pgmigrations" \in T THEN {} ELSE b.applied
           gua == IF "audit_log" \in T THEN {} ELSE b.guard
<1>1. /\ own \in [Tables -> Roles \cup {"none"}] /\ gra \in [Tables -> Grants]
      /\ app \in SUBSET Migrations /\ gua \in SUBSET Mutations
  BY DEF Database, NoGrants, Grants
<1>2. c = [b EXCEPT !.owner = own, !.grants = gra, !.applied = app, !.guard = gua]
  BY DEF Dropped
<1> SUFFICES /\ c \in Database /\ c.schema = b.schema /\ c.defaults = b.defaults /\ c.torn = b.torn
             /\ c.owner = own /\ c.grants = gra /\ c.applied = app /\ c.guard = gua
  OBVIOUS
<1> HIDE DEF c, own, gra, app, gua
<1> QED
  BY <1>1, <1>2 DEF Database

LEMMA WithoutFields ==
  ASSUME NEW b, Sound(b), NEW T \in SUBSET Tables
  PROVE  LET c == Without(b, T) IN
         /\ c \in Database /\ c.schema = b.schema /\ c.defaults = b.defaults
         /\ c.owner = [t \in Tables |-> IF t \in T THEN "none" ELSE b.owner[t]]
         /\ c.grants = [t \in Tables |-> IF t \in T THEN NoGrants ELSE b.grants[t]]
         /\ c.applied = IF "pgmigrations" \in T THEN {} ELSE b.applied
         /\ c.guard = IF "audit_log" \in T THEN {} ELSE b.guard
         /\ c.torn = b.torn \ T
<1> DEFINE e == Dropped(b, T)
           c == Without(b, T)
<1>1. /\ e \in Database /\ e.schema = b.schema /\ e.defaults = b.defaults /\ e.torn = b.torn
      /\ e.owner = [t \in Tables |-> IF t \in T THEN "none" ELSE b.owner[t]]
      /\ e.grants = [t \in Tables |-> IF t \in T THEN NoGrants ELSE b.grants[t]]
      /\ e.applied = IF "pgmigrations" \in T THEN {} ELSE b.applied
      /\ e.guard = IF "audit_log" \in T THEN {} ELSE b.guard
  BY DroppedFields DEF Sound
<1>2. c = [e EXCEPT !.torn = @ \ T]
  BY DEF Without
<1> SUFFICES /\ c \in Database /\ c.schema = e.schema /\ c.defaults = e.defaults
             /\ c.owner = e.owner /\ c.grants = e.grants /\ c.applied = e.applied
             /\ c.guard = e.guard /\ c.torn = e.torn \ T
  BY <1>1
<1> HIDE DEF c, e
<1> QED
  BY <1>1, <1>2 DEF Database

LEMMA MigrateDownKeeps ==
  ASSUME NEW b, Sound(b), NEW last \in b.applied, last = 1 => 2 \notin b.applied
  PROVE  Keeps(b, [Without(b, {TableOf(last)}) EXCEPT !.applied = @ \ {last}])
<1> DEFINE t == TableOf(last)
           w == Without(b, {t})
           c == [w EXCEPT !.applied = @ \ {last}]
<1>1. /\ t \in Tables /\ t # "pgmigrations" /\ last \in {1, 2} /\ b.applied \subseteq {1, 2}
      /\ t = IF last = 2 THEN "audit_log" ELSE "platform_meta"
  BY DEF TableOf, Tables, Sound, Database, Migrations
<1>2. /\ w \in Database /\ w.schema = b.schema
      /\ w.owner = [x \in Tables |-> IF x \in {t} THEN "none" ELSE b.owner[x]]
      /\ w.grants = [x \in Tables |-> IF x \in {t} THEN NoGrants ELSE b.grants[x]]
      /\ w.applied = b.applied
      /\ w.guard = IF "audit_log" \in {t} THEN {} ELSE b.guard
      /\ w.torn = b.torn \ {t}
  BY <1>1, WithoutFields
<1> SUFFICES Keeps(b, c)
  OBVIOUS
<1> HIDE DEF w, t
<1>3. /\ c \in Database /\ c.schema = w.schema /\ c.owner = w.owner /\ c.grants = w.grants
      /\ c.applied = b.applied \ {last} /\ c.guard = w.guard /\ c.torn = w.torn
  BY <1>2 DEF Database
<1> HIDE DEF c
<1>4. OwnersPrivileged(c)
  BY <1>2, <1>3 DEF Sound, OwnersPrivileged
<1>5. SupportReadsMeta(c) /\ GrantsTogether(c) /\ (Loose(c) => Loose(b))
  BY <1>2, <1>3, NamesDiffer DEF Sound, SupportReadsMeta, GrantsTogether, Shares, Loose,
                                 NoGrants, Tables
<1>6. AppliedIsThere(c)
  BY <1>1, <1>2, <1>3 DEF Sound, AppliedIsThere, Tables
<1>7. AuditGuarded(c)
  BY <1>1, <1>2, <1>3 DEF Sound, AuditGuarded, Tables
<1> QED
  BY <1>3, <1>4, <1>5, <1>6, <1>7 DEF Keeps, Sound

LEMMA QueueMadeKeeps ==
  ASSUME NEW b, Sound(b), NEW r \in Roles, MakesQueue(b, r)
  PROVE  Keeps(b, QueueMade(b, r))
<1> DEFINE w == WithTable(b, "job", r, Initial(b, r, "pgboss"))
           c == QueueMade(b, r)
<1>1. r \in Privileged
  BY BuildersPrivileged DEF MakesQueue, Schemas
<1>2. Keeps(b, w)
  BY <1>1, WithTableKeeps, InitialGrants DEF Tables
<1>3. c = [w EXCEPT !.schema["pgboss"] = IF @ = "none" THEN r ELSE @]
  BY DEF QueueMade
<1> SUFFICES Keeps(w, c)
  BY <1>2, KeepsIsTransitive
<1> HIDE DEF w, c
<1>4. Sound(w) /\ r \in Roles /\ "pgboss" \in Schemas
  BY <1>2 DEF Keeps, Schemas
<1>5. /\ c \in Database /\ c.owner = w.owner /\ c.grants = w.grants
      /\ c.applied = w.applied /\ c.guard = w.guard /\ c.torn = w.torn
      /\ \A s \in Schemas : c.schema[s] \in {w.schema[s], r}
  BY <1>3, <1>4 DEF Sound, Database
<1> QED
  BY <1>1, <1>4, <1>5 DEF Keeps, Sound, OwnersPrivileged, SupportReadsMeta, AppliedIsThere,
                          AuditGuarded, GrantsTogether, Loose

LEMMA EmptiedKeeps ==
  ASSUME NEW b, Sound(b), NEW r \in Privileged
  PROVE  /\ Keeps(b, Emptied(b, r)) /\ Emptied(b, r).torn = {}
         /\ \A t \in Tables : Emptied(b, r).owner[t] = "none"
<1> DEFINE w == Without(b, Tables)
           sch == [s \in Schemas |-> IF s = "public" THEN r ELSE "none"]
           use == [s \in Schemas |-> {}]
           c == Emptied(b, r)
<1>1. /\ w \in Database
      /\ w.owner = [t \in Tables |-> "none"] /\ w.grants = [t \in Tables |-> NoGrants]
      /\ w.applied = {} /\ w.guard = {} /\ w.torn = {}
  <2>1. /\ w \in Database
        /\ w.owner = [t \in Tables |-> IF t \in Tables THEN "none" ELSE b.owner[t]]
        /\ w.grants = [t \in Tables |-> IF t \in Tables THEN NoGrants ELSE b.grants[t]]
        /\ w.applied = IF "pgmigrations" \in Tables THEN {} ELSE b.applied
        /\ w.guard = IF "audit_log" \in Tables THEN {} ELSE b.guard
        /\ w.torn = b.torn \ Tables /\ b.torn \subseteq Tables
    BY WithoutFields DEF Sound, Database
  <2>2. "pgmigrations" \in Tables /\ "audit_log" \in Tables
    BY DEF Tables
  <2> HIDE DEF w
  <2> QED
    BY <2>1, <2>2
<1>2. c = [w EXCEPT !.schema = sch, !.usage = use, !.defaults = {}]
  BY DEF Emptied
<1>3. /\ sch \in [Schemas -> Roles \cup {"none"}] /\ use \in [Schemas -> SUBSET Roles]
      /\ \A s \in Schemas : sch[s] \in Privileged \cup {"none"}
  BY NamesDiffer
<1> SUFFICES Keeps(b, c) /\ c.torn = {} /\ \A t \in Tables : c.owner[t] = "none"
  OBVIOUS
<1> HIDE DEF w, c, sch, use
<1>4. /\ c \in Database /\ c.owner = w.owner /\ c.grants = w.grants /\ c.schema = sch
      /\ c.applied = w.applied /\ c.guard = w.guard /\ c.torn = w.torn
  BY <1>1, <1>2, <1>3 DEF Database
<1>5. OwnersPrivileged(c) /\ AppliedIsThere(c) /\ AuditGuarded(c)
  BY <1>1, <1>3, <1>4 DEF OwnersPrivileged, AppliedIsThere, AuditGuarded, Tables
<1>6. SupportReadsMeta(c) /\ GrantsTogether(c) /\ ~Loose(c)
  BY <1>1, <1>4, NamesDiffer DEF SupportReadsMeta, GrantsTogether, Shares, Loose, NoGrants, Tables
<1> QED
  BY <1>1, <1>4, <1>5, <1>6 DEF Keeps, Sound

-----------------------------------------------------------------------------
(* Restoring.                                                              *)

\* A restore replaces tables that were dumped, where a privileged role runs it, and
\* with the ledger every dumped table of a migration.
LEMMA RemakesDumped ==
  ASSUME NEW b, Sound(b), NEW s, Sound(s), NEW r \in Roles
  PROVE  /\ Remakes(b, r, s) \subseteq {t \in Tables : s.owner[t] # "none"}
         /\ Remakes(b, r, s) # {} \/ RemakesPgboss(b, r, s) => r \in Privileged
         /\ \A t \in {"platform_meta", "audit_log"} :
              "pgmigrations" \in Remakes(b, r, s) /\ s.owner[t] # "none" => t \in Remakes(b, r, s)
<1>1. RemakesPgboss(b, r, s) => r \in Privileged
  BY BuildersPrivileged DEF RemakesPgboss, Privileged
<1>2. Builds(b, r, "public") => r \in Privileged
  BY BuildersPrivileged DEF Schemas
<1> QED
  BY <1>1, <1>2 DEF Remakes, Tables

\* What a restore in progress has done to b, and may still do: every table that it
\* replaces is torn, and there again unless it has still to be made.
JobFits(job, b) ==
  /\ job.tables \subseteq {t \in Tables : job.dump.owner[t] # "none"}
  /\ job.tables \subseteq b.torn /\ job.dump.torn \subseteq b.torn
  /\ job.drop \subseteq job.make
  /\ job.drop \subseteq job.tables \cup {"pgboss"}
  /\ job.make \subseteq job.tables \cup {"pgboss", "rows"}
  /\ job.make \subseteq {"rows"} \/ job.role \in Privileged
  /\ \A t \in job.tables : t \in job.make \/ b.owner[t] # "none"
  /\ \A t \in {"platform_meta", "audit_log"} :
       "pgmigrations" \in job.tables /\ job.dump.owner[t] # "none" => t \in job.tables

LEMMA ItemNames ==
  /\ Items = {"pgboss", "rows"} \cup Tables
  /\ "pgboss" \notin Tables /\ "rows" \notin Tables
  /\ "pgboss" \in Schemas /\ "platform_meta" \in Tables /\ "audit_log" \in Tables
<1>1. 1..6 = {1, 2, 3, 4, 5, 6}
  OBVIOUS
<1>2. Items = {Contents[1], Contents[2], Contents[3], Contents[4], Contents[5], Contents[6]}
  BY <1>1 DEF Items
<1> QED
  BY <1>2 DEF Contents, Tables, Schemas

\* It begins with the triggers.
LEMMA UntriggeredKeeps ==
  ASSUME NEW b, Sound(b), NEW s, Sound(s), NEW r \in Roles, NEW T \in SUBSET Tables
  PROVE  LET c == Untriggered(b, r, s, T) IN
         /\ Keeps(b, c) /\ c.torn = b.torn \cup T \cup s.torn
         /\ c.owner = b.owner
<1> DEFINE gua == IF "audit_log" \in T /\ (r = Admin \/ b.owner["audit_log"] = r)
                  THEN b.guard \ s.guard ELSE b.guard
           trn == b.torn \cup T \cup s.torn
           c == Untriggered(b, r, s, T)
<1>1. /\ gua \in {{}, Mutations} /\ gua \in SUBSET Mutations /\ trn \in SUBSET Tables
      /\ "audit_log" \notin trn => gua = b.guard
  BY DEF Sound, GrantsTogether, Database
<1>2. c = [b EXCEPT !.torn = trn, !.guard = gua]
  BY DEF Untriggered
<1> SUFFICES Keeps(b, c) /\ c.torn = trn /\ c.owner = b.owner
  OBVIOUS
<1> HIDE DEF c
<1>3. /\ c \in Database /\ c.owner = b.owner /\ c.grants = b.grants /\ c.schema = b.schema
      /\ c.applied = b.applied /\ c.guard = gua /\ c.torn = trn
  <2> HIDE DEF gua, trn
  <2> QED
    BY <1>1, <1>2 DEF Sound, Database
<1>4. b.torn \subseteq trn
  OBVIOUS
<1> HIDE DEF gua, trn
<1> QED
  BY <1>1, <1>3, <1>4 DEF Keeps, Sound, OwnersPrivileged, SupportReadsMeta, AppliedIsThere,
                          AuditGuarded, GrantsTogether, Loose

\* One DROP.
LEMMA RestoreDroppedKeeps ==
  ASSUME NEW b, Sound(b), NEW job \in Jobs, Sound(job.dump), JobFits(job, b),
         NEW o \in job.drop
  PROVE  LET c == RestoreDropped(b, o) IN
         /\ Keeps(b, c) /\ JobFits([job EXCEPT !.drop = @ \ {o}], c)
<1> DEFINE c == RestoreDropped(b, o)
           j == [job EXCEPT !.drop = @ \ {o}]
<1>1. /\ j.role = job.role /\ j.dump = job.dump /\ j.tables = job.tables /\ j.make = job.make
      /\ j.drop = job.drop \ {o}
  BY DEF Jobs
<1>2. o \in job.make /\ (o = "pgboss" \/ (o \in Tables /\ o \in b.torn))
  BY DEF JobFits, Jobs
<1> SUFFICES Keeps(b, c) /\ JobFits(j, c)
  OBVIOUS
<1> HIDE DEF j
<1>3. CASE o = "pgboss"
  <2>1. c = [b EXCEPT !.schema["pgboss"] = "none", !.usage["pgboss"] = {},
                      !.defaults = @ \ {"pgboss"}]
    BY <1>3 DEF RestoreDropped
  <2> HIDE DEF c
  <2>2. /\ c \in Database /\ c.owner = b.owner /\ c.grants = b.grants /\ c.applied = b.applied
        /\ c.guard = b.guard /\ c.torn = b.torn
        /\ \A x \in Schemas : c.schema[x] \in {b.schema[x], "none"}
    BY <2>1 DEF Sound, Database, Schemas
  <2>3. Keeps(b, c)
    BY <2>2 DEF Keeps, Sound, OwnersPrivileged, SupportReadsMeta, AppliedIsThere,
                AuditGuarded, GrantsTogether, Loose
  <2>4. JobFits(j, c)
    BY <1>1, <2>2 DEF JobFits
  <2> QED
    BY <2>3, <2>4
<1>4. CASE o \in Tables
  <2>1. c = Dropped(b, {o})
    BY <1>4, ItemNames DEF RestoreDropped
  <2>2. /\ c \in Database /\ c.schema = b.schema /\ c.torn = b.torn
        /\ c.owner = [t \in Tables |-> IF t \in {o} THEN "none" ELSE b.owner[t]]
        /\ c.grants = [t \in Tables |-> IF t \in {o} THEN NoGrants ELSE b.grants[t]]
        /\ c.applied = IF "pgmigrations" \in {o} THEN {} ELSE b.applied
        /\ c.guard = IF "audit_log" \in {o} THEN {} ELSE b.guard
    BY <1>4, <2>1, DroppedFields DEF Sound
  <2> HIDE DEF c
  <2>3. OwnersPrivileged(c)
    BY <2>2 DEF Sound, OwnersPrivileged
  <2>4. AppliedIsThere(c) /\ AuditGuarded(c)
    BY <1>2, <1>4, <2>2, ItemNames DEF Sound, AppliedIsThere, AuditGuarded
  <2>5. SupportReadsMeta(c) /\ GrantsTogether(c) /\ (Loose(c) => Loose(b))
    BY <2>2, ItemNames, NamesDiffer DEF Sound, SupportReadsMeta, GrantsTogether, Shares, Loose, NoGrants
  <2>6. JobFits(j, c)
    BY <1>1, <1>2, <2>2 DEF JobFits
  <2> QED
    BY <2>2, <2>3, <2>4, <2>5, <2>6 DEF Keeps, Sound
<1> QED
  BY <1>2, <1>3, <1>4

\* One CREATE, or the rows.
LEMMA RestoreMadeKeeps ==
  ASSUME NEW b, Sound(b), NEW job \in Jobs, Sound(job.dump), JobFits(job, b),
         job.drop = {}, NEW o \in job.make
  PROVE  LET c == RestoreMade(b, job, o) IN
         /\ Sound(c) /\ JobFits([job EXCEPT !.make = @ \ {o}], c)
         /\ Loose(c) => Loose(b) \/ (job.role = Owner /\ "public" \in b.defaults)
<1> DEFINE c == RestoreMade(b, job, o)
           j == [job EXCEPT !.make = @ \ {o}]
           r == job.role
           s == job.dump
<1>1. /\ j.role = r /\ j.dump = s /\ j.tables = job.tables /\ j.make = job.make \ {o}
      /\ j.drop = {} /\ r \in Roles /\ s \in Database
  BY DEF Jobs
<1>2. /\ o \in {"pgboss", "rows"} \/ (o \in Tables /\ o \in b.torn)
      /\ o # "rows" => r \in Privileged
  BY DEF JobFits, Jobs
<1> SUFFICES /\ Sound(c) /\ JobFits(j, c)
             /\ Loose(c) => Loose(b) \/ (r = Owner /\ "public" \in b.defaults)
  OBVIOUS
<1>3. CASE o = "pgboss"
  <2>1. c = [b EXCEPT !.schema["pgboss"] = r]
    BY <1>3 DEF RestoreMade
  <2> HIDE DEF c, j
  <2>2. /\ c \in Database /\ c.owner = b.owner /\ c.grants = b.grants /\ c.applied = b.applied
        /\ c.guard = b.guard /\ c.torn = b.torn
        /\ \A x \in Schemas : c.schema[x] \in {b.schema[x], r}
    BY <1>1, <2>1 DEF Sound, Database, Schemas
  <2>3. Sound(c) /\ (Loose(c) => Loose(b))
    BY <1>2, <1>3, <2>2 DEF Sound, OwnersPrivileged, SupportReadsMeta, AppliedIsThere,
                            AuditGuarded, GrantsTogether, Loose
  <2>4. JobFits(j, c)
    BY <1>1, <1>3, <2>2, ItemNames DEF JobFits
  <2> QED
    BY <2>3, <2>4
<1>4. CASE o = "rows"
  <2> DEFINE app == IF "pgmigrations" \in job.tables THEN s.applied ELSE b.applied
  <2>1. c = [b EXCEPT !.applied = app]
    BY <1>4 DEF RestoreMade
  <2>2. app \in SUBSET Migrations
    BY DEF Sound, Database
  <2> HIDE DEF c, j, app
  <2>3. /\ c \in Database /\ c.owner = b.owner /\ c.grants = b.grants /\ c.applied = app
        /\ c.guard = b.guard /\ c.torn = b.torn /\ c.schema = b.schema
    BY <2>1, <2>2 DEF Sound, Database
  <2>4. AppliedIsThere(c)
    BY <2>3 DEF app, Sound, AppliedIsThere, JobFits
  <2>5. Sound(c) /\ (Loose(c) => Loose(b))
    BY <2>3, <2>4 DEF Sound, OwnersPrivileged, SupportReadsMeta, AuditGuarded, GrantsTogether, Loose
  <2>6. JobFits(j, c)
    BY <1>1, <1>4, <2>3, ItemNames DEF JobFits
  <2> QED
    BY <2>5, <2>6
<1>5. CASE o \in Tables
  <2> DEFINE g == Initial(b, r, SchemaOf(o))
  <2>1. c = [b EXCEPT !.owner[o] = r, !.grants[o] = g]
    BY <1>5, ItemNames DEF RestoreMade, Created
  <2>2. g \in Grants /\ g[Support] = {} /\ \A x \in Runtime : g[x] \in Shares
    BY InitialGrants
  <2>3. o = "audit_log" => \A x \in Runtime : g[x] # {} => r = Owner /\ "public" \in b.defaults
    BY NamesDiffer DEF Initial, SchemaOf
  <2> HIDE DEF c, j, g
  <2>4. /\ c \in Database /\ c.schema = b.schema /\ c.applied = b.applied
        /\ c.guard = b.guard /\ c.torn = b.torn
        /\ c.owner = [b.owner EXCEPT ![o] = r] /\ c.grants = [b.grants EXCEPT ![o] = g]
    BY <1>1, <1>5, <2>1, <2>2 DEF Sound, Database
  <2>5. /\ b.owner \in [Tables -> Roles \cup {"none"}] /\ b.grants \in [Tables -> Grants]
        /\ r # "none" /\ o \in b.torn /\ r \in Privileged
    BY <1>1, <1>2, <1>5, ItemNames, NamesDiffer DEF Sound, Database
  <2>6. OwnersPrivileged(c)
    BY <1>5, <2>4, <2>5 DEF Sound, OwnersPrivileged
  <2>7. AppliedIsThere(c) /\ AuditGuarded(c)
    BY <1>5, <2>4, <2>5, ItemNames DEF Sound, AppliedIsThere, AuditGuarded
  <2>8. SupportReadsMeta(c) /\ GrantsTogether(c)
    BY <2>2, <2>4, <2>5 DEF Sound, SupportReadsMeta, GrantsTogether
  <2>9. Loose(c) => Loose(b) \/ (r = Owner /\ "public" \in b.defaults)
    BY <2>3, <2>4, <2>5, ItemNames DEF Loose
  <2>10. JobFits(j, c)
    BY <1>1, <1>5, <2>4, <2>5 DEF JobFits
  <2> QED
    BY <2>4, <2>6, <2>7, <2>8, <2>9, <2>10 DEF Sound
<1> QED
  BY <1>2, <1>3, <1>4, <1>5

LEMMA RestoredRestKeeps ==
  ASSUME NEW b, Sound(b), NEW job \in Jobs, Sound(job.dump), JobFits(job, b),
         job.make = {}
  PROVE  LET c == RestoredRest(b, job) IN
         /\ Sound(c)
         /\ Loose(c) => Loose(b) \/ Loose(job.dump)
<1> DEFINE s == job.dump
           known == b.roles = "present"
           gra == [t \in Tables |-> IF known /\ t \in job.tables
                     THEN [x \in Roles |-> b.grants[t][x] \cup s.grants[t][x]] ELSE b.grants[t]]
           use == [x \in Schemas |-> IF known /\ Builds(b, job.role, x)
                                     THEN b.usage[x] \cup s.usage[x] ELSE b.usage[x]]
           def == IF known THEN b.defaults \cup {x \in s.defaults : Builds(b, job.role, x)}
                  ELSE b.defaults
           gua == IF "audit_log" \in job.tables THEN s.guard ELSE b.guard
           trn == (b.torn \ job.tables) \cup s.torn
           c == RestoredRest(b, job)
<1>1. /\ gra \in [Tables -> Grants] /\ use \in [Schemas -> SUBSET Roles]
      /\ def \in SUBSET Schemas /\ gua \in SUBSET Mutations /\ trn \in SUBSET Tables
  BY DEF Sound, Database, Grants
<1>2. c = [b EXCEPT !.grants = gra, !.usage = use, !.defaults = def, !.guard = gua, !.torn = trn]
  BY DEF RestoredRest
<1> SUFFICES Sound(c) /\ (Loose(c) => Loose(b) \/ Loose(s))
  OBVIOUS
<1> HIDE DEF c
<1>3. /\ c \in Database /\ c.schema = b.schema /\ c.owner = b.owner /\ c.applied = b.applied
      /\ c.grants = gra /\ c.guard = gua /\ c.torn = trn
  <2> HIDE DEF gra, use, def, gua, trn
  <2> QED
    BY <1>1, <1>2 DEF Sound, Database
<1>4. "audit_log" \in Tables
  BY DEF Tables
<1>5. OwnersPrivileged(c) /\ AppliedIsThere(c)
  BY <1>3 DEF Sound, OwnersPrivileged, AppliedIsThere, JobFits
<1>6. AuditGuarded(c)
  BY <1>3, <1>4 DEF Sound, AuditGuarded, JobFits
<1>7. \A t \in Tables, x \in Roles : c.grants[t][x] \subseteq b.grants[t][x] \cup s.grants[t][x]
  BY <1>3
<1>8. SupportReadsMeta(c)
  BY <1>7, NamesDiffer DEF Sound, SupportReadsMeta
<1>9. Loose(c) => Loose(b) \/ Loose(s)
  <2> HIDE DEF s
  <2> QED
    BY <1>4, <1>7, NamesDiffer DEF Loose
<1>10. GrantsTogether(c)
  <2>1. ASSUME NEW t \in Tables, NEW x \in Runtime
        PROVE  c.grants[t][x] \in Shares
    <3>1. /\ c.grants[t][x] = b.grants[t][x] \/ c.grants[t][x] = b.grants[t][x] \cup s.grants[t][x]
          /\ b.grants[t][x] \in Shares /\ s.grants[t][x] \in Shares
      BY <1>3, NamesDiffer DEF Sound, GrantsTogether
    <3> HIDE DEF s, gra
    <3> QED
      BY <3>1 DEF Shares, Dml
  <2>2. c.guard \in {{}, Mutations}
    BY <1>3 DEF Sound, GrantsTogether
  <2> QED
    BY <2>1, <2>2 DEF GrantsTogether
<1> QED
  BY <1>3, <1>5, <1>6, <1>8, <1>9, <1>10 DEF Sound

-----------------------------------------------------------------------------
(* The documented order.                                                   *)

\* A bare database has no table, and nothing that a restore has torn.
Bare(b) == b.torn = {} /\ \A t \in Tables : b.owner[t] = "none"

\* The roles have what they need, and whatever migration_owner creates will too.
Ready(b) ==
  /\ b.torn = {}
  /\ b.defaults = Schemas
  /\ \A s \in Schemas : Runtime \subseteq b.usage[s]
  /\ Support \in b.usage["public"]
  /\ \A t \in Tables, x \in Runtime : b.owner[t] # "none" => {"SELECT", "INSERT"} \subseteq b.grants[t][x]
  /\ \A x \in Runtime : b.owner["job"] # "none" => Dml \subseteq b.grants["job"][x]
  /\ b.owner["platform_meta"] # "none" => "SELECT" \in b.grants["platform_meta"][Support]
  /\ b.roles = "present" /\ b.schema["public"] = Owner
  /\ \A t \in Tables : b.owner[t] \in {Owner, "none"}
  /\ \A x \in Runtime : b.owner["audit_log"] # "none" => b.grants["audit_log"][x] \cap Mutations = {}

StageFits(b, to) ==
  /\ to = "bare" => Bare(b)
  /\ to \in {"ready", "built"} => Ready(b)

\* roles.sql keeps what is usable as far as it comes, and to its end makes a bare
\* database ready.
LEMMA RolesUpToFits ==
  ASSUME NEW b, Sound(b), NEW from, StageFits(b, from), NEW n \in Nat
  PROVE  StageFits(RolesUpTo(b, n), from)
<1> DEFINE c == RolesUpTo(b, n)
<1>1. /\ c \in Database /\ c.owner = b.owner /\ c.grants = b.grants /\ c.torn = b.torn
      /\ \A s \in Schemas : b.usage[s] \subseteq c.usage[s]
      /\ b.roles = "present" => c.roles = "present"
      /\ b.schema["public"] = Owner => c.schema["public"] = Owner
      /\ b.defaults \subseteq c.defaults
  BY RolesUpToFields
<1> SUFFICES StageFits(c, from)
  OBVIOUS
<1> HIDE DEF c
<1>2. c.defaults \subseteq Schemas /\ "public" \in Schemas
  BY <1>1 DEF Database, Schemas
<1>3. Bare(b) => Bare(c)
  BY <1>1 DEF Bare
<1>4. Ready(b) => Ready(c)
  BY <1>1, <1>2 DEF Ready
<1> QED
  BY <1>3, <1>4 DEF StageFits

LEMMA RolesAppliedFits ==
  ASSUME NEW b, Sound(b), NEW from, StageFits(b, from)
  PROVE  StageFits(RolesApplied(b), IF from = "bare" THEN "ready" ELSE from)
<1> DEFINE c == RolesApplied(b)
<1>1. /\ c.owner = b.owner /\ c.grants = b.grants /\ c.torn = b.torn /\ c.roles = "present"
      /\ c.schema["public"] = Owner
      /\ c.defaults = b.defaults \cup {"public"} \cup {"pgboss"}
      /\ c.usage["public"] = b.usage["public"] \cup (Runtime \cup {Support})
      /\ c.usage["pgboss"] = b.usage["pgboss"] \cup Runtime
  BY DEF RolesApplied, RolesUpTo, Sound, Database, Schemas
<1>2. b.defaults \subseteq Schemas
  BY DEF Sound, Database
<1>3. Bare(b) => Ready(c)
  <2> HIDE DEF c
  <2> QED
    BY <1>1, <1>2 DEF Bare, Ready, Schemas, Tables
<1>4. from # "bare" => StageFits(c, from)
  BY RolesUpToFits DEF RolesApplied
<1> HIDE DEF c
<1> QED
  BY <1>3, <1>4 DEF StageFits, c

\* A table that migration_owner creates.
LEMMA WithTableReady ==
  ASSUME NEW b, Sound(b), Ready(b), NEW t \in Tables, NEW g \in Grants,
         \A x \in Runtime : {"SELECT", "INSERT"} \subseteq g[x],
         t = "job" => \A x \in Runtime : Dml \subseteq g[x],
         t = "platform_meta" => "SELECT" \in g[Support],
         t = "audit_log" => \A x \in Runtime : g[x] \cap Mutations = {}
  PROVE  Ready(WithTable(b, t, Owner, g))
<1> DEFINE c == WithTable(b, t, Owner, g)
<1>1. /\ c.owner = [b.owner EXCEPT ![t] = Owner] /\ c.grants = [b.grants EXCEPT ![t] = g]
      /\ c.defaults = b.defaults /\ c.usage = b.usage /\ c.torn = b.torn \ {t}
      /\ c.roles = b.roles /\ c.schema = b.schema
  BY WithTableFields, NamesDiffer DEF Sound
<1>2. /\ b.owner \in [Tables -> Roles \cup {"none"}] /\ b.grants \in [Tables -> Grants]
      /\ "job" \in Tables /\ "platform_meta" \in Tables /\ "audit_log" \in Tables
  BY DEF Sound, Database, Tables
<1> SUFFICES Ready(c)
  OBVIOUS
<1> HIDE DEF c
<1> QED
  BY <1>1, <1>2 DEF Ready

\* What migration_owner's tables are granted by default, where it has defaults.
LEMMA InitialReady ==
  ASSUME NEW b, Ready(b), NEW s \in Schemas, NEW x \in Runtime
  PROVE  Initial(b, Owner, s)[x] = Dml /\ {"SELECT", "INSERT"} \subseteq Dml
BY NamesDiffer DEF Initial, Ready, Dml

LEMMA LedgerReady ==
  ASSUME NEW b, Sound(b), Ready(b)
  PROVE  Ready(Ledger(b, Owner))
<1>1. "public" \in Schemas /\ "pgmigrations" \in Tables
  BY DEF Schemas, Tables
<1>2. Ready(WithTable(b, "pgmigrations", Owner, Initial(b, Owner, "public")))
  BY <1>1, WithTableReady, InitialReady, InitialGrants
<1> QED
  BY <1>2 DEF Ledger

LEMMA BaselineReady ==
  ASSUME NEW b, Sound(b), Ready(b)
  PROVE  Ready(Baseline(b, Owner))
<1> DEFINE g == [Initial(b, Owner, "public") EXCEPT ![Support] = {"SELECT"}]
           c == WithTable(b, "platform_meta", Owner, g)
<1>1. /\ g \in Grants /\ g[Support] = {"SELECT"}
      /\ \A x \in Runtime : g[x] = Initial(b, Owner, "public")[x]
  BY InitialGrants, NamesDiffer DEF Grants, Dml
<1>2. "public" \in Schemas /\ "platform_meta" \in Tables
  BY DEF Schemas, Tables
<1> HIDE DEF g
<1>3. Ready(c)
  BY <1>1, <1>2, WithTableReady, InitialReady
<1>4. c \in Database
  BY <1>1, WithTableFields, NamesDiffer DEF Sound, Tables
<1>5. Baseline(b, Owner) = [c EXCEPT !.applied = @ \cup {1}]
  BY DEF Baseline, g
<1> HIDE DEF c
<1> QED
  BY <1>3, <1>4, <1>5 DEF Ready, Database

LEMMA AuditLogReady ==
  ASSUME NEW b, Sound(b), Ready(b)
  PROVE  Ready(AuditLog(b, Owner))
<1> DEFINE g == [x \in Roles |-> IF x \in Runtime THEN {"SELECT", "INSERT"}
                                 ELSE Initial(b, Owner, "public")[x]]
           c == WithTable(b, "audit_log", Owner, g)
<1>1. /\ g \in Grants
      /\ \A x \in Runtime : {"SELECT", "INSERT"} \subseteq g[x] /\ g[x] \cap Mutations = {}
  BY InitialGrants, NamesDiffer DEF Grants, Dml, Mutations
<1> HIDE DEF g
<1>2. Ready(c)
  BY <1>1, WithTableReady DEF Tables
<1>3. c \in Database
  BY <1>1, WithTableFields, NamesDiffer DEF Sound, Tables
<1>4. AuditLog(b, Owner) = [c EXCEPT !.applied = @ \cup {2}, !.guard = Mutations]
  BY DEF AuditLog, g
<1> HIDE DEF c
<1> QED
  BY <1>2, <1>3, <1>4 DEF Ready, Database

LEMMA MigratedReady ==
  ASSUME NEW b, Sound(b), Ready(b)
  PROVE  Ready(Migrated(b, Owner))
<1> DEFINE one == IF 1 \in Pending(b) THEN Baseline(b, Owner) ELSE b
<1>1. Ready(one) /\ Sound(one)
  BY BaselineReady, BaselineKeeps DEF Privileged, Keeps
<1>2. Migrated(b, Owner) = IF 2 \in Pending(b) THEN AuditLog(one, Owner) ELSE one
  BY DEF Migrated
<1> HIDE DEF one
<1> QED
  BY <1>1, <1>2, AuditLogReady

LEMMA QueueMadeReady ==
  ASSUME NEW b, Sound(b), Ready(b)
  PROVE  Ready(QueueMade(b, Owner))
<1> DEFINE g == Initial(b, Owner, "pgboss")
           c == WithTable(b, "job", Owner, g)
<1>1. /\ g \in Grants /\ \A x \in Runtime : Dml \subseteq g[x] /\ {"SELECT", "INSERT"} \subseteq g[x]
  BY InitialGrants, InitialReady DEF Schemas
<1>2. QueueMade(b, Owner) = [c EXCEPT !.schema["pgboss"] = IF @ = "none" THEN Owner ELSE @]
  BY DEF QueueMade
<1> HIDE DEF g
<1>3. Ready(c)
  BY <1>1, WithTableReady DEF Tables
<1>4. c \in Database
  BY <1>1, WithTableFields, NamesDiffer DEF Sound, Tables
<1> HIDE DEF c
<1> QED
  BY <1>2, <1>3, <1>4 DEF Ready, Database

-----------------------------------------------------------------------------
(* The inductive invariant, and one step that lifts the lemmas above.      *)

DatabasesSound ==
  /\ \A d \in Databases : Sound(db[d])
  /\ \A s \in dumps : Sound(s)

\* A restore in progress is one of a dump there is, and in no documented order.
RestoresFit ==
  \A d \in Databases : \A job \in restoring[d] :
    JobFits(job, db[d]) /\ job.dump \in dumps /\ stage[d] = "other"

StagesFit == \A d \in Databases : StageFits(db[d], stage[d])

RolesInv == TypeOK /\ DatabasesSound /\ RestoresFit /\ StagesFit

\* What BoundaryLostByRestoreOnly says of one step.
BoundaryStep ==
  \A d \in Databases :
    Loose(db'[d]) =>
      \/ Loose(db[d])
      \/ "public" \in db[d].defaults /\ \E job \in restoring'[d] : job.role = Owner
      \/ \E job \in restoring[d] : Loose(job.dump)

Codes == {"running", "ok", "failed", "refused", "blocked"}
Stages == {"bare", "ready", "built", "other"}

LEMMA InitRolesInv == Init => RolesInv
<1> SUFFICES ASSUME Init PROVE RolesInv
  OBVIOUS
<1>1. Sound(Fresh) /\ Bare(Fresh)
  BY FreshSound DEF Fresh, Bare
<1>2. TypeOK
  BY <1>1, DatabasesAssumption DEF Init, TypeOK, Sound
<1>3. DatabasesSound /\ StagesFit
  BY <1>1 DEF Init, DatabasesSound, StagesFit, StageFits
<1>4. RestoresFit
  BY DEF Init, RestoresFit
<1> QED
  BY <1>2, <1>3, <1>4 DEF RolesInv

\* A script that ran to its end.
LEMMA RanStep ==
  ASSUME RolesInv, NEW d \in Databases, NEW b, NEW code \in Codes, NEW to \in Stages,
         Ran(d, b, code), Keeps(db[d], b), stage' = [stage EXCEPT ![d] = to],
         StageFits(b, to)
  PROVE  RolesInv' /\ BoundaryStep
<1>1. /\ db' = [db EXCEPT ![d] = b] /\ restoring' = restoring /\ dumps' = dumps
      /\ disk' = disk /\ exit' = code /\ restoring[d] = {}
      /\ ops' = ops \/ (ops < MaxOps /\ ops' = ops + 1)
  BY DEF Ran
<1>2. /\ b \in Database /\ Sound(b) /\ (Loose(b) => Loose(db[d]))
      /\ db \in [Databases -> Database] /\ stage \in [Databases -> Stages]
  BY DEF Keeps, Sound, RolesInv, TypeOK, Stages
<1>3. TypeOK'
  BY <1>1, <1>2, DatabasesAssumption DEF RolesInv, TypeOK, Codes, Stages
<1>4. DatabasesSound'
  BY <1>1, <1>2 DEF RolesInv, DatabasesSound
<1>5. RestoresFit'
  BY <1>1, <1>2 DEF RolesInv, RestoresFit
<1>6. StagesFit'
  BY <1>1, <1>2 DEF RolesInv, StagesFit
<1>7. BoundaryStep
  BY <1>1, <1>2 DEF BoundaryStep
<1> QED
  BY <1>3, <1>4, <1>5, <1>6, <1>7 DEF RolesInv

\* A step that changes neither a database, nor a dump, nor a stage, and starts no
\* restore.
LEMMA QuietStep ==
  ASSUME RolesInv, UNCHANGED <<db, dumps, stage>>,
         disk' \in SUBSET Migrations, exit' \in Codes, ops' \in 0..MaxOps,
         \/ restoring' = restoring
         \/ \E d \in Databases : restoring' = [restoring EXCEPT ![d] = {}]
  PROVE  RolesInv' /\ BoundaryStep
<1>1. /\ restoring' \in [Databases -> SUBSET Jobs]
      /\ \A d \in Databases : restoring'[d] \subseteq restoring[d]
  BY DEF RolesInv, TypeOK
<1>2. TypeOK'
  BY <1>1 DEF RolesInv, TypeOK, Codes
<1>3. DatabasesSound' /\ StagesFit'
  BY DEF RolesInv, DatabasesSound, StagesFit
<1>4. RestoresFit'
  BY <1>1 DEF RolesInv, RestoresFit
<1>5. BoundaryStep
  BY DEF BoundaryStep
<1> QED
  BY <1>2, <1>3, <1>4, <1>5 DEF RolesInv

LEMMA StoppedStep ==
  ASSUME RolesInv, NEW code \in Codes, Stopped(code)
  PROVE  RolesInv' /\ BoundaryStep
<1>1. /\ UNCHANGED <<db, dumps, stage>> /\ disk' \in SUBSET Migrations /\ exit' \in Codes
      /\ ops' \in 0..MaxOps /\ restoring' = restoring
  BY DEF Stopped, RolesInv, TypeOK
<1> QED
  BY <1>1, QuietStep

LEMMA RoleScriptsStep ==
  ASSUME RolesInv, RoleScripts
  PROVE  RolesInv' /\ BoundaryStep
<1>1. CASE ApplyRolesStops
  BY <1>1, StoppedStep DEF ApplyRolesStops, Codes
<1>2. ASSUME NEW d \in Databases, NEW psql \in {"host", "container"},
             ApplyRoles(d, psql) \/ ApplyRolesFails(d, psql)
      PROVE  RolesInv' /\ BoundaryStep
  <2> DEFINE e == Opened(d, psql)
  <2>1. e \in Databases
    BY DatabasesAssumption DEF Opened
  <2>2. CASE ApplyRoles(d, psql)
    <3> DEFINE to == IF stage[e] = "bare" THEN "ready" ELSE stage[e]
    <3>1. Ran(e, RolesApplied(db[e]), "ok") /\ stage' = [stage EXCEPT ![e] = to]
      BY <2>2 DEF ApplyRoles, Stage
    <3> HIDE DEF e
    <3>2. Sound(db[e]) /\ StageFits(db[e], stage[e]) /\ to \in Stages
      BY <2>1 DEF RolesInv, DatabasesSound, StagesFit, TypeOK, Stages
    <3>3. Keeps(db[e], RolesApplied(db[e])) /\ StageFits(RolesApplied(db[e]), to)
      BY <3>2, RolesUpToKeeps, RolesAppliedFits DEF RolesApplied
    <3> HIDE DEF to
    <3> QED
      BY <2>1, <3>1, <3>2, <3>3, RanStep DEF Codes
  <2>3. CASE ApplyRolesFails(d, psql)
    <3>1. PICK n \in Stops : Ran(e, RolesUpTo(db[e], n), "failed") /\ stage' = stage
      BY <2>3 DEF ApplyRolesFails
    <3>2. n \in Nat
      BY DatabasesAssumption
    <3> DEFINE b == RolesUpTo(db[e], n)
    <3> HIDE DEF e
    <3>3. /\ Sound(db[e]) /\ StageFits(db[e], stage[e]) /\ stage[e] \in Stages
          /\ stage' = [stage EXCEPT ![e] = stage[e]]
      BY <2>1, <3>1 DEF RolesInv, DatabasesSound, StagesFit, TypeOK, Stages
    <3>4. Keeps(db[e], b) /\ StageFits(b, stage[e])
      BY <3>2, <3>3, RolesUpToKeeps, RolesUpToFits
    <3>5. Ran(e, b, "failed")
      BY <3>1
    <3> HIDE DEF b
    <3> QED
      BY <2>1, <3>3, <3>4, <3>5, RanStep DEF Codes
  <2> QED
    BY <1>2, <2>2, <2>3
<1> QED
  BY <1>1, <1>2 DEF RoleScripts

\* The stage that a migration by r leads to fits what it leaves behind.
LEMMA MigrateFits ==
  ASSUME RolesInv, NEW d \in Databases, NEW r \in Roles, NEW b,
         r = Owner /\ Ready(db[d]) => Ready(b),
         db[d].owner["pgmigrations"] # "none" /\ Pending(db[d]) = {} => b = db[d]
  PROVE  StageFits(b, MigrateStage(d, r)) /\ MigrateStage(d, r) \in Stages
<1>1. StageFits(db[d], stage[d]) /\ stage[d] \in Stages
  BY DEF RolesInv, StagesFit, TypeOK, Stages
<1>2. CASE r = Owner
  BY <1>1, <1>2 DEF MigrateStage, StageFits, Stages
<1>3. CASE r # Owner
  BY <1>1, <1>3 DEF MigrateStage, StageFits, Stages
<1> QED
  BY <1>2, <1>3

LEMMA MigrateStep ==
  ASSUME RolesInv, NEW d \in Databases, NEW r \in Roles, Migrate(d, r)
  PROVE  RolesInv' /\ BoundaryStep
<1> DEFINE b == Ledger(db[d], r)
<1>1. Sound(db[d]) /\ LedgerUsable(db[d], r)
  BY DEF RolesInv, DatabasesSound, Migrate
<1>2. Keeps(db[d], b) /\ (r = Owner /\ Ready(db[d]) => Ready(b))
  BY <1>1, LedgerKeeps, LedgerReady
<1>3. db[d].owner["pgmigrations"] # "none" => b = db[d]
  BY DEF Ledger
<1>4. PICK code \in {"ok", "failed"} :
        \/ Ran(d, b, code)
        \/ Runs(b, r) /\ Ran(d, Migrated(b, r), code)
  BY DEF Migrate
<1>5. stage' = [stage EXCEPT ![d] = MigrateStage(d, r)]
  BY DEF Migrate, Stage
<1>6. Migrated(b, r) = b \/ Pending(b) # {}
  BY DEF Migrated
<1> HIDE DEF b
<1>7. Sound(b)
  BY <1>2 DEF Keeps
<1>8. ASSUME NEW c, Ran(d, c, code), c = b \/ (Runs(b, r) /\ c = Migrated(b, r))
      PROVE  RolesInv' /\ BoundaryStep
  <2>1. Keeps(db[d], c)
    BY <1>2, <1>7, <1>8, MigratedKeeps, KeepsIsTransitive
  <2>2. r = Owner /\ Ready(db[d]) => Ready(c)
    BY <1>2, <1>7, <1>8, MigratedReady
  <2>3. db[d].owner["pgmigrations"] # "none" /\ Pending(db[d]) = {} => c = db[d]
    BY <1>3, <1>6, <1>8
  <2>4. StageFits(c, MigrateStage(d, r)) /\ MigrateStage(d, r) \in Stages
    BY <2>2, <2>3, MigrateFits
  <2> QED
    BY <1>5, <1>8, <2>1, <2>4, RanStep DEF Codes
<1> QED
  BY <1>4, <1>8

LEMMA MigrateDownStep ==
  ASSUME RolesInv, NEW d \in Databases, NEW r \in Roles, MigrateDown(d, r)
  PROVE  RolesInv' /\ BoundaryStep
<1> DEFINE b == db[d]
           last == IF 2 \in b.applied THEN 2 ELSE 1
           c == [Without(b, {TableOf(last)}) EXCEPT !.applied = @ \ {last}]
<1>1. Ran(d, c, "ok") /\ stage' = [stage EXCEPT ![d] = "other"] /\ b.applied # {}
  BY DEF MigrateDown, Stage
<1>2. Sound(b) /\ b.applied \subseteq {1, 2}
  BY DEF RolesInv, DatabasesSound, Sound, Database, Migrations
<1>3. last \in b.applied /\ (last = 1 => 2 \notin b.applied)
  BY <1>1, <1>2
<1> HIDE DEF last
<1>4. Keeps(b, c)
  BY <1>2, <1>3, MigrateDownKeeps
<1> HIDE DEF c
<1> QED
  BY <1>1, <1>4, RanStep DEF StageFits, Codes, Stages

LEMMA InstallQueueStep ==
  ASSUME RolesInv, NEW d \in Databases, NEW r \in Roles, InstallQueue(d, r)
  PROVE  RolesInv' /\ BoundaryStep
<1> DEFINE c == QueueMade(db[d], r)
           to == IF r = Owner /\ stage[d] # "bare" THEN stage[d] ELSE "other"
<1>1. Ran(d, c, "ok") /\ stage' = [stage EXCEPT ![d] = to] /\ MakesQueue(db[d], r)
  BY DEF InstallQueue, Stage
<1>2. Sound(db[d]) /\ StageFits(db[d], stage[d]) /\ stage[d] \in Stages
  BY DEF RolesInv, DatabasesSound, StagesFit, TypeOK, Stages
<1>3. Keeps(db[d], c)
  BY <1>1, <1>2, QueueMadeKeeps
<1>4. StageFits(c, to) /\ to \in Stages
  BY <1>2, QueueMadeReady DEF StageFits, Stages
<1> HIDE DEF c, to
<1> QED
  BY <1>1, <1>3, <1>4, RanStep DEF Codes

LEMMA SchemaScriptsStep ==
  ASSUME RolesInv, SchemaScripts
  PROVE  RolesInv' /\ BoundaryStep
<1>1. ASSUME NEW d \in Databases, NEW r \in Roles,
             Migrate(d, r) \/ MigrateDown(d, r) \/ InstallQueue(d, r)
      PROVE  RolesInv' /\ BoundaryStep
  BY <1>1, MigrateStep, MigrateDownStep, InstallQueueStep
<1>4. ASSUME NEW d \in Databases, MigrateStops(d) \/ Status(d)
      PROVE  RolesInv' /\ BoundaryStep
  <2>1. PICK code \in Codes : Stopped(code)
    BY <1>4 DEF MigrateStops, Status, StatusCode, Codes
  <2> QED
    BY <2>1, StoppedStep
<1>2. CASE Checkout
  <2>1. UNCHANGED <<db, dumps, stage>> /\ restoring' = restoring /\ disk' \in SUBSET Migrations
    BY <1>2 DEF Checkout, Migrations
  <2>2. exit' \in Codes /\ ops' \in 0..MaxOps
    BY <1>2, DatabasesAssumption DEF Checkout, RolesInv, TypeOK, Codes
  <2> QED
    BY <2>1, <2>2, QuietStep
<1>3. CASE Provision
  <2>1. PICK code \in Codes : Stopped(code)
    BY <1>3 DEF Provision, ProvisionCode, Codes
  <2> QED
    BY <2>1, StoppedStep
<1> QED
  BY <1>1, <1>2, <1>3, <1>4 DEF SchemaScripts

LEMMA ResetStep ==
  ASSUME RolesInv, NEW d \in Databases, NEW r \in Roles, Reset(d, r)
  PROVE  RolesInv' /\ BoundaryStep
<1>1. CASE Stopped("refused") \/ Stopped("failed")
  BY <1>1, StoppedStep DEF Codes
<1>2. CASE Ran(d, Emptied(db[d], r), "ok") /\ Stage(d, "bare")
  <2> DEFINE c == Emptied(db[d], r)
  <2>1. Ran(d, c, "ok") /\ stage' = [stage EXCEPT ![d] = "bare"] /\ r \in Privileged
    BY <1>2 DEF Stage, Reset, Privileged
  <2>2. Sound(db[d])
    BY DEF RolesInv, DatabasesSound
  <2>3. Keeps(db[d], c) /\ StageFits(c, "bare")
    BY <2>1, <2>2, EmptiedKeeps DEF StageFits, Bare
  <2> HIDE DEF c
  <2> QED
    BY <2>1, <2>3, RanStep DEF Codes, Stages
<1> QED
  BY <1>1, <1>2 DEF Reset

LEMMA BackupStep ==
  ASSUME RolesInv, NEW d \in Databases, NEW r \in Roles, Backup(d, r)
  PROVE  RolesInv' /\ BoundaryStep
<1>1. /\ UNCHANGED <<db, disk, restoring, stage>> /\ ops < MaxOps /\ ops' = ops + 1
      /\ dumps' = dumps \/ dumps' = dumps \cup {db[d]}
      /\ exit' \in Codes
  BY DEF Backup, Codes
<1>2. Sound(db[d]) /\ db[d] \in Database
  BY DEF RolesInv, DatabasesSound, Sound
<1>3. restoring' \in [Databases -> SUBSET Jobs]
  BY <1>1 DEF RolesInv, TypeOK
<1>4. TypeOK'
  BY <1>1, <1>2, <1>3, DatabasesAssumption DEF RolesInv, TypeOK, Codes
<1>5. DatabasesSound'
  BY <1>1, <1>2 DEF RolesInv, DatabasesSound
<1>6. RestoresFit' /\ StagesFit' /\ BoundaryStep
  BY <1>1 DEF RolesInv, RestoresFit, StagesFit, BoundaryStep
<1> QED
  BY <1>4, <1>5, <1>6 DEF RolesInv

\* A step of a restore: b and the job or no job any more are what it leaves.
LEMMA RestoringStep ==
  ASSUME RolesInv, NEW d \in Databases, NEW b, NEW J \in SUBSET Jobs, NEW to \in Stages,
         db' = [db EXCEPT ![d] = b], restoring' = [restoring EXCEPT ![d] = J],
         stage' = [stage EXCEPT ![d] = to], UNCHANGED <<disk, dumps>>,
         exit' \in Codes, ops' \in 0..MaxOps, Sound(b),
         J # {} => to = "other", to \notin {"bare", "ready", "built"},
         \A job \in J : JobFits(job, b) /\ job.dump \in dumps,
         Loose(b) => \/ Loose(db[d])
                     \/ "public" \in db[d].defaults /\ \E job \in J : job.role = Owner
                     \/ \E job \in restoring[d] : Loose(job.dump)
  PROVE  RolesInv' /\ BoundaryStep
<1>1. /\ db \in [Databases -> Database] /\ stage \in [Databases -> Stages]
      /\ restoring \in [Databases -> SUBSET Jobs] /\ b \in Database
      /\ disk \in SUBSET Migrations /\ dumps \in SUBSET Database
  BY DEF RolesInv, TypeOK, Stages, Sound
<1>2. TypeOK'
  BY <1>1 DEF TypeOK, Stages, Codes
<1>3. DatabasesSound'
  BY <1>1 DEF RolesInv, DatabasesSound
<1>4. RestoresFit'
  BY <1>1 DEF RolesInv, RestoresFit
<1>5. StagesFit'
  BY <1>1 DEF RolesInv, StagesFit, StageFits
<1>6. BoundaryStep
  <2> SUFFICES ASSUME NEW e \in Databases, Loose(db'[e]), ~Loose(db[e])
               PROVE  \/ "public" \in db[e].defaults /\ \E j \in restoring'[e] : j.role = Owner
                      \/ \E j \in restoring[e] : Loose(j.dump)
    BY DEF BoundaryStep
  <2>1. e = d
    BY <1>1
  <2> QED
    BY <2>1, <1>1
<1> QED
  BY <1>2, <1>3, <1>4, <1>5, <1>6 DEF RolesInv

LEMMA RestoreStartStep ==
  ASSUME RolesInv, NEW d \in Databases, NEW r \in Roles, NEW s \in dumps,
         RestoreStart(d, r, s)
  PROVE  RolesInv' /\ BoundaryStep
<1> DEFINE T == Remakes(db[d], r, s)
           c == Untriggered(db[d], r, s, T)
           objects == T \cup (IF RemakesPgboss(db[d], r, s) THEN {"pgboss"} ELSE {})
           job == [role |-> r, dump |-> s, tables |-> T, drop |-> objects,
                   make |-> objects \cup {"rows"}]
<1>1. /\ db \in [Databases -> Database] /\ ops' \in 0..MaxOps /\ s \in Database
      /\ Sound(db[d]) /\ Sound(s)
  BY DatabasesAssumption DEF RestoreStart, RolesInv, TypeOK, DatabasesSound
<1>2. /\ db' = [db EXCEPT ![d] = c] /\ restoring' = [restoring EXCEPT ![d] = {job}]
      /\ stage' = [stage EXCEPT ![d] = "other"] /\ exit' = "running" /\ UNCHANGED <<disk, dumps>>
  BY <1>1 DEF RestoreStart, Stage
<1>3. /\ T \subseteq {t \in Tables : s.owner[t] # "none"}
      /\ objects # {} => r \in Privileged
      /\ \A t \in {"platform_meta", "audit_log"} :
           "pgmigrations" \in T /\ s.owner[t] # "none" => t \in T
  BY <1>1, RemakesDumped
<1>4. Keeps(db[d], c) /\ c.torn = db[d].torn \cup T \cup s.torn
  BY <1>1, <1>3, UntriggeredKeeps
<1> HIDE DEF c, T
<1>5. /\ job.role = r /\ job.dump = s /\ job.tables = T /\ job.drop = objects
      /\ job.make = objects \cup {"rows"}
      /\ objects \subseteq T \cup {"pgboss"} /\ T \subseteq objects
  OBVIOUS
<1>6. job \in Jobs
  BY <1>1, <1>3, ItemNames DEF Jobs
<1> HIDE DEF job, objects
<1>7. JobFits(job, c)
  BY <1>3, <1>4, <1>5 DEF JobFits
<1>8. Sound(c) /\ (Loose(c) => Loose(db[d]))
  BY <1>4 DEF Keeps
<1>9. {job} \in SUBSET Jobs /\ "other" \in Stages /\ "running" \in Codes
  BY <1>6 DEF Stages, Codes
<1> QED
  BY <1>1, <1>2, <1>5, <1>7, <1>8, <1>9, RestoringStep

\* What is known of a restore in progress.
LEMMA JobKnown ==
  ASSUME RolesInv, NEW d \in Databases, NEW job \in restoring[d]
  PROVE  /\ job \in Jobs /\ JobFits(job, db[d]) /\ job.dump \in dumps /\ Sound(job.dump)
         /\ Sound(db[d]) /\ (stage' = stage => stage' = [stage EXCEPT ![d] = "other"])
<1>1. /\ job \in Jobs /\ JobFits(job, db[d]) /\ job.dump \in dumps /\ stage[d] = "other"
  BY DEF RolesInv, RestoresFit, TypeOK
<1>2. stage \in [Databases -> Stages]
  BY DEF RolesInv, TypeOK, Stages
<1> QED
  BY <1>1, <1>2 DEF RolesInv, DatabasesSound

LEMMA RestoreDropStep ==
  ASSUME RolesInv, NEW d \in Databases, RestoreDrop(d)
  PROVE  RolesInv' /\ BoundaryStep
<1>1. PICK job \in restoring[d], o \in Items :
        /\ o \in job.drop
        /\ db' = [db EXCEPT ![d] = RestoreDropped(@, o)]
        /\ restoring' = [restoring EXCEPT ![d] = {[job EXCEPT !.drop = @ \ {o}]}]
        /\ UNCHANGED <<disk, dumps, exit, stage, ops>>
  BY DEF RestoreDrop
<1> DEFINE c == RestoreDropped(db[d], o)
           j == [job EXCEPT !.drop = @ \ {o}]
<1>2. /\ job \in Jobs /\ JobFits(job, db[d]) /\ job.dump \in dumps /\ Sound(job.dump)
      /\ Sound(db[d]) /\ stage' = [stage EXCEPT ![d] = "other"]
  BY <1>1, JobKnown
<1>3. Keeps(db[d], c) /\ JobFits(j, c)
  BY <1>1, <1>2, RestoreDroppedKeeps
<1>4. j \in Jobs /\ j.dump = job.dump
  BY <1>2 DEF Jobs
<1>5. db' = [db EXCEPT ![d] = c] /\ restoring' = [restoring EXCEPT ![d] = {j}]
  BY <1>1 DEF RolesInv, TypeOK
<1>6. exit' \in Codes /\ ops' \in 0..MaxOps
  BY <1>1 DEF RolesInv, TypeOK, Codes
<1> HIDE DEF c, j
<1>7. Sound(c) /\ (Loose(c) => Loose(db[d]))
  BY <1>3 DEF Keeps
<1>8. /\ {j} \in SUBSET Jobs /\ "other" \in Stages /\ UNCHANGED <<disk, dumps>>
      /\ \A x \in {j} : JobFits(x, c) /\ x.dump \in dumps
  BY <1>1, <1>2, <1>3, <1>4 DEF Stages
<1> QED
  BY <1>2, <1>5, <1>6, <1>7, <1>8, RestoringStep

LEMMA RestoreMakeStep ==
  ASSUME RolesInv, NEW d \in Databases, RestoreMake(d)
  PROVE  RolesInv' /\ BoundaryStep
<1>1. PICK job \in restoring[d], o \in Items :
        /\ job.drop = {} /\ o \in job.make
        /\ db' = [db EXCEPT ![d] = RestoreMade(@, job, o)]
        /\ restoring' = [restoring EXCEPT ![d] = {[job EXCEPT !.make = @ \ {o}]}]
        /\ UNCHANGED <<disk, dumps, exit, stage, ops>>
  BY DEF RestoreMake
<1> DEFINE c == RestoreMade(db[d], job, o)
           j == [job EXCEPT !.make = @ \ {o}]
<1>2. /\ job \in Jobs /\ JobFits(job, db[d]) /\ job.dump \in dumps /\ Sound(job.dump)
      /\ Sound(db[d]) /\ stage' = [stage EXCEPT ![d] = "other"]
  BY <1>1, JobKnown
<1>3. /\ Sound(c) /\ JobFits(j, c)
      /\ Loose(c) => Loose(db[d]) \/ (job.role = Owner /\ "public" \in db[d].defaults)
  BY <1>1, <1>2, RestoreMadeKeeps
<1>4. j \in Jobs /\ j.dump = job.dump /\ j.role = job.role
  BY <1>2 DEF Jobs
<1>5. db' = [db EXCEPT ![d] = c] /\ restoring' = [restoring EXCEPT ![d] = {j}]
  BY <1>1 DEF RolesInv, TypeOK
<1>6. exit' \in Codes /\ ops' \in 0..MaxOps
  BY <1>1 DEF RolesInv, TypeOK, Codes
<1> HIDE DEF c, j
<1>7. /\ {j} \in SUBSET Jobs /\ "other" \in Stages /\ UNCHANGED <<disk, dumps>>
      /\ \A x \in {j} : JobFits(x, c) /\ x.dump \in dumps
      /\ Loose(c) => \/ Loose(db[d])
                     \/ "public" \in db[d].defaults /\ \E x \in {j} : x.role = Owner
  BY <1>1, <1>2, <1>3, <1>4 DEF Stages
<1> QED
  BY <1>2, <1>3, <1>5, <1>6, <1>7, RestoringStep

LEMMA RestoreRestStep ==
  ASSUME RolesInv, NEW d \in Databases, RestoreRest(d)
  PROVE  RolesInv' /\ BoundaryStep
<1>1. PICK job \in restoring[d] :
        /\ job.make = {}
        /\ db' = [db EXCEPT ![d] = RestoredRest(@, job)]
        /\ restoring' = [restoring EXCEPT ![d] = {}]
        /\ exit' \in Codes /\ UNCHANGED <<disk, dumps, stage, ops>>
  BY DEF RestoreRest, Codes
<1> DEFINE c == RestoredRest(db[d], job)
<1>2. /\ job \in Jobs /\ JobFits(job, db[d]) /\ Sound(job.dump) /\ Sound(db[d])
      /\ stage' = [stage EXCEPT ![d] = "other"]
  BY <1>1, JobKnown
<1>3. Sound(c) /\ (Loose(c) => Loose(db[d]) \/ Loose(job.dump))
  BY <1>1, <1>2, RestoredRestKeeps
<1>4. db' = [db EXCEPT ![d] = c] /\ ops' \in 0..MaxOps
  BY <1>1 DEF RolesInv, TypeOK
<1> HIDE DEF c
<1> QED
  BY <1>1, <1>2, <1>3, <1>4, RestoringStep DEF Stages

LEMMA CopyScriptsStep ==
  ASSUME RolesInv, CopyScripts
  PROVE  RolesInv' /\ BoundaryStep
<1>1. ASSUME NEW d \in Databases, NEW r \in Roles, NEW s \in dumps, RestoreStart(d, r, s)
      PROVE  RolesInv' /\ BoundaryStep
  BY <1>1, RestoreStartStep
<1>2. ASSUME NEW d \in Databases, RestoreDies(d)
      PROVE  RolesInv' /\ BoundaryStep
  <2>1. /\ UNCHANGED <<db, dumps, stage>> /\ disk' \in SUBSET Migrations /\ exit' \in Codes
        /\ ops' \in 0..MaxOps /\ restoring' = [restoring EXCEPT ![d] = {}]
    BY <1>2 DEF RestoreDies, RolesInv, TypeOK, Codes
  <2> QED
    BY <2>1, QuietStep
<1>3. CASE RestoreStops
  BY <1>3, StoppedStep DEF RestoreStops, Codes
<1> QED
  BY <1>1, <1>2, <1>3, ResetStep, BackupStep, RestoreDropStep, RestoreMakeStep, RestoreRestStep
     DEF CopyScripts

LEMMA RolesStep == RolesInv /\ [Next]_vars => RolesInv' /\ (BoundaryStep \/ UNCHANGED vars)
<1>1. ASSUME RolesInv, UNCHANGED vars
      PROVE  RolesInv'
  BY <1>1 DEF vars, RolesInv, TypeOK, DatabasesSound, RestoresFit, StagesFit
<1> QED
  BY <1>1, RoleScriptsStep, SchemaScriptsStep, CopyScriptsStep DEF Next

-----------------------------------------------------------------------------
(* The theorems.                                                           *)

LEMMA AlwaysRolesInv == Spec => []RolesInv
<1>1. RolesInv /\ [Next]_vars => RolesInv'
  BY RolesStep
<1> QED
  BY InitRolesInv, <1>1, PTL DEF Spec

\* Every variable keeps its type, whatever scripts run in whatever order.
THEOREM RolesTypeOK == Spec => []TypeOK
BY AlwaysRolesInv, PTL DEF RolesInv

LEMMA GuardProtects == RolesInv => AuditProtected
<1> SUFFICES ASSUME RolesInv, NEW d \in Databases, "audit_log" \notin db[d].torn,
                    NEW r \in Runtime \cup {Support}, NEW op \in Mutations
             PROVE  ~May(db[d], r, op, "audit_log")
  BY DEF AuditProtected
<1>1. AuditGuarded(db[d])
  BY DEF RolesInv, DatabasesSound, Sound
<1> QED
  BY <1>1 DEF AuditGuarded, May

\* No order of the scripts lets a runtime role or support change an audit row
\* (0002's triggers stand wherever no restore of audit_log was broken off).
THEOREM AuditAlwaysProtected == Spec => []AuditProtected
BY GuardProtects, AlwaysRolesInv, PTL

LEMMA PrivilegedOwn == RolesInv => LeastPrivilege
<1> SUFFICES ASSUME RolesInv, NEW d \in Databases
             PROVE  /\ \A r \in Runtime \cup {Support} :
                         r \notin {db[d].owner[t] : t \in Tables}
                                    \cup {db[d].schema[s] : s \in Schemas}
                    /\ SupportReadsMeta(db[d])
  BY DEF LeastPrivilege, SupportReadsMeta
<1>1. OwnersPrivileged(db[d]) /\ SupportReadsMeta(db[d])
  BY DEF RolesInv, DatabasesSound, Sound
<1> QED
  BY <1>1 DEF OwnersPrivileged, Privileged, Runtime, Support, Admin, Owner

\* The runtime roles and support never come to own anything, and support never
\* gets more than SELECT on platform_meta.
THEOREM PrivilegesStayLeast == Spec => []LeastPrivilege
BY PrivilegedOwn, AlwaysRolesInv, PTL

LEMMA ReadyIsUsable == RolesInv => CleanOrderIsUsable
<1> SUFFICES ASSUME RolesInv, NEW d \in Databases, stage[d] = "built"
             PROVE  /\ \A r \in Runtime, t \in Tables, op \in {"SELECT", "INSERT"} :
                         db[d].owner[t] # "none" => May(db[d], r, op, t)
                    /\ \A r \in Runtime, op \in Dml :
                         db[d].owner["job"] # "none" => May(db[d], r, op, "job")
                    /\ 1 \in db[d].applied => May(db[d], Support, "SELECT", "platform_meta")
  BY DEF CleanOrderIsUsable
<1> DEFINE b == db[d]
<1>1. Sound(b) /\ Ready(b)
  BY DEF RolesInv, DatabasesSound, StagesFit, StageFits
<1> HIDE DEF b
<1>2. /\ \A t \in Tables : SchemaOf(t) \in Schemas
      /\ SchemaOf("platform_meta") = "public" /\ "job" \in Tables
      /\ b.guard \subseteq Mutations /\ "SELECT" \notin Mutations /\ "INSERT" \notin Mutations
      /\ (1 \in b.applied => b.owner["platform_meta"] # "none")
  BY <1>1 DEF SchemaOf, Schemas, Tables, Sound, Database, Mutations, AppliedIsThere, Ready
<1>3. ASSUME NEW r \in Runtime, NEW t \in Tables, NEW op \in {"SELECT", "INSERT"},
             b.owner[t] # "none"
      PROVE  May(b, r, op, t)
  BY <1>1, <1>2, <1>3 DEF May, Holds, Ready
<1>4. ASSUME NEW r \in Runtime, NEW op \in Dml, b.owner["job"] # "none"
      PROVE  May(b, r, op, "job")
  BY <1>1, <1>2, <1>4 DEF May, Holds, Ready
<1>5. 1 \in b.applied => May(b, Support, "SELECT", "platform_meta")
  BY <1>1, <1>2 DEF May, Holds, Ready
<1> QED
  BY <1>3, <1>4, <1>5 DEF b

\* A database built in the documented order can be used by every role it is for.
THEOREM CleanOrderStaysUsable == Spec => []CleanOrderIsUsable
BY ReadyIsUsable, AlwaysRolesInv, PTL

LEMMA AppliedIsAGate == RolesInv => StatusIsAGate
<1> SUFFICES ASSUME RolesInv, NEW d \in Databases, NEW r \in Roles,
                    StatusCode(db[d], r) = "ok"
             PROVE  /\ \A i \in disk : TableOf(i) \in db[d].torn \/ db[d].owner[TableOf(i)] # "none"
                    /\ 2 \in disk /\ "audit_log" \notin db[d].torn => db[d].guard = Mutations
  BY DEF StatusIsAGate
<1>1. AppliedIsThere(db[d]) /\ AuditGuarded(db[d])
  BY DEF RolesInv, DatabasesSound, Sound
<1>2. disk \subseteq db[d].applied /\ disk \subseteq {1, 2}
  BY DEF StatusCode, RolesInv, TypeOK, Migrations
<1> QED
  BY <1>1, <1>2 DEF AppliedIsThere, AuditGuarded, TableOf

\* Where migrate:status says "up to date", a table of a migration on disk is missing
\* only if a restore has torn it, and so are the triggers of audit_log; whatever
\* scripts ran, and at whatever statement a restore was broken off.
THEOREM StatusStaysAGate == Spec => []StatusIsAGate
BY AppliedIsAGate, AlwaysRolesInv, PTL

\* BoundaryStep is what BoundaryLostByRestoreOnly says of one step.
LEMMA BoundaryBySteps == [][BoundaryStep]_vars => BoundaryLostByRestoreOnly
<1> DEFINE Step == \A d \in Databases :
             (\E r \in Runtime, op \in Mutations : op \in db'[d].grants["audit_log"][r])
             => \/ \E r \in Runtime, op \in Mutations : op \in db[d].grants["audit_log"][r]
                \/ /\ "public" \in db[d].defaults
                   /\ \E job \in restoring'[d] : job.role = Owner
                \/ \E job \in restoring[d], r \in Runtime, op \in Mutations :
                     op \in job.dump.grants["audit_log"][r]
<1>1. BoundaryStep => Step
  BY DEF BoundaryStep, Loose
<1> HIDE DEF Step
<1>2. [][BoundaryStep]_vars => [][Step]_vars
  BY <1>1, PTL
<1> QED
  BY <1>2 DEF Step, BoundaryLostByRestoreOnly

\* The privilege boundary of 0002 is lost in no step but that of a restore which
\* migration_owner runs over its own default privileges, or of a dump without it.
THEOREM BoundaryLostOnlyByRestore == Spec => BoundaryLostByRestoreOnly
<1>1. RolesInv /\ [Next]_vars => [BoundaryStep]_vars
  BY RolesStep
<1>2. Spec => [][BoundaryStep]_vars
  BY <1>1, AlwaysRolesInv, PTL DEF Spec
<1> QED
  BY <1>2, BoundaryBySteps
=============================================================================
