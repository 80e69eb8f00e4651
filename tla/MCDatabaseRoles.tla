--------------------------- MODULE MCDatabaseRoles ---------------------------
(***************************************************************************)
(* An instance of SmokeTest: a local database and a remote one.            *)
(***************************************************************************)
EXTENDS SmokeTest

CONSTANTS local, remote

\* Inside the container psql connects to the local server, whatever the URL says.
ContainerDef == [d \in Databases |-> local]

URL(d, r) == {[d |-> d, role |-> r]}

\* .env.example, the same without each variable, the owner's URL as DATABASE_URL
\* (ci.yml 167), and a runtime URL that was left pointing at another database.
EnvironmentsDef ==
  LET documented == [main    |-> URL(local, "runtime_app"),
                     ledger  |-> URL(local, Owner),
                     runtime |-> URL(local, "runtime_app")]
  IN {documented,
      [documented EXCEPT !.main = {}],
      [documented EXCEPT !.ledger = {}, !.runtime = {}],
      [documented EXCEPT !.main = URL(local, Owner), !.ledger = {}],
      [documented EXCEPT !.runtime = URL(remote, "runtime_app")]}
=============================================================================
