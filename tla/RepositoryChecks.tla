-------------------------- MODULE RepositoryChecks --------------------------
(***************************************************************************)
(* npm run verify, in a working tree that is edited before it and while it *)
(* runs: its eleven lanes, the exit code, and what three of the lanes look *)
(* at, which is the module guard, the locale parity guard and the RTL rule *)
(* of eslint.  The commands of the other lanes pass or fail as they like.  *)
(***************************************************************************)
EXTENDS Naturals, Sequences

CONSTANTS
  Names,     \* names of API modules
  Keys,      \* keys of the string catalogues
  MaxEdits   \* bound: edits of the working tree

ASSUME BoundsAssumption == MaxEdits \in Nat /\ Names # {}

Tiers == {"platform", "product", "admin"}
RANK == [t \in Tiers |-> CASE t = "platform" -> 0 [] t = "product" -> 1 [] t = "admin" -> 2]
Modules == [tier : Tiers, name : Names]
Locales == {"en", "ur"}
Files == {"foundation.json", "other.json"}
Values == {"none", "text", "empty"}
Catalogues == [Locales -> [Files -> [Keys -> Values]]]

\* A property of a style object: its key, and the form of its value.
Styles == [key : {"marginLeft", "marginInlineStart"}, value : {"literal"}]
            \cup [key : {"textAlign"}, value : {"left", "start", "expression"}]

\* An import written `... from`, or an import of another form.
Imports == [from : Modules, to : Modules, form : {"from", "other"}]

VARIABLES
  registry,   \* the modules that modules.registry.ts lists
  disk,       \* the module directories
  imports,    \* the relative imports between them
  catalogue,  \* the values in the catalogue files
  styles,     \* the properties that occur in style objects
  edits,      \* edits so far
  env,        \* what verify finds in its environment
  lane,       \* index in Lanes, 0 before verify, Len(Lanes) + 1 at the summary, then + 2
  seen,       \* the verdicts recorded so far
  edited      \* history: has the tree been edited since verify started?

tree == <<registry, disk, imports, catalogue, styles>>
progress == <<env, lane, seen, edited>>
vars == <<tree, edits, progress>>

Lanes == <<"build shared packages", "module dependency direction", "localization parity",
           "secret scan", "format check", "lint", "build all apps", "unit tests",
           "migration status", "audit append-only test", "android">>
Settings == {"DATABASE_URL", "RUNTIME_APP_DATABASE_URL", "android toolchain"}
Verdicts == {"PASS", "FAIL", "BLOCKED"}
Done == Len(Lanes) + 2

TypeOK ==
  /\ registry \subseteq Modules /\ disk \subseteq Modules
  /\ imports \subseteq {i \in Imports : i.from \in disk /\ i.to \in disk}
  /\ catalogue \in Catalogues
  /\ styles \subseteq Styles
  /\ edits \in 0..MaxEdits
  /\ env \subseteq Settings
  /\ lane \in 0..Done
  /\ seen \subseteq Verdicts
  /\ edited \in {"yes", "no"}

\* A clean tree: each name a module in each tier, one translated key.
Init ==
  /\ registry = Modules
  /\ disk = registry
  /\ imports = {}
  /\ \E k \in Keys : catalogue = [l \in Locales |-> [f \in Files |-> [x \in Keys |->
                       IF x = k /\ f = "foundation.json" THEN "text" ELSE "none"]]]
  /\ styles = {}
  /\ edits = 0
  /\ env = {} /\ lane = 0 /\ seen = {} /\ edited = "yes"

-----------------------------------------------------------------------------
(* Edits of the working tree.                                              *)

Toggled(S, x) == IF x \in S THEN S \ {x} ELSE S \cup {x}

\* Bound: one edit while verify runs, and none after it.
Edit ==
  /\ edits < MaxEdits
  /\ lane = 0 \/ (lane < Done /\ edited = "no")
  /\ edits' = edits + 1
  /\ edited' = "yes"
  /\ UNCHANGED <<env, lane, seen>>

Register(m) ==
  /\ Edit
  /\ registry' = Toggled(registry, m)
  /\ UNCHANGED <<disk, imports, catalogue, styles>>

\* A module directory comes, or goes with the imports from and to it.
Directory(m) ==
  /\ Edit
  /\ disk' = Toggled(disk, m)
  /\ imports' = {i \in imports : i.from \in disk' /\ i.to \in disk'}
  /\ UNCHANGED <<registry, catalogue, styles>>

Import(i) ==
  /\ Edit
  /\ i.from \in disk /\ i.to \in disk
  /\ imports' = Toggled(imports, i)
  /\ UNCHANGED <<registry, disk, catalogue, styles>>

Translation(l, f, k, v) ==
  /\ Edit
  /\ v # catalogue[l][f][k]
  /\ catalogue' = [catalogue EXCEPT ![l][f][k] = v]
  /\ UNCHANGED <<registry, disk, imports, styles>>

Style(s) ==
  /\ Edit
  /\ styles' = Toggled(styles, s)
  /\ UNCHANGED <<registry, disk, imports, catalogue>>

-----------------------------------------------------------------------------
(* check-module-dependencies.mjs.                                          *)

\* Only imports with `from` are seen, and within its module a file may do anything.
UpwardImports ==
  {i \in imports : /\ i.form = "from" /\ i.from # i.to
                   /\ RANK[i.to.tier] > RANK[i.from.tier]}

\* A tier without a directory ends the guard; git keeps no empty directory.
ModulesOK ==
  /\ \A t \in Tiers : \E m \in disk : m.tier = t
  /\ disk \subseteq registry
  /\ registry \subseteq disk
  /\ UpwardImports = {}

-----------------------------------------------------------------------------
(* check-locale-parity.mjs and translate.                                  *)

Loaded(l) == {e \in Files \X Keys : catalogue[l][e[1]][e[2]] # "none"}

\* Mutant: the keys of all files of a locale are compared as one set.
ParityByKey ==
  /\ {e[2] : e \in Loaded("en")} = {e[2] : e \in Loaded("ur")}
  /\ \A e \in Loaded("ur") : catalogue["ur"][e[1]][e[2]] # "empty"

\* No key is missing in ur, none is an orphan, and no Urdu value is empty.
ParityOK ==
  /\ Loaded("en") \subseteq Loaded("ur")
  /\ Loaded("ur") \subseteq Loaded("en")
  /\ \A e \in Loaded("ur") : catalogue["ur"][e[1]][e[2]] # "empty"

\* What is on the screen: a text, nothing, or the key itself.
translate(l, k) ==
  IF catalogue[l]["foundation.json"][k] = "none" THEN "key" ELSE catalogue[l]["foundation.json"][k]

-----------------------------------------------------------------------------
(* The rule no-physical-properties.                                        *)

PHYSICAL == {"marginLeft"}
PHYSICAL_ALIGN == {"left", "right"}
Reported(s) == s.key \in PHYSICAL \/ (s.key = "textAlign" /\ s.value \in PHYSICAL_ALIGN)

-----------------------------------------------------------------------------
(* verify.mjs.                                                             *)

Start ==
  /\ lane = 0
  /\ env' \in {Settings} \cup {Settings \ {s} : s \in Settings}
  /\ lane' = 1
  /\ edited' = "no"
  /\ UNCHANGED <<tree, edits, seen>>

\* Mutant: a lane that cannot be started is skipped.
OutcomesSkipped(ok, allowSkip) ==
  (IF ok THEN {"PASS", "FAIL"} ELSE {"FAIL"}) \cup (IF allowSkip THEN {"SKIPPED"} ELSE {})

\* A command that cannot be started is BLOCKED where the lane may be skipped.
Outcomes(ok, allowSkip) ==
  (IF ok THEN {"PASS", "FAIL"} ELSE {"FAIL"}) \cup (IF allowSkip THEN {"BLOCKED"} ELSE {})

\* Without these a lane is BLOCKED and nothing is started.
Needs(n) ==
  CASE n = "migration status" -> {"DATABASE_URL"}
    [] n = "audit append-only test" -> {"DATABASE_URL", "RUNTIME_APP_DATABASE_URL"}
    [] n = "android" -> {"android toolchain"}
    [] OTHER -> {}

\* The guards pass exactly when they are satisfied; lint, where the RTL rule is,
\* may fail for other reasons as well.
LaneVerdicts(n) ==
  CASE n = "module dependency direction" -> {IF ModulesOK THEN "PASS" ELSE "FAIL"}
    [] n = "localization parity" -> {IF ParityOK THEN "PASS" ELSE "FAIL"}
    [] n = "lint" -> Outcomes(~\E s \in styles : Reported(s), FALSE)
    [] Needs(n) # {} -> IF Needs(n) \subseteq env THEN Outcomes(TRUE, TRUE) ELSE {"BLOCKED"}
    [] OTHER -> Outcomes(TRUE, FALSE)

\* The lanes run one after the other, whatever the earlier ones said.
RunLane ==
  /\ lane \in 1..Len(Lanes)
  /\ \E v \in LaneVerdicts(Lanes[lane]) : seen' = seen \cup {v}
  /\ lane' = lane + 1
  /\ UNCHANGED <<tree, edits, env, edited>>

\* Mutant: a blocked lane hides a failed one.
BlockedFirst ==
  IF "BLOCKED" \in seen THEN 2 ELSE IF "FAIL" \in seen THEN 1 ELSE 0

ExitCode ==
  IF "FAIL" \in seen THEN 1 ELSE IF "BLOCKED" \in seen THEN 2 ELSE 0

Summary ==
  /\ lane = Len(Lanes) + 1
  /\ lane' = Done
  /\ UNCHANGED <<tree, edits, env, seen, edited>>

Next ==
  \/ \E m \in Modules : Register(m) \/ Directory(m)
  \/ \E i \in Imports : Import(i)
  \/ \E l \in Locales, f \in Files, k \in Keys, v \in Values : Translation(l, f, k, v)
  \/ \E s \in Styles : Style(s)
  \/ Start \/ RunLane \/ Summary

Spec == Init /\ [][Next]_vars

-----------------------------------------------------------------------------
(* Properties.                                                             *)

\* Parity of the files is what a reader of Urdu needs: whatever English shows as a
\* text, Urdu shows as a text, and not as a key or as nothing (index.ts 19-27).
ParityMeansTranslated ==
  ParityOK => \A k \in Keys : /\ translate("en", k) # "key" => translate("ur", k) = "text"
                              /\ translate("en", k) = "key" => translate("ur", k) = "key"

\* A tree as every rule wants it.
Clean ==
  /\ disk = registry
  /\ \A i \in imports : i.form = "from" => RANK[i.to.tier] <= RANK[i.from.tier]
  /\ \A k \in Keys : (translate("en", k) = "key") <=> (translate("ur", k) = "key")
  /\ ~\E s \in styles : s.key = "marginLeft" \/ s.value = "left"

\* What verify promises at its end (verify.mjs 182-191), in a tree that nobody
\* edited meanwhile: only exit code 1 is compatible with a broken rule, blocked
\* lanes included, and exit code 0 also means that nothing was left out.
VerdictIsTrue ==
  lane = Done /\ edited = "no" =>
    /\ ExitCode \in {0, 2} => Clean
    /\ ExitCode = 0 => env = Settings
=============================================================================
