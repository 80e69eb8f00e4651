------------------------ MODULE RepositoryChecksProofs ------------------------
(***************************************************************************)
(* For every set of module names and keys and every number of edits: what  *)
(* npm run verify says of a tree, and what its module and parity guards    *)
(* mean for the tree, beyond the single imports and files they look at.    *)
(***************************************************************************)
EXTENDS RepositoryChecks, TLAPS

\* Does a guard see the tree as it was when its lane ran?
Passed(n) == lane > n /\ edited = "no" /\ "FAIL" \notin seen

\* A lane that has run left its verdict in the summary: where none failed and
\* nobody edited, the guards are still satisfied, and where none was blocked
\* either, everything that a lane needs was there.
LanesInv ==
  /\ Passed(2) => ModulesOK
  /\ Passed(3) => ParityOK
  /\ Passed(6) => ~\E s \in styles : Reported(s)
  /\ \A n \in 1..Len(Lanes) : Passed(n) /\ "BLOCKED" \notin seen => Needs(Lanes[n]) \subseteq env

ChecksInv == TypeOK /\ LanesInv

-----------------------------------------------------------------------------
(* The tiers, the lanes and the values.                                    *)

LEMMA RankIsANumber == \A t \in Tiers : RANK[t] \in 0..2
BY DEF RANK, Tiers

\* The lanes that look at the tree, and those that need something.
LEMMA LaneCount == Len(Lanes) = 11 /\ Done = 13
BY DEF Lanes, Done

LEMMA LaneNames ==
  /\ Lanes[2] = "module dependency direction"
  /\ Lanes[3] = "localization parity"
  /\ Lanes[6] = "lint"
  /\ Lanes[9] = "migration status"
  /\ Lanes[10] = "audit append-only test"
  /\ Lanes[11] = "android"
BY DEF Lanes

\* What the lanes that look at the tree say, and the needs of two others.
LEMMA GuardVerdicts ==
  /\ LaneVerdicts("module dependency direction") = {IF ModulesOK THEN "PASS" ELSE "FAIL"}
  /\ LaneVerdicts("localization parity") = {IF ParityOK THEN "PASS" ELSE "FAIL"}
  /\ LaneVerdicts("lint") = Outcomes(~\E s \in styles : Reported(s), FALSE)
<1>1. LaneVerdicts("module dependency direction") = {IF ModulesOK THEN "PASS" ELSE "FAIL"}
  BY DEF LaneVerdicts, Needs
<1>2. LaneVerdicts("localization parity") = {IF ParityOK THEN "PASS" ELSE "FAIL"}
  BY DEF LaneVerdicts, Needs
<1>3. LaneVerdicts("lint") = Outcomes(~\E s \in styles : Reported(s), FALSE)
  BY DEF LaneVerdicts, Needs
<1> QED
  BY <1>1, <1>2, <1>3

LEMMA NeedsOfLanes ==
  /\ Needs("audit append-only test") = {"DATABASE_URL", "RUNTIME_APP_DATABASE_URL"}
  /\ Needs("android") = {"android toolchain"}
BY DEF Needs

\* A lane says PASS, FAIL or BLOCKED, and BLOCKED only if something was missing or
\* could not be started.
LEMMA LaneVerdictsAreVerdicts == \A n : LaneVerdicts(n) \subseteq Verdicts
BY DEF LaneVerdicts, Outcomes, Verdicts

-----------------------------------------------------------------------------
(* Types.                                                                  *)

LEMMA InitTypeOK == Init => TypeOK
<1> SUFFICES ASSUME Init PROVE TypeOK
  OBVIOUS
<1> USE BoundsAssumption DEF Init
<1>1. registry \subseteq Modules /\ disk \subseteq Modules
  BY DEF Modules
<1>2. catalogue \in Catalogues
  BY DEF Catalogues, Values
<1>3. edits \in 0..MaxEdits /\ lane \in 0..Done
  BY LaneCount
<1> QED
  BY <1>1, <1>2, <1>3 DEF TypeOK

LEMMA NextTypeOK == TypeOK /\ [Next]_vars => TypeOK'
<1> SUFFICES ASSUME TypeOK, [Next]_vars PROVE TypeOK'
  OBVIOUS
<1> USE BoundsAssumption DEF TypeOK
<1>1. Edit => /\ edits' \in 0..MaxEdits /\ edited' \in {"yes", "no"}
              /\ UNCHANGED <<env, lane, seen>>
  BY DEF Edit
<1>2. ASSUME NEW S, NEW T, S \subseteq T, NEW x \in T PROVE Toggled(S, x) \subseteq T
  BY <1>2 DEF Toggled
<1>3. ASSUME NEW m \in Modules, Register(m) PROVE TypeOK'
  BY <1>1, <1>2, <1>3 DEF Register
<1>4. ASSUME NEW m \in Modules, Directory(m) PROVE TypeOK'
  BY <1>1, <1>2, <1>4 DEF Directory
<1>5. ASSUME NEW i \in Imports, Import(i) PROVE TypeOK'
  BY <1>1, <1>2, <1>5 DEF Import
<1>6. ASSUME NEW l \in Locales, NEW f \in Files, NEW k \in Keys, NEW v \in Values,
             Translation(l, f, k, v)
      PROVE  TypeOK'
  <2>1. catalogue' \in Catalogues
    BY <1>6 DEF Translation, Catalogues
  <2> QED
    BY <1>1, <1>6, <2>1 DEF Translation
<1>7. ASSUME NEW s \in Styles, Style(s) PROVE TypeOK'
  BY <1>1, <1>2, <1>7 DEF Style
<1>8. ASSUME Start PROVE TypeOK'
  <2>1. lane' \in 0..Done /\ env' \subseteq Settings
    BY <1>8, LaneCount DEF Start
  <2> QED
    BY <1>8, <2>1 DEF Start, tree
<1>9. ASSUME RunLane PROVE TypeOK'
  <2>1. lane' \in 0..Done /\ seen' \subseteq Verdicts
    BY <1>9, LaneCount, LaneVerdictsAreVerdicts DEF RunLane
  <2> QED
    BY <1>9, <2>1 DEF RunLane, tree
<1>10. ASSUME Summary PROVE TypeOK'
  <2>1. lane' \in 0..Done
    BY <1>10, LaneCount DEF Summary
  <2> QED
    BY <1>10, <2>1 DEF Summary, tree
<1>11. CASE UNCHANGED vars
  BY <1>11 DEF vars, tree, progress
<1> QED
  BY <1>3, <1>4, <1>5, <1>6, <1>7, <1>8, <1>9, <1>10, <1>11 DEF Next

-----------------------------------------------------------------------------
(* The verdicts of the lanes.                                              *)

\* An edit takes back what the lanes have seen.
LEMMA EditedPassesNothing ==
  ASSUME Edit
  PROVE  LanesInv'
BY DEF Edit, LanesInv, Passed

\* Where no tree is edited, no lane passes anew but the one that runs.
LEMMA NextLanesInv == ChecksInv /\ [Next]_vars => LanesInv'
<1> SUFFICES ASSUME ChecksInv, [Next]_vars PROVE LanesInv'
  OBVIOUS
<1>1. TypeOK /\ LanesInv /\ lane \in Nat
  BY LaneCount DEF ChecksInv, TypeOK
<1>2. (\E m \in Modules : Register(m) \/ Directory(m)) \/ (\E i \in Imports : Import(i))
        \/ (\E l \in Locales, f \in Files, k \in Keys, v \in Values : Translation(l, f, k, v))
        \/ (\E s \in Styles : Style(s))
      => LanesInv'
  BY EditedPassesNothing DEF Register, Directory, Import, Translation, Style
<1>3. ASSUME Start PROVE LanesInv'
  <2>1. \A n \in 1..Len(Lanes) : ~(lane' > n)
    BY <1>3, LaneCount DEF Start
  <2> QED
    BY <2>1, LaneCount DEF LanesInv, Passed
<1>4. UNCHANGED tree => /\ ModulesOK' = ModulesOK /\ ParityOK' = ParityOK
                        /\ (\E s \in styles : Reported(s))' = \E s \in styles : Reported(s)
  BY DEF tree, ModulesOK, UpwardImports, ParityOK, Loaded
<1>5. ASSUME RunLane PROVE LanesInv'
  <2>1. /\ UNCHANGED <<tree, env, edited>> /\ lane \in 1..Len(Lanes) /\ lane' = lane + 1
        /\ \A w \in seen : w \in seen'
        /\ seen' \cap LaneVerdicts(Lanes[lane]) # {}
    BY <1>5 DEF RunLane
  <2>2. \A n \in 1..Len(Lanes) : Passed(n)' => Passed(n) \/ n = lane
    BY <1>1, <2>1, LaneCount DEF Passed
  <2>3. ASSUME Passed(2)', 2 = lane PROVE ModulesOK
    <3>1. LaneVerdicts(Lanes[lane]) = {IF ModulesOK THEN "PASS" ELSE "FAIL"}
      BY <2>3, LaneNames, GuardVerdicts
    <3> QED
      BY <2>1, <2>3, <3>1 DEF Passed
  <2>4. ASSUME Passed(3)', 3 = lane PROVE ParityOK
    <3>1. LaneVerdicts(Lanes[lane]) = {IF ParityOK THEN "PASS" ELSE "FAIL"}
      BY <2>4, LaneNames, GuardVerdicts
    <3> QED
      BY <2>1, <2>4, <3>1 DEF Passed
  <2>5. ASSUME Passed(6)', 6 = lane PROVE ~\E s \in styles : Reported(s)
    <3>1. LaneVerdicts(Lanes[lane]) = Outcomes(~\E s \in styles : Reported(s), FALSE)
      BY <2>5, LaneNames, GuardVerdicts
    <3> QED
      BY <2>1, <2>5, <3>1 DEF Passed, Outcomes
  <2>6. ASSUME NEW n \in 1..Len(Lanes), n = lane, Passed(n)', "BLOCKED" \notin seen'
        PROVE  Needs(Lanes[n]) \subseteq env
    <3> DEFINE name == Lanes[n]
    <3>1. Needs(name) = {} \/ name \in {"migration status", "audit append-only test", "android"}
      BY DEF Needs
    <3>2. CASE name \in {"migration status", "audit append-only test", "android"}
      <4>1. Needs(name) # {}
        BY <3>2 DEF Needs
      <4>2. LaneVerdicts(name) = IF Needs(name) \subseteq env THEN Outcomes(TRUE, TRUE) ELSE {"BLOCKED"}
        BY <3>2, <4>1 DEF LaneVerdicts
      <4> QED
        BY <2>1, <2>6, <4>2
    <3> QED
      BY <3>1, <3>2
  <2>7. /\ Passed(2)' => ModulesOK'
        /\ Passed(3)' => ParityOK'
        /\ Passed(6)' => ~(\E s \in styles : Reported(s))'
    BY <1>1, <1>4, <2>1, <2>2, <2>3, <2>4, <2>5, LaneCount DEF LanesInv
  <2>8. ASSUME NEW n \in 1..Len(Lanes), Passed(n)', "BLOCKED" \notin seen'
        PROVE  Needs(Lanes[n]) \subseteq env
    <3>1. Passed(n) /\ "BLOCKED" \notin seen => Needs(Lanes[n]) \subseteq env
      BY <1>1 DEF LanesInv
    <3> QED
      BY <2>1, <2>2, <2>6, <2>8, <3>1
  <2> QED
    BY <2>1, <2>7, <2>8 DEF LanesInv
<1>6. ASSUME Summary \/ UNCHANGED vars PROVE LanesInv'
  <2>1. UNCHANGED <<tree, env, seen, edited>>
    BY <1>6 DEF Summary, vars, progress, tree
  <2>2. \A n \in 1..Len(Lanes) : Passed(n)' => Passed(n)
    BY <1>1, <1>6, LaneCount DEF Summary, vars, progress, Passed
  <2> QED
    BY <1>1, <1>4, <2>1, <2>2, LaneCount DEF LanesInv
<1> QED
  BY <1>2, <1>3, <1>5, <1>6 DEF Next

-----------------------------------------------------------------------------
(* What the guards mean for the tree.                                      *)

\* In a tree that passes the module guard no import leads upward, within a module
\* neither.
LEMMA GuardedImports ==
  ASSUME TypeOK, ModulesOK, NEW i \in imports, i.form = "from"
  PROVE  RANK[i.to.tier] <= RANK[i.from.tier]
<1>1. i.from.tier \in Tiers /\ i.to.tier \in Tiers
  BY DEF TypeOK, Imports, Modules
<1> QED
  BY <1>1, RankIsANumber DEF ModulesOK, UpwardImports

\* Two catalogues with the same files and keys say the same keys on the screen.
LEMMA ParityTranslates == TypeOK => ParityMeansTranslated
<1> SUFFICES ASSUME TypeOK, ParityOK, NEW k \in Keys
             PROVE  /\ translate("en", k) # "key" => translate("ur", k) = "text"
                    /\ translate("en", k) = "key" => translate("ur", k) = "key"
  BY DEF ParityMeansTranslated
<1> DEFINE e == <<"foundation.json", k>>
<1>1. e \in Files \X Keys /\ e[1] = "foundation.json" /\ e[2] = k
  BY DEF Files
<1>2. \A l \in Locales : catalogue[l]["foundation.json"][k] \in Values
  BY DEF TypeOK, Catalogues, Files
<1>3. \A l \in Locales : e \in Loaded(l) <=> catalogue[l]["foundation.json"][k] # "none"
  BY <1>1 DEF Loaded
<1>4. /\ e \in Loaded("en") <=> e \in Loaded("ur")
      /\ e \in Loaded("ur") => catalogue["ur"]["foundation.json"][k] # "empty"
  BY <1>1 DEF ParityOK
<1> QED
  BY <1>2, <1>3, <1>4 DEF translate, Values, Locales

\* Guards that are all satisfied leave the tree clean.
LEMMA GuardsMeanClean ==
  ASSUME TypeOK, ModulesOK, ParityOK, ~\E s \in styles : Reported(s)
  PROVE  Clean
<1>1. disk = registry
  BY DEF ModulesOK
<1>2. \A i \in imports : i.form = "from" => RANK[i.to.tier] <= RANK[i.from.tier]
  BY GuardedImports
<1>3. \A k \in Keys : (translate("en", k) = "key") <=> (translate("ur", k) = "key")
  BY ParityTranslates DEF ParityMeansTranslated
<1>4. ~\E s \in styles : s.key = "marginLeft" \/ s.value = "left"
  BY DEF Reported, PHYSICAL, PHYSICAL_ALIGN, TypeOK, Styles
<1> QED
  BY <1>1, <1>2, <1>3, <1>4 DEF Clean

\* The exit code is the truth about a tree that was not edited.
LEMMA ExitCodeIsTrue == ChecksInv => VerdictIsTrue
<1> SUFFICES ASSUME ChecksInv, lane = Done, edited = "no"
             PROVE  /\ ExitCode \in {0, 2} => Clean
                    /\ ExitCode = 0 => env = Settings
  BY DEF VerdictIsTrue
<1>1. TypeOK /\ LanesInv /\ \A n \in 1..Len(Lanes) : Passed(n) <=> "FAIL" \notin seen
  BY LaneCount DEF ChecksInv, Passed
<1>2. ExitCode \in {0, 2} => "FAIL" \notin seen
  BY DEF ExitCode
<1>3. ExitCode = 0 => "FAIL" \notin seen /\ "BLOCKED" \notin seen
  BY DEF ExitCode
<1>4. ASSUME "FAIL" \notin seen PROVE Clean
  BY <1>1, <1>4, LaneCount, GuardsMeanClean DEF LanesInv
<1>5. ASSUME "FAIL" \notin seen, "BLOCKED" \notin seen PROVE env = Settings
  <2>1. 10 \in 1..Len(Lanes) /\ 11 \in 1..Len(Lanes)
    BY LaneCount
  <2>2. Needs(Lanes[10]) \subseteq env /\ Needs(Lanes[11]) \subseteq env
    BY <1>1, <1>5, <2>1 DEF LanesInv
  <2> QED
    BY <1>1, <2>2, LaneNames, NeedsOfLanes DEF Settings, TypeOK
<1> QED
  BY <1>2, <1>3, <1>4, <1>5

-----------------------------------------------------------------------------
(* The theorems.                                                           *)

LEMMA AlwaysChecksInv == Spec => []ChecksInv
<1>1. Init => ChecksInv
  <2>1. Init => LanesInv
    BY LaneCount DEF Init, LanesInv, Passed
  <2> QED
    BY <2>1, InitTypeOK DEF ChecksInv
<1>2. ChecksInv /\ [Next]_vars => ChecksInv'
  BY NextTypeOK, NextLanesInv DEF ChecksInv
<1> QED
  BY <1>1, <1>2, PTL DEF Spec

\* The tree and the progress of verify keep their types.
THEOREM ChecksTypeOK == Spec => []TypeOK
BY AlwaysChecksInv, PTL DEF ChecksInv

\* Catalogues that pass the parity guard leave no reader of Urdu without a text
\* that English has (index.ts 19-27).
THEOREM ParityAlwaysTranslates == Spec => []ParityMeansTranslated
<1>1. ChecksInv => ParityMeansTranslated
  BY ParityTranslates DEF ChecksInv
<1> QED
  BY <1>1, AlwaysChecksInv, PTL

\* The exit code of verify is true of the tree it looked at (verify.mjs 182-191).
THEOREM VerdictStaysTrue == Spec => []VerdictIsTrue
<1>1. ChecksInv => VerdictIsTrue
  BY ExitCodeIsTrue
<1> QED
  BY <1>1, AlwaysChecksInv, PTL
=============================================================================
