----------------------------- MODULE MCApiServer -----------------------------
(* Small instances of ApiServer for TLC. *)
EXTENDS ApiServer, TLC

CONSTANTS r1, r2, c1

HealthKinds == MatchedKinds
EveryKind == AllKinds

=============================================================================
