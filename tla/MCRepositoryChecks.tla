------------------------- MODULE MCRepositoryChecks -------------------------
(***************************************************************************)
(* An instance of RepositoryChecks: one module name in three tiers, and a  *)
(* key in each of two files of two locales.                                *)
(***************************************************************************)
EXTENDS RepositoryChecks

CONSTANTS m, k
=============================================================================
