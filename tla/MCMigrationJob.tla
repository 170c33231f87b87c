--------------------------- MODULE MCMigrationJob ---------------------------
(***************************************************************************)
(* Instances of MigrationJob for TLC.                                      *)
(***************************************************************************)
EXTENDS MigrationJob

CONSTANTS t1, t2

=============================================================================
