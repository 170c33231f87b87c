---------------------------- MODULE MCBackupJob ----------------------------
(***************************************************************************)
(* Instances of BackupJob for TLC.                                         *)
(***************************************************************************)
EXTENDS BackupJob

CONSTANTS a, b

=============================================================================
