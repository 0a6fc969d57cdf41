-------------------------- MODULE MCBackupStore --------------------------
(* Small instances of BackupStore for TLC.                                 *)
EXTENDS BackupStore, TLC

CONSTANTS b1, b2, w1, w2

=============================================================================
