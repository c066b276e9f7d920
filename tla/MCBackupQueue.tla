--------------------------- MODULE MCBackupQueue ---------------------------
(* An instance of BackupQueue for TLC.                                       *)
EXTENDS BackupQueue
===========================================================================
