---------------------------- MODULE MCBackupBatch ----------------------------
(***************************************************************************)
(* BackupBatch for TLC: three targets, the last two naming the same        *)
(* database (nothing in core forbids it).                                  *)
(***************************************************************************)
EXTENDS BackupBatch

MCDBName == <<"a", "b", "b">>
=============================================================================
