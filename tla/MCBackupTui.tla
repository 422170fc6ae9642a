----------------------------- MODULE MCBackupTui -----------------------------
(***************************************************************************)
(* BackupTui for TLC: two requested databases with different names.        *)
(***************************************************************************)
EXTENDS BackupTui

TwoNames == <<"a", "b">>
=============================================================================
