------------------------------- MODULE MCDesktop -------------------------------
(* Desktop for TLC: two installations of the program and up to three vaults.  *)
(* The formats and files that the process reads and writes (EntryForm and     *)
(* CsvFormat, LocalSecrets, BackupFile and MigrationPayload) come along for    *)
(* their assumptions.                                                         *)
EXTENDS Desktop, EntryForm, LocalSecrets, MigrationPayload
=============================================================================
