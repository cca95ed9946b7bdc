----------------------------- MODULE LocalReset -----------------------------
(***************************************************************************)
(* The files of a Windows user's vault and their journalled deletion        *)
(* (src/app/local_reset.cc). All installations of the program share them;   *)
(* the marker file names the installation that began to clear them, and     *)
(* only that one goes on with it.                                           *)
(*                                                                         *)
(* A file is the number of the vault it belongs to, 0 when it is missing.   *)
(* "db" stands for the database and its journals, "master" also for the     *)
(* record of Windows Hello. The deletion is not atomic: each file goes in a *)
(* step of its own, and any step may fail or be the last before a crash.    *)
(***************************************************************************)
EXTENDS Naturals, Sequences

CONSTANTS
  Installation,  \* copies of the program on the computer
  MaxVault       \* bound: vaults created in a behaviour

ASSUME MaxVaultAssumption == MaxVault \in Nat \ {0}
ASSUME InstallationAssumption == {"absent", "none"} \cap Installation = {}

VARIABLES
  marker,        \* local-reset.json: its owner, or "absent"
  files,         \* the vault each file belongs to
  era,           \* the number of the current vault (history)
  pending        \* does master.dat.migration hold an unfinished password change?

durable == <<marker, files, era, pending>>

\* Files(), in the order they are deleted; the settings are cleared after them.
Deleted == <<"db", "master", "binding", "migration", "token", "settings">>
File == {Deleted[k] : k \in DOMAIN Deleted}

NoFiles == [f \in File |-> 0]

ResetInit ==
  /\ marker = "absent"
  /\ files = NoFiles
  /\ era = 1
  /\ pending = FALSE

ResetTypeOK ==
  /\ marker \in Installation \cup {"absent"}
  /\ files \in [File -> 0..MaxVault]
  /\ era \in 1..MaxVault
  /\ pending \in BOOLEAN

Exists(f) == files[f] # 0
Wrote(S) == [f \in File |-> IF f \in S THEN era ELSE files[f]]

Inspect(i) == IF marker = "absent" THEN "absent"
              ELSE IF marker = i THEN "owned" ELSE "other"

\* What the rest of the program must allow before anything is deleted.
Eligible(i, quiet) == quiet /\ Inspect(i) = "absent" /\ ~pending

\* Begin: the marker is one atomic write; from here on the vault is given up.
Begin(i) ==
  /\ marker' = i
  /\ UNCHANGED <<files, era, pending>>

MutantRemoveFile(k) ==
  /\ files' = [files EXCEPT ![Deleted[k]] = IF Deleted[k] = "binding" THEN @ ELSE 0]
  /\ UNCHANGED <<marker, era, pending>>

\* One file of Resume's loop, or the settings.
RemoveFile(k) ==
  /\ files' = [files EXCEPT ![Deleted[k]] = 0]
  /\ UNCHANGED <<marker, era, pending>>

\* Resume's last step; the next vault starts a new era.
RemoveMarker ==
  /\ marker' = "absent"
  /\ era' = era + 1
  /\ UNCHANGED <<files, pending>>
=============================================================================
