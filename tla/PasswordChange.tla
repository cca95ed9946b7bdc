--------------------------- MODULE PasswordChange ---------------------------
(***************************************************************************)
(* The journalled master password change of                                *)
(* src/master_password/password_change_coordinator.cc, the startup gate of  *)
(* src/app/password_change_startup.h and the way application.cc drives      *)
(* them: master.dat, the SQLite rows, the Windows Hello blob, the journal   *)
(* file and the cloud backup are separate stores, a step writes one of      *)
(* them, and the process may die, or a write may fail, between any two.     *)
(*                                                                         *)
(* Data is reduced to what the protocol tells apart: a password is the     *)
(* GENERATION of the master record made from it (BuildChange salts every    *)
(* record afresh, so two changes never share one), a row is an entry and    *)
(* the generation that encrypts it, a backup is the generation that         *)
(* encrypts it, its entries and an id. Every encryption draws a fresh IV    *)
(* and a backup is written at most once, so one id stands both for the      *)
(* bytes of a backup and for the modifiedTime under which it was stored.    *)
(* An entry is a uuid, whether live, in the trash or a deletion marker:     *)
(* Merge keeps every uuid of either side. Categories are left out.          *)
(***************************************************************************)
EXTENDS Integers, FiniteSets

CONSTANTS
  Item,             \* the entries the vault may hold
  MaxGen,           \* bound: password changes started in a behaviour
  MaxBlobs,         \* bound: backups encrypted in a behaviour, by any device
  MaxRetries,       \* SyncManager::kDefaultMaxRetries
  LateWrites,       \* may a PATCH take effect after the check it relies on,
                    \* or after its sender gave up on it?
  InitialBindings   \* the binding files a behaviour may start from

ASSUME MaxGenAssumption == MaxGen \in Nat
ASSUME MaxBlobsAssumption == MaxBlobs \in Nat
ASSUME MaxRetriesAssumption == MaxRetries \in Nat \ {0}
ASSUME LateWritesAssumption == LateWrites \in BOOLEAN
ASSUME BindingsAssumption == InitialBindings \subseteq {"unknown", "local", "bound"}

VARIABLES
  \* --- durable, on this device
  journal,    \* master.dat.migration
  rec,        \* generation of the record in master.dat
  rows,       \* the rows of the database
  hello,      \* generation whose password hello_unlock.dat holds, or NoKey
  binding,    \* master.dat.binding
  \* --- the cloud
  cloud,      \* the backup file, id 0 when there is none
  inflight,   \* a PATCH the server has not processed, or NoBlob
  otherBase,  \* the backup another device read and will write on top of
  landed,     \* history: ids of every backup the file has held
  \* --- volatile, lost when the process ends
  pc,         \* where the process stands
  mode,       \* who called Commit or ResolveUpload: "change", "recover"
  draft,      \* the Journal object in memory
  snap,       \* the rows Change read in its transaction
  attempt,    \* the retry loop's counter
  key,        \* generation of the session's key, NoKey when locked
  lockReq,    \* lock_requested_ and exit_requested_
  \* --- fresh values
  lastGen, lastBlob

device == <<journal, rec, rows, hello, binding>>
remote == <<cloud, inflight, otherBase, landed>>
memory == <<mode, draft, snap, attempt, key, lockReq>>
fresh == <<lastGen, lastBlob>>
vars == <<journal, rec, rows, hello, binding, cloud, inflight, otherBase, landed,
          pc, mode, draft, snap, attempt, key, lockReq, lastGen, lastBlob>>

-----------------------------------------------------------------------------
NoKey == -1
Gen == Nat
NoBlob == [key |-> 0, items |-> {}, id |-> 0]
Sealed(items, g) == { [item |-> i, key |-> g] : i \in items }
ItemsOf(rs) == { r.item : r \in rs }
SealedUnder(rs, g) == \A r \in rs : r.key = g

Phases == {"Empty", "Prepared", "Uploading", "Confirmed"}
NoJournal ==
  [phase |-> "Empty", cloud |-> FALSE, newRec |-> 0, newRows |-> {},
   newBlob |-> NoBlob, oldBlob |-> 0]
AtPhase(j, p) == [j EXCEPT !.phase = p]

\* NeedsRecovery (an unreadable journal is only ever a reason to stay locked).
NeedsRecovery == journal.phase # "Empty"

Row == [item : Item, key : Gen]
Blob == [key : Gen, items : SUBSET Item, id : Nat]
Journal == [phase : Phases, cloud : BOOLEAN, newRec : Gen, newRows : SUBSET Row,
            newBlob : Blob, oldBlob : Nat]

ChangePC == {"read", "prepare", "mark", "check", "patch", "await"}
CommitPC == {"confirm", "apply", "record", "hello", "finish"}
NetworkPC == {"read", "check", "await", "resolve"}
PC == {"down", "gate", "open", "resolve"} \cup ChangePC \cup CommitPC
Running == pc \in {"resolve"} \cup ChangePC \cup CommitPC

Init ==
  /\ journal = NoJournal
  /\ rec = 0
  /\ rows \in { Sealed(items, 0) : items \in SUBSET Item }
  /\ hello \in {NoKey, 0}
  /\ binding \in InitialBindings
  /\ \/ cloud = NoBlob /\ landed = {}
     \/ /\ cloud \in { [key |-> 0, items |-> items, id |-> 1] : items \in SUBSET Item }
        /\ landed = {1}
  /\ inflight = NoBlob
  /\ otherBase = NoBlob
  /\ pc = "down"
  /\ mode = "none"
  /\ draft = NoJournal
  /\ snap = {}
  /\ attempt = 0
  /\ key = NoKey
  /\ lockReq = "none"
  /\ lastGen = 0
  /\ lastBlob = 1

-----------------------------------------------------------------------------
(* How Change and Recover end: Result and what application.cc makes of it.  *)

Clear ==
  /\ mode' = "none"
  /\ draft' = NoJournal
  /\ snap' = {}
  /\ attempt' = 0
  /\ lockReq' = "none"

\* Outcome::kLocked: EndPasswordChange(must_lock), OnLocked, UnlockVault; or,
\* in the startup gate, the retry prompt.
EndLocked ==
  /\ Clear
  /\ pc' = IF lockReq = "exit" THEN "down" ELSE "gate"
  /\ key' = NoKey

\* kUnchanged or kCompleted with session key g. A lock or an exit requested
\* while the change ran is honoured now; a recovery returns to the gate's loop.
EndWith(g) ==
  /\ Clear
  /\ IF mode = "change" /\ lockReq = "none"
       THEN pc' = "open" /\ key' = g
       ELSE /\ pc' = IF lockReq = "exit" THEN "down" ELSE "gate"
            /\ key' = NoKey

-----------------------------------------------------------------------------
(* The vault when no change runs.                                           *)

Start ==
  /\ pc = "down"
  /\ pc' = "gate"
  /\ UNCHANGED <<device, remote, memory, fresh>>

\* Mutant: the gate unlocks without looking at the journal.
MutantUnlockIgnoresJournal ==
  /\ pc = "gate"
  /\ pc' = "open"
  /\ key' = rec
  /\ UNCHANGED <<device, remote, mode, draft, snap, attempt, lockReq, fresh>>

\* UnlockAfterPasswordRecovery leaves its loop; UnlockFlow verifies the
\* password against master.dat and derives the session key from that record.
Unlock ==
  /\ pc = "gate"
  /\ ~NeedsRecovery
  /\ pc' = "open"
  /\ key' = rec
  /\ UNCHANGED <<device, remote, mode, draft, snap, attempt, lockReq, fresh>>

Lock ==
  /\ pc = "open"
  /\ pc' = "gate"
  /\ key' = NoKey
  /\ UNCHANGED <<device, remote, mode, draft, snap, attempt, lockReq, fresh>>

\* Mutant: the editor stays usable while the change waits for the network.
MutantSaveEntryDuringChange(i) ==
  /\ pc \in {"open"} \cup NetworkPC
  /\ i \notin ItemsOf(rows)
  /\ rows' = rows \cup Sealed({i}, rec)
  /\ UNCHANGED <<journal, rec, hello, binding, remote, pc, memory, fresh>>

\* The window saves an entry with the session's key. centralWidget is disabled
\* and every handler returns while migration_active_.
SaveEntry(i) ==
  /\ pc = "open"
  /\ i \notin ItemsOf(rows)
  /\ rows' = rows \cup Sealed({i}, key)
  /\ UNCHANGED <<journal, rec, hello, binding, remote, pc, memory, fresh>>

\* SaveBinding as its callers reach it: the choice in ConfirmBinding, the first
\* connection to an account, a token found at startup. "bound" is never replaced.
SaveBinding(b) ==
  /\ pc = "open" \/ (pc = "gate" /\ b = "bound")
  /\ binding # "bound"
  /\ binding' = b
  /\ UNCHANGED <<journal, rec, rows, hello, remote, pc, memory, fresh>>

\* The process ends at any point: everything volatile is lost.
Crash ==
  /\ pc # "down"
  /\ Clear
  /\ pc' = "down"
  /\ key' = NoKey
  /\ inflight' = IF LateWrites THEN inflight ELSE NoBlob
  /\ UNCHANGED <<device, cloud, otherBase, landed, fresh>>

\* Auto-lock, the lock button or the close button while the change waits for
\* the network: SessionManager::Lock and closeEvent only take note of it.
RequestLock ==
  /\ pc \in NetworkPC
  /\ mode = "change"
  /\ \/ lockReq = "none" /\ lockReq' \in {"lock", "exit"}
     \/ lockReq = "lock" /\ lockReq' = "exit"
  /\ UNCHANGED <<device, remote, pc, mode, draft, snap, attempt, key, fresh>>

-----------------------------------------------------------------------------
(* Change.                                                                  *)

\* ToPayload, Merge and EncryptCandidate: the snapshot's entries, with the
\* cloud's entries `more`, encrypted under the new generation.
Candidate(more, g) == Sealed(ItemsOf(snap) \cup more, g)

\* Mutant: the window keeps the old session key while the change runs.
MutantBeginChangeKeepsKey ==
  /\ pc = "open"
  /\ ~NeedsRecovery
  /\ binding = "local"
  /\ lastGen < MaxGen
  /\ lastGen' = lastGen + 1
  /\ mode' = "change"
  /\ snap' = rows
  /\ attempt' = 1
  /\ pc' = "prepare"
  /\ draft' = [NoJournal EXCEPT !.phase = "Prepared", !.newRec = lastGen + 1,
                  !.newRows = Sealed(ItemsOf(rows), lastGen + 1)]
  /\ UNCHANGED <<device, remote, key, lockReq, lastBlob>>

\* The guards, VerifyLocal, BuildChange and the snapshot transaction run
\* without an event loop. The early returns that change nothing are stutters.
BeginChange ==
  /\ pc = "open"
  /\ ~NeedsRecovery
  /\ binding \in {"local", "bound"}
  /\ SealedUnder(rows, rec)
  /\ lastGen < MaxGen
  /\ lastGen' = lastGen + 1
  /\ mode' = "change"
  /\ snap' = rows
  /\ attempt' = 1
  /\ key' = NoKey
  /\ IF binding = "bound"
       THEN /\ pc' = "read"
            /\ draft' = [NoJournal EXCEPT !.cloud = TRUE, !.newRec = lastGen + 1]
       ELSE /\ pc' = "prepare"
            /\ draft' = [NoJournal EXCEPT
                 !.phase = "Prepared", !.newRec = lastGen + 1,
                 !.newRows = Sealed(ItemsOf(rows), lastGen + 1)]
  /\ UNCHANGED <<device, remote, lockReq, lastBlob>>

\* Mutant: a retry uploads the snapshot alone, without the re-read cloud.
MutantReadCloudMergesOnce ==
  /\ pc = "read"
  /\ cloud.id # 0
  /\ cloud.key = rec
  /\ lastBlob < MaxBlobs
  /\ lastBlob' = lastBlob + 1
  /\ LET more == IF attempt = 1 THEN cloud.items ELSE {}
     IN draft' = [draft EXCEPT
          !.phase = "Prepared",
          !.newRows = Candidate(more, draft.newRec),
          !.newBlob = [key |-> draft.newRec, items |-> ItemsOf(snap) \cup more,
                       id |-> lastBlob + 1],
          !.oldBlob = cloud.id]
  /\ pc' = "prepare"
  /\ UNCHANGED <<device, remote, mode, snap, attempt, key, lockReq, lastGen>>

\* ReadBackup, DecryptFromCloud with the old password, Merge, EncryptForCloud.
ReadCloud ==
  /\ pc = "read"
  /\ cloud.id # 0
  /\ cloud.key = rec
  /\ lastBlob < MaxBlobs
  /\ lastBlob' = lastBlob + 1
  /\ draft' = [draft EXCEPT
       !.phase = "Prepared",
       !.newRows = Candidate(cloud.items, draft.newRec),
       !.newBlob = [key |-> draft.newRec, items |-> ItemsOf(snap) \cup cloud.items,
                    id |-> lastBlob + 1],
       !.oldBlob = cloud.id]
  /\ pc' = "prepare"
  /\ UNCHANGED <<device, remote, mode, snap, attempt, key, lockReq, lastGen>>

\* No backup, no network, another password, a corrupt backup: kUnchanged.
ReadCloudFails ==
  /\ pc = "read"
  /\ EndWith(rec)
  /\ UNCHANGED <<device, remote, fresh>>

SavePrepared ==
  /\ pc = "prepare"
  /\ journal' = draft
  /\ pc' = IF draft.cloud THEN "mark" ELSE "confirm"
  /\ UNCHANGED <<rec, rows, hello, binding, remote, memory, fresh>>

SavePreparedFails ==
  /\ pc = "prepare"
  /\ EndWith(rec)
  /\ UNCHANGED <<device, remote, fresh>>

SaveUploading ==
  /\ pc = "mark"
  /\ draft' = AtPhase(draft, "Uploading")
  /\ journal' = AtPhase(draft, "Uploading")
  /\ pc' = "check"
  /\ UNCHANGED <<rec, rows, hello, binding, remote, mode, snap, attempt, key, lockReq, fresh>>

\* UploadBackupIfMatch: the metadata request finds the expected modifiedTime,
\* or the request itself fails (kError is looked into like a success).
CheckVersion ==
  /\ pc = "check"
  /\ \/ cloud.id = draft.oldBlob /\ pc' = "patch"
     \/ pc' = "resolve"
  /\ UNCHANGED <<device, remote, memory, fresh>>

\* kVersionMismatch: drop the journal and try again, or give up.
VersionMismatch ==
  /\ pc = "check"
  /\ cloud.id # draft.oldBlob
  /\ journal' = NoJournal
  /\ IF attempt < MaxRetries
       THEN /\ pc' = "read"
            /\ attempt' = attempt + 1
            /\ UNCHANGED <<mode, draft, snap, key, lockReq>>
       ELSE EndWith(rec)
  /\ UNCHANGED <<rec, rows, hello, binding, remote, fresh>>

\* UpdateFile: an unconditional PATCH.
SendPatch ==
  /\ pc = "patch"
  /\ inflight = NoBlob
  /\ inflight' = draft.newBlob
  /\ pc' = "await"
  /\ UNCHANGED <<device, cloud, otherBase, landed, memory, fresh>>

\* Mutant: whatever the upload answered is taken for success.
MutantPatchReturnsTrusted ==
  /\ pc = "await"
  /\ pc' = "confirm"
  /\ inflight' = IF LateWrites THEN inflight ELSE NoBlob
  /\ UNCHANGED <<device, cloud, otherBase, landed, memory, fresh>>

\* The reply arrives, or the transfer times out: the status is not believed.
PatchReturns ==
  /\ pc = "await"
  /\ pc' = "resolve"
  /\ inflight' = IF LateWrites THEN inflight ELSE NoBlob
  /\ UNCHANGED <<device, cloud, otherBase, landed, memory, fresh>>

\* A backup without version, a candidate that cannot be encrypted (before it is
\* saved), any later write that fails: Outcome::kLocked.
StepFails ==
  /\ pc \in {"read", "prepare", "mark", "check"} \cup CommitPC
  /\ EndLocked
  /\ UNCHANGED <<device, remote, fresh>>

\* Change's catch clause (std::bad_alloc, a storage exception).
Throw ==
  /\ mode = "change"
  /\ Running /\ pc # "await"
  /\ IF NeedsRecovery THEN EndLocked ELSE EndWith(rec)
  /\ UNCHANGED <<device, remote, fresh>>

-----------------------------------------------------------------------------
(* ResolveUpload.                                                           *)

UploadConfirmed ==
  /\ pc = "resolve"
  /\ cloud.id = draft.newBlob.id
  /\ pc' = "confirm"
  /\ UNCHANGED <<device, remote, memory, fresh>>

\* Mutant: any backup that is not the candidate counts as the old one.
MutantUploadDidNotHappen ==
  /\ pc = "resolve"
  /\ cloud.id # draft.newBlob.id
  /\ journal' = NoJournal
  /\ EndWith(rec)
  /\ UNCHANGED <<rec, rows, hello, binding, remote, fresh>>

UploadDidNotHappen ==
  /\ pc = "resolve"
  /\ cloud.id = draft.oldBlob
  /\ journal' = NoJournal
  /\ EndWith(rec)
  /\ UNCHANGED <<rec, rows, hello, binding, remote, fresh>>

\* Not authenticated, unreadable, or neither backup: only Outcome::kLocked.
\* (Also when FinishJournal fails after the old backup was found.)
UploadUnknown ==
  /\ pc = "resolve"
  /\ EndLocked
  /\ UNCHANGED <<device, remote, fresh>>

-----------------------------------------------------------------------------
(* Commit.                                                                  *)

\* Mutant: the rows are switched before the journal says Confirmed.
MutantSaveConfirmedSkipped ==
  /\ pc = "confirm"
  /\ draft' = AtPhase(draft, "Confirmed")
  /\ pc' = "apply"
  /\ UNCHANGED <<device, remote, mode, snap, attempt, key, lockReq, fresh>>

SaveConfirmed ==
  /\ pc = "confirm"
  /\ draft' = AtPhase(draft, "Confirmed")
  /\ journal' = AtPhase(draft, "Confirmed")
  /\ pc' = "apply"
  /\ UNCHANGED <<rec, rows, hello, binding, remote, mode, snap, attempt, key, lockReq, fresh>>

\* ApplySnapshot: one FULL-synchronous WAL transaction. It reports failure
\* after a commit when the previous synchronous setting cannot be restored.
ApplySnapshot ==
  /\ pc = "apply"
  /\ rows' = draft.newRows
  /\ pc' = "record"
  /\ UNCHANGED <<journal, rec, hello, binding, remote, memory, fresh>>

ApplySnapshotReportsFailure ==
  /\ pc = "apply"
  /\ rows' = draft.newRows
  /\ EndLocked
  /\ UNCHANGED <<journal, rec, hello, binding, remote, fresh>>

\* Mutant: the record written is the session's, which the change has dropped.
MutantSaveRecordOfSession ==
  /\ pc = "record"
  /\ rec' = key
  /\ pc' = "hello"
  /\ UNCHANGED <<journal, rows, hello, binding, remote, memory, fresh>>

\* Mutant: the journal is finished without invalidating Windows Hello.
MutantSaveRecordSkipsHello ==
  /\ pc = "record"
  /\ rec' = draft.newRec
  /\ pc' = "finish"
  /\ UNCHANGED <<journal, rows, hello, binding, remote, memory, fresh>>

SaveRecord ==
  /\ pc = "record"
  /\ rec' = draft.newRec
  /\ pc' = "hello"
  /\ UNCHANGED <<journal, rows, hello, binding, remote, memory, fresh>>

InvalidateHello ==
  /\ pc = "hello"
  /\ hello' = NoKey
  /\ pc' = "finish"
  /\ UNCHANGED <<journal, rec, rows, binding, remote, memory, fresh>>

FinishCommit ==
  /\ pc = "finish"
  /\ journal' = NoJournal
  /\ EndWith(draft.newRec)
  /\ UNCHANGED <<rec, rows, hello, binding, remote, fresh>>

-----------------------------------------------------------------------------
(* Recover, called by the startup gate while the journal is not empty.      *)

\* Mutant: recovery drops whatever journal it finds.
MutantRecoverDropsJournal ==
  /\ pc = "gate"
  /\ NeedsRecovery
  /\ journal' = NoJournal
  /\ UNCHANGED <<rec, rows, hello, binding, remote, pc, memory, fresh>>

\* Mutant: a prepared cloud change is left for an upload that never began.
MutantRecoverPreparedLocalOnly ==
  /\ pc = "gate"
  /\ journal.phase = "Prepared" /\ ~journal.cloud
  /\ journal' = NoJournal
  /\ UNCHANGED <<rec, rows, hello, binding, remote, pc, memory, fresh>>

RecoverPrepared ==
  /\ pc = "gate"
  /\ journal.phase = "Prepared"
  /\ journal' = NoJournal
  /\ UNCHANGED <<rec, rows, hello, binding, remote, pc, memory, fresh>>

RecoverPending ==
  /\ pc = "gate"
  /\ journal.phase \in {"Uploading", "Confirmed"}
  /\ draft' = journal
  /\ mode' = "recover"
  /\ pc' = IF journal.phase = "Confirmed" THEN "confirm" ELSE "resolve"
  /\ UNCHANGED <<device, remote, snap, attempt, key, lockReq, fresh>>

-----------------------------------------------------------------------------
(* The server and the vault's other devices (not part of this program).     *)

\* The file's content becomes b.
Stored(b) == cloud' = b /\ landed' = landed \cup {b.id}

ServerAppliesPatch ==
  /\ inflight # NoBlob
  /\ Stored(inflight)
  /\ inflight' = NoBlob
  /\ UNCHANGED <<device, otherBase, pc, memory, fresh>>

ServerDropsPatch ==
  /\ inflight # NoBlob
  /\ inflight' = NoBlob
  /\ UNCHANGED <<device, cloud, otherBase, landed, pc, memory, fresh>>

OtherDeviceReads ==
  /\ cloud.id # 0
  /\ lastBlob < MaxBlobs
  /\ otherBase # cloud
  /\ otherBase' = cloud
  /\ UNCHANGED <<device, cloud, inflight, landed, pc, memory, fresh>>

\* It merges an entry of its own and writes the backup back under the
\* password it read it with.
OtherDeviceWrites(i) ==
  /\ otherBase # NoBlob
  /\ lastBlob < MaxBlobs
  /\ LateWrites \/ (otherBase = cloud /\ pc \notin {"patch", "await"})
  /\ lastBlob' = lastBlob + 1
  /\ Stored([key |-> otherBase.key, items |-> otherBase.items \cup {i},
              id |-> lastBlob + 1])
  /\ otherBase' = NoBlob
  /\ UNCHANGED <<device, inflight, pc, memory, lastGen>>

-----------------------------------------------------------------------------
Session == Start \/ Unlock \/ Lock \/ Crash \/ RequestLock
             \/ (\E i \in Item : SaveEntry(i))
             \/ (\E b \in {"local", "bound"} : SaveBinding(b))
Change == BeginChange \/ ReadCloud \/ ReadCloudFails \/ SavePrepared
             \/ SavePreparedFails \/ SaveUploading \/ CheckVersion
             \/ VersionMismatch \/ SendPatch \/ PatchReturns \/ StepFails \/ Throw
ResolveUpload == UploadConfirmed \/ UploadDidNotHappen \/ UploadUnknown
Commit == SaveConfirmed \/ ApplySnapshot \/ ApplySnapshotReportsFailure
             \/ SaveRecord \/ InvalidateHello \/ FinishCommit
Recover == RecoverPrepared \/ RecoverPending
Cloud == ServerAppliesPatch \/ ServerDropsPatch \/ OtherDeviceReads
             \/ (\E i \in Item : OtherDeviceWrites(i))

Next == Session \/ Change \/ ResolveUpload \/ Commit \/ Recover \/ Cloud

Spec == Init /\ [][Next]_vars

\* A change of the file system that keeps failing is not retried by the program
\* but by the user, at the gate's prompt: whoever waits in front of it retries
\* until it works, so every step that is possible again and again succeeds.
Fairness ==
  /\ WF_vars(Start \/ Change \/ ResolveUpload \/ Commit \/ Recover)
  /\ SF_vars(UploadConfirmed) /\ SF_vars(UploadDidNotHappen)
  /\ SF_vars(SaveConfirmed) /\ SF_vars(ApplySnapshot) /\ SF_vars(SaveRecord)
  /\ SF_vars(InvalidateHello) /\ SF_vars(FinishCommit)
  /\ SF_vars(RecoverPrepared) /\ SF_vars(RecoverPending) /\ SF_vars(Unlock)

FairSpec == Spec /\ Fairness

-----------------------------------------------------------------------------
(* Properties.                                                              *)

\* Every variable has its type, and the retry loop stays within its limit.
TypeOK ==
  /\ journal \in Journal
  /\ rec \in Gen
  /\ rows \subseteq Row
  /\ hello \in Gen \cup {NoKey}
  /\ binding \in {"unknown", "local", "bound"}
  /\ cloud \in Blob /\ inflight \in Blob /\ otherBase \in Blob
  /\ landed \subseteq Nat
  /\ pc \in PC
  /\ mode \in {"none", "change", "recover"}
  /\ draft \in Journal
  /\ snap \subseteq Row
  /\ attempt \in 0..MaxRetries
  /\ key \in Gen \cup {NoKey}
  /\ lockReq \in {"none", "lock", "exit"}
  /\ lastGen \in Nat /\ lastBlob \in Nat

\* An open vault is whole: its session key is the one of the record on disk,
\* decrypts every row, and no migration is pending behind it
\* (UnlockAfterPasswordRecovery, EndPasswordChange).
OpenVaultReadable ==
  pc = "open" => key = rec /\ SealedUnder(rows, key) /\ ~NeedsRecovery

\* Crash consistency: at EVERY moment the durable files alone determine one
\* whole vault. Before Confirmed the old record opens every row; from Confirmed
\* on the journal holds the whole new vault, and rows and record are each
\* entirely old or entirely new, never the record before the rows (Commit).
RecoverableAtEveryCrash ==
  IF journal.phase # "Confirmed"
    THEN SealedUnder(rows, rec)
    ELSE /\ SealedUnder(journal.newRows, journal.newRec)
         /\ ItemsOf(rows) \subseteq ItemsOf(journal.newRows)
         /\ \/ rows = journal.newRows
            \/ SealedUnder(rows, rec) /\ rec # journal.newRec

\* A cloud-bound vault is not switched to the new password before the cloud has
\* held the very backup made with it, whatever the upload answered
\* (ResolveUpload).
SwitchNeedsCloud ==
  journal.phase = "Confirmed" /\ journal.cloud => journal.newBlob.id \in landed

\* No step ever drops an entry from the vault: not the wholesale DELETE and
\* INSERT of ApplySnapshot, not an edit made while a change is running.
EntriesKept == [][ItemsOf(rows) \subseteq ItemsOf(rows')]_rows

\* Confirmed is a point of no return: the journal then only ends once the new
\* record and the new rows are in place.
ForwardOnly ==
  [][journal.phase = "Confirmed" =>
       \/ journal' = journal
       \/ journal' = NoJournal /\ rec' = journal.newRec /\ rows' = journal.newRows]_vars

\* Once no migration is pending, Windows Hello holds the current password or
\* none: a stale one never survives the journal (Commit, Invalidate).
HelloNeverStale == ~NeedsRecovery => hello \in {NoKey, rec}

\* The protocol implements the one-step change of AtomicVault: the vault counts
\* as changed from the moment the journal says Confirmed.
Committed == journal.phase = "Confirmed"
AV == INSTANCE AtomicVault WITH
        rec <- IF Committed THEN journal.newRec ELSE rec,
        rows <- IF Committed THEN journal.newRows ELSE rows
ImplementsAtomicVault == AV!Spec

\* For a vault that was cloud-bound all along: an open vault's password is the
\* one of the cloud backup, so its next synchronisation can read it. Holds only
\* when the server never applies a write after the check it relied on.
CloudAgreement == pc = "open" /\ cloud.id # 0 => cloud.key = rec

\* Under the same condition no backup ever replaces one with entries it lacks:
\* every retry merges the cloud anew.
CloudKeepsEntries == [][cloud.items \subseteq cloud'.items]_cloud

\* The one situation the recovery cannot leave: the upload's outcome is in
\* doubt and another device has written the cloud since.
Undecidable ==
  /\ journal.phase = "Uploading"
  /\ cloud.id \notin {journal.oldBlob, journal.newBlob.id}

\* While the process stays up, a change or a recovery never ends up anywhere but
\* in an open vault, however many writes fail on the way.
RecoveryCompletes ==
  <>[](pc # "down") => []<>(pc = "open" \/ Undecidable)
=============================================================================
