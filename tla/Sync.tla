-------------------------------- MODULE Sync --------------------------------
(***************************************************************************)
(* Synchronisation of the entries of several devices through one backup     *)
(* file: SyncManager (src/sync/sync_manager.cc), MergeByUuid                *)
(* (src/sync/merge_algorithm.h), the statements of PasswordDao that stamp,  *)
(* merge and forget entries, the version check of GoogleDriveProvider and   *)
(* the dirty flag of SyncScheduler.                                         *)
(*                                                                         *)
(* Every network request runs a nested event loop, so the user edits the    *)
(* vault between the snapshot a synchronisation takes and the moment it     *)
(* writes its result back, and again while the upload is on its way.        *)
(*                                                                         *)
(* An entry is its uuid; what the merge tells apart of its content is the   *)
(* updatedAt stamp and whether it is live, in the trash or permanently      *)
(* deleted. Categories and passwords' cryptography are left out.            *)
(***************************************************************************)
EXTENDS Integers, FiniteSets

CONSTANTS
  Device,
  Entry,
  Title,            \* the (title, username) of each entry
  Ahead,            \* by how much each device's clock runs ahead
  MaxClock,         \* bound: actions of the users in a behaviour
  MaxRetries,       \* kDefaultMaxRetries
  CloudExists,      \* does the backup file exist at the start?
  LateWrites,       \* may another device write between check and PATCH?
  Expires,          \* do deletions reach the age of 30 days?
  ReimportsDeleted  \* do users import an old export that names a deleted uuid?

ASSUME AheadAssumption == Ahead \in [Device -> Nat]
ASSUME RetriesAssumption == MaxRetries \in Nat \ {0}
ASSUME BoundAssumption == MaxClock \in Nat
ASSUME FlagsAssumption == {CloudExists, LateWrites, Expires, ReimportsDeleted} \subseteq BOOLEAN

VARIABLES
  store,    \* the database of each device: its rows and its deletion markers
  cloud,    \* the backup file: is it there, the rows and markers it holds
  fresh,    \* is the file's modifiedTime still the one the device read?
  \* --- the synchronisation a device is running (volatile)
  pc, attempt,
  snap,     \* the local snapshot it took
  got,      \* the backup it read
  out,      \* the state it uploads
  began,    \* the time it started
  \* --- the scheduler and the sync button (volatile)
  dirty,    \* the debounce timer is armed
  status,   \* result of the last synchronisation, as the button shows it
  \* --- time and history
  clock,
  newest,   \* the version the last user action gave each entry
  seen      \* the highest stamp each device has held for each entry

job == <<pc, attempt, snap, got, out, began>>
vars == <<store, cloud, fresh, pc, attempt, snap, got, out, began, dirty, status,
          clock, newest, seen>>

-----------------------------------------------------------------------------
NoVersion == [ts |-> 0, kind |-> "none"]
Live(t) == [ts |-> t, kind |-> "live"]
Trash(t) == [ts |-> t, kind |-> "trash"]
\* DeletionMarkerToSyncItem; 0 stands for no marker.
Gone(t) == [ts |-> t, kind |-> "gone"]

Larger(a, b) == IF a >= b THEN a ELSE b
IsRow(v) == v.kind \in {"live", "trash"}

NoRows == [e \in Entry |-> NoVersion]
NoMarks == [e \in Entry |-> 0]
EmptyVault == [row |-> NoRows, mark |-> NoMarks]
NoBackup == [there |-> FALSE, row |-> NoRows, mark |-> NoMarks]

Init ==
  /\ store = [d \in Device |-> EmptyVault]
  /\ cloud = [there |-> CloudExists, row |-> NoRows, mark |-> NoMarks]
  /\ fresh = [d \in Device |-> FALSE]
  /\ pc = [d \in Device |-> "idle"]
  /\ attempt = [d \in Device |-> 0]
  /\ snap = [d \in Device |-> EmptyVault]
  /\ got = [d \in Device |-> NoBackup]
  /\ out = [d \in Device |-> EmptyVault]
  /\ began = [d \in Device |-> 0]
  /\ dirty = [d \in Device |-> FALSE]
  /\ status = [d \in Device |-> "ok"]
  /\ clock = 0
  /\ newest = NoRows
  /\ seen = [d \in Device |-> NoMarks]

-----------------------------------------------------------------------------
(* Local versions and their merge.                                          *)

\* What a device offers for an entry: a row, unless a marker is as recent.
LocalItem(s, e) ==
  IF s.mark[e] # 0 /\ s.mark[e] >= s.row[e].ts THEN Gone(s.mark[e]) ELSE s.row[e]

\* What a reader of the backup sees: of two items with one uuid, the one
\* inserted last into the map, and the markers are written after the rows.
CloudItem(c, e) == IF c.mark[e] # 0 THEN Gone(c.mark[e]) ELSE c.row[e]

\* MergeByUuid: the later stamp, and the local item when they are equal.
MergeItem(l, c) == IF l.ts >= c.ts THEN l ELSE c

\* has_local_changes, with the marker that must replace a row as old as itself.
HasLocalChanges(s, c) ==
  \E e \in Entry :
    \/ LocalItem(s, e).ts > CloudItem(c, e).ts
    \/ /\ s.mark[e] # 0
       /\ s.mark[e] = CloudItem(c, e).ts
       /\ IsRow(CloudItem(c, e))

MarkersChanged(s, c) ==
  \E e \in Entry : s.mark[e] # 0 /\ CloudItem(c, e) # Gone(s.mark[e])

\* Mutant: the merged item is written whatever happened during the download.
MutantApplyOverEdit(r, m, v) ==
  IF v.kind = "none" THEN [row |-> r, mark |-> m]
  ELSE IF v.kind = "gone" THEN [row |-> NoVersion, mark |-> Larger(m, v.ts)]
  ELSE [row |-> v, mark |-> 0]

\* Mutant: ApplySyncedEntry does not look at the deletion markers.
MutantApplyOverMarker(r, m, v) ==
  IF v.kind = "none" \/ (IsRow(r) /\ r.ts >= v.ts) THEN [row |-> r, mark |-> m]
  ELSE IF v.kind = "gone" THEN [row |-> NoVersion, mark |-> Larger(m, v.ts)]
  ELSE [row |-> v, mark |-> 0]

\* Mutant: ApplySyncedEntry leaves the older marker beside the row.
MutantApplyKeepsMarker(r, m, v) ==
  IF v.kind = "none" \/ (IsRow(r) /\ r.ts >= v.ts) THEN [row |-> r, mark |-> m]
  ELSE IF v.kind = "gone" THEN [row |-> NoVersion, mark |-> Larger(m, v.ts)]
  ELSE IF m # 0 /\ m >= v.ts THEN [row |-> r, mark |-> m]
  ELSE [row |-> v, mark |-> m]

\* Step 6 of DoSyncOnce for one entry, with ApplyDeletionMarker and
\* ApplySyncedEntry: row r and marker m as they are NOW meet the merged item v.
ApplyItem(r, m, v) ==
  IF v.kind = "none" \/ (IsRow(r) /\ r.ts >= v.ts) THEN [row |-> r, mark |-> m]
  ELSE IF v.kind = "gone" THEN [row |-> NoVersion, mark |-> Larger(m, v.ts)]
  ELSE IF m # 0 /\ m >= v.ts THEN [row |-> r, mark |-> m]
  ELSE [row |-> v, mark |-> 0]

\* The store s after the items of the entries `on` have been written.
Apply(s, items, on) ==
  LET new == [e \in Entry |-> IF e \in on
                                THEN ApplyItem(s.row[e], s.mark[e], items[e])
                                ELSE [row |-> s.row[e], mark |-> s.mark[e]]]
  IN [row |-> [e \in Entry |-> new[e].row], mark |-> [e \in Entry |-> new[e].mark]]

\* CountDuplicate: a live entry the device has no row for is skipped when a live
\* row bears its title and username, so of two newcomers only one is written. The
\* loop runs in the order of a hash: a row that leaves the trash, or goes into it,
\* in the same loop may or may not be in the way.
Duplicates(e, rows) == { f \in Entry \ {e} : Title[f] = Title[e] /\ rows[f].kind = "live" }
Newcomers(s, items) == { e \in Entry : ~IsRow(s.row[e]) /\ items[e].kind = "live" }
WrittenSets(s, items) ==
  { on \in SUBSET Entry :
      LET new == Apply(s, items, on).row
      IN /\ Entry \ on \subseteq Newcomers(s, items)
         /\ \A e \in Entry \ on : Duplicates(e, s.row) \cup Duplicates(e, new) # {}
         /\ \A e \in on \cap Newcomers(s, items) :
              new[e].kind = "live" =>
                \A f \in Duplicates(e, new) : s.row[f].kind = "trash" }

\* DeleteOldTombstones: what was deleted before `cutoff`.
Expired(s, cutoff) ==
  [row |-> [e \in Entry |-> IF s.row[e].kind = "trash" /\ s.row[e].ts < cutoff
                              THEN NoVersion ELSE s.row[e]],
   mark |-> [e \in Entry |-> IF s.mark[e] < cutoff THEN 0 ELSE s.mark[e]]]
\* An attempt is far shorter than the 30 days: only what was deleted before it
\* started can be that old.
Cutoffs(d) == {0} \cup (IF Expires THEN 1..(began[d] + 1) ELSE {})

\* A device never holds less than it has held.
Remember(d, s) ==
  seen' = [seen EXCEPT ![d] =
             [e \in Entry |-> Larger(seen[d][e], LocalItem(s, e).ts)]]

-----------------------------------------------------------------------------
(* The user. None of this is disabled while a synchronisation runs.         *)

\* currentMSecsSinceEpoch on device d; users act one after another.
Now(d) == clock + 1 + Ahead[d]

\* The window writes entry e and marks the scheduler dirty.
Write(d, e, row, mark) ==
  LET s == [row |-> [store[d].row EXCEPT ![e] = row],
            mark |-> [store[d].mark EXCEPT ![e] = mark]]
  IN /\ clock < MaxClock
     /\ clock' = clock + 1
     /\ store' = [store EXCEPT ![d] = s]
     /\ newest' = [newest EXCEPT ![e] = IF row.kind = "none" THEN Gone(mark) ELSE row]
     /\ dirty' = [dirty EXCEPT ![d] = TRUE]
     /\ Remember(d, s)
     /\ UNCHANGED <<cloud, fresh, job, status>>

\* A new entry, under a uuid never used before.
CreateEntry(d, e) ==
  /\ newest[e] = NoVersion
  /\ Write(d, e, Live(Now(d)), store[d].mark[e])

\* Editor, favourite and change of category advance the stamp they find.
EditEntry(d, e) ==
  LET old == store[d].row[e]
  IN /\ old.kind = "live"
     /\ Write(d, e, Live(Larger(old.ts + 1, Now(d))), store[d].mark[e])

\* A CSV row that names a uuid, exported before. The import updates a live row
\* and inserts (or replaces) one otherwise, with the time of the import as it is;
\* PasswordDao::Insert does not look at the deletion markers.
ImportEntry(d, e) ==
  /\ newest[e] # NoVersion
  /\ store[d].mark[e] = 0 \/ ReimportsDeleted
  /\ Write(d, e, Live(Now(d)), store[d].mark[e])

MoveToTrash(d, e) ==
  /\ IsRow(store[d].row[e])
  /\ Write(d, e, Trash(Now(d)), store[d].mark[e])

RestoreEntry(d, e) ==
  /\ store[d].row[e].kind = "trash"
  /\ Write(d, e, Live(Now(d)), store[d].mark[e])

\* Mutant: the row is removed and no marker is left.
MutantPermanentlyDelete(d, e) ==
  /\ store[d].row[e].kind = "trash"
  /\ clock < MaxClock
  /\ clock' = clock + 1
  /\ store' = [store EXCEPT ![d].row[e] = NoVersion]
  /\ newest' = [newest EXCEPT ![e] = Gone(Larger(store[d].row[e].ts, Now(d)))]
  /\ dirty' = [dirty EXCEPT ![d] = TRUE]
  /\ UNCHANGED <<cloud, fresh, job, status, seen>>

PermanentlyDelete(d, e) ==
  LET old == store[d].row[e]
  IN /\ old.kind = "trash"
     /\ Write(d, e, NoVersion, Larger(store[d].mark[e], Larger(old.ts, Now(d))))

-----------------------------------------------------------------------------
(* The scheduler and one run of PerformSync.                                *)

\* DoSyncOnce starts: the session is unlocked, the snapshot is taken.
StartRun(d, n) ==
  /\ pc' = [pc EXCEPT ![d] = "read"]
  /\ attempt' = [attempt EXCEPT ![d] = n]
  /\ snap' = [snap EXCEPT ![d] = store[d]]
  /\ began' = [began EXCEPT ![d] = clock]

\* What the attempt held after its merge is gone.
Forget(d) ==
  /\ got' = [got EXCEPT ![d] = NoBackup]
  /\ out' = [out EXCEPT ![d] = EmptyVault]
  /\ fresh' = [fresh EXCEPT ![d] = FALSE]

\* PerformSync returns.
EndRun(d, result) ==
  /\ pc' = [pc EXCEPT ![d] = "idle"]
  /\ attempt' = [attempt EXCEPT ![d] = 0]
  /\ snap' = [snap EXCEPT ![d] = EmptyVault]
  /\ began' = [began EXCEPT ![d] = 0]
  /\ status' = [status EXCEPT ![d] = result]
  /\ Forget(d)

\* SyncImmediately, from the sync button or when an account has been connected.
\* While a run is busy it arms the timer instead.
SyncImmediately(d) ==
  /\ IF pc[d] = "idle"
       THEN /\ dirty' = [dirty EXCEPT ![d] = FALSE]
            /\ StartRun(d, 1)
       ELSE /\ dirty' = [dirty EXCEPT ![d] = TRUE]
            /\ UNCHANGED <<pc, attempt, snap, began>>
  /\ UNCHANGED <<store, cloud, fresh, got, out, status, clock, newest, seen>>

\* Mutant: a timer that finds the manager busy is not armed again.
MutantOnTimeout(d) ==
  /\ dirty[d]
  /\ dirty' = [dirty EXCEPT ![d] = FALSE]
  /\ IF pc[d] = "idle" THEN StartRun(d, 1) ELSE UNCHANGED <<pc, attempt, snap, began>>
  /\ UNCHANGED <<store, cloud, fresh, got, out, status, clock, newest, seen>>

\* The debounce timer fires. While a run is busy it is armed again, which
\* changes nothing here.
OnTimeout(d) ==
  /\ dirty[d]
  /\ pc[d] = "idle"
  /\ dirty' = [dirty EXCEPT ![d] = FALSE]
  /\ StartRun(d, 1)
  /\ UNCHANGED <<store, cloud, fresh, got, out, status, clock, newest, seen>>

\* The session is locked when the timer fires: the run fails at once.
OnTimeoutLocked(d) ==
  /\ dirty[d]
  /\ pc[d] = "idle"
  /\ dirty' = [dirty EXCEPT ![d] = FALSE]
  /\ EndRun(d, "error")
  /\ UNCHANGED <<store, cloud, clock, newest, seen>>

\* ReadBackup compares modifiedTime before and after the download, so what it
\* returns is one state of the file; it may also find that there is no file.
ReadBackup(d) ==
  /\ pc[d] = "read"
  /\ pc' = [pc EXCEPT ![d] = "merge"]
  /\ got' = [got EXCEPT ![d] = cloud]
  /\ fresh' = [fresh EXCEPT ![d] = cloud.there]
  /\ UNCHANGED <<store, cloud, attempt, snap, out, began, dirty, status, clock, newest, seen>>

\* The merged item of every entry, from the snapshot and the backup read.
Merged(d) ==
  [e \in Entry |-> MergeItem(LocalItem(snap[d], e), CloudItem(got[d], e))]

NeedUpload(d, s) ==
  ~got[d].there \/ HasLocalChanges(snap[d], got[d]) \/ MarkersChanged(s, got[d])

\* DeleteOldTombstones, then PerformSync reports success.
CleanUp(d, s) ==
  /\ \E cutoff \in Cutoffs(d) : store' = [store EXCEPT ![d] = Expired(s, cutoff)]
  /\ EndRun(d, "ok")

\* From the merge to the upload DoSyncOnce enters no event loop: s is the store
\* after the writes, final what an upload sends.
Conclude(d, s, final) ==
  /\ IF NeedUpload(d, final)
       THEN /\ store' = [store EXCEPT ![d] = s]
            /\ pc' = [pc EXCEPT ![d] = IF got[d].there THEN "check" ELSE "create"]
            /\ out' = [out EXCEPT ![d] = final]
            /\ snap' = [snap EXCEPT ![d] = EmptyVault]
            /\ got' = [got EXCEPT ![d] = NoBackup]
            /\ UNCHANGED <<fresh, attempt, began, status>>
       ELSE CleanUp(d, s)
  /\ Remember(d, s)
  /\ UNCHANGED <<cloud, dirty, clock, newest>>

\* Mutant: old deletions are forgotten before the final state is read.
MutantMerge(d) ==
  /\ pc[d] = "merge"
  /\ \E on \in WrittenSets(store[d], Merged(d)), cutoff \in Cutoffs(d) :
       LET s == Expired(Apply(store[d], Merged(d), on), cutoff)
       IN Conclude(d, s, s)

Merge(d) ==
  /\ pc[d] = "merge"
  /\ \E on \in WrittenSets(store[d], Merged(d)) :
       LET s == Apply(store[d], Merged(d), on) IN Conclude(d, s, s)

\* A write of step 6 fails (or the payload cannot be decrypted or encrypted):
\* what was written before it stays, nothing is uploaded.
MergeFails(d) ==
  /\ pc[d] = "merge"
  /\ \E on \in SUBSET Entry :
       LET s == Apply(store[d], Merged(d), on)
       IN /\ store' = [store EXCEPT ![d] = s]
          /\ Remember(d, s)
  /\ EndRun(d, "error")
  /\ UNCHANGED <<cloud, dirty, clock, newest>>

\* Mutant: the PATCH is sent whatever the modifiedTime is.
MutantCheckVersion(d) ==
  /\ pc[d] = "check"
  /\ LateWrites \/ \A o \in Device : pc[o] # "patch"
  /\ pc' = [pc EXCEPT ![d] = "patch"]
  /\ UNCHANGED <<store, cloud, fresh, attempt, snap, got, out, began, dirty, status,
                 clock, newest, seen>>

\* UploadBackupIfMatch finds the modifiedTime it expects and sends the PATCH.
CheckVersion(d) ==
  /\ pc[d] = "check"
  /\ fresh[d]
  /\ LateWrites \/ \A o \in Device : pc[o] # "patch"
  /\ pc' = [pc EXCEPT ![d] = "patch"]
  /\ UNCHANGED <<store, cloud, fresh, attempt, snap, got, out, began, dirty, status,
                 clock, newest, seen>>

\* Mutant: the retries are counted from zero and compared with <=.
MutantVersionMismatch(d) ==
  /\ pc[d] = "check"
  /\ ~fresh[d]
  /\ IF attempt[d] <= MaxRetries
       THEN /\ StartRun(d, attempt[d] + 1)
            /\ Forget(d)
            /\ UNCHANGED status
       ELSE EndRun(d, "conflict")
  /\ UNCHANGED <<store, cloud, dirty, clock, newest, seen>>

\* The file changed after it was read: the whole attempt is made again, from a
\* new snapshot, until the retries are used up.
VersionMismatch(d) ==
  /\ pc[d] = "check"
  /\ ~fresh[d]
  /\ IF attempt[d] < MaxRetries
       THEN /\ StartRun(d, attempt[d] + 1)
            /\ Forget(d)
            /\ UNCHANGED status
       ELSE EndRun(d, "conflict")
  /\ UNCHANGED <<store, cloud, dirty, clock, newest, seen>>

\* The file becomes what d sends, under a new modifiedTime.
Replace(d) ==
  /\ cloud' = [there |-> TRUE, row |-> out[d].row, mark |-> out[d].mark]
  /\ fresh' = [o \in Device |-> FALSE]
  /\ pc' = [pc EXCEPT ![d] = "sent"]
  /\ out' = [out EXCEPT ![d] = EmptyVault]
  /\ UNCHANGED <<store, attempt, snap, got, began, dirty, status, clock, newest, seen>>

PatchFile(d) == pc[d] = "patch" /\ Replace(d)

\* UploadBackup, when ReadBackup found no file: it creates the file, or replaces
\* whatever has appeared meanwhile.
UploadBackup(d) == pc[d] = "create" /\ Replace(d)

\* The answer to the upload has come.
Finish(d) ==
  /\ pc[d] = "sent"
  /\ CleanUp(d, store[d])
  /\ UNCHANGED <<cloud, dirty, clock, newest, seen>>

\* Any request may fail; the answer to an upload may be lost after the server
\* has carried it out.
NetworkFails(d) ==
  /\ pc[d] \in {"read", "check", "patch", "create", "sent"}
  /\ EndRun(d, "error")
  /\ UNCHANGED <<store, cloud, dirty, clock, newest, seen>>

\* The program ends, or is killed: the database stays, the rest goes.
Restart(d) ==
  /\ pc[d] # "idle" \/ dirty[d]
  /\ dirty' = [dirty EXCEPT ![d] = FALSE]
  /\ EndRun(d, "restarted")
  /\ UNCHANGED <<store, cloud, clock, newest, seen>>

-----------------------------------------------------------------------------
UserStep(d, e) ==
  \/ CreateEntry(d, e) \/ EditEntry(d, e) \/ ImportEntry(d, e)
  \/ MoveToTrash(d, e) \/ RestoreEntry(d, e) \/ PermanentlyDelete(d, e)

RunStep(d) ==
  \/ ReadBackup(d) \/ Merge(d) \/ CheckVersion(d) \/ VersionMismatch(d)
  \/ PatchFile(d) \/ UploadBackup(d) \/ Finish(d)

FailStep(d) ==
  OnTimeoutLocked(d) \/ MergeFails(d) \/ NetworkFails(d) \/ Restart(d)

Next ==
  \E d \in Device :
    \/ \E e \in Entry : UserStep(d, e)
    \/ SyncImmediately(d) \/ OnTimeout(d)
    \/ RunStep(d) \/ FailStep(d)

Spec == Init /\ [][Next]_vars

\* An armed timer fires when the manager is idle, and every request of a run is
\* answered or times out. Users need not act and nothing need fail.
Fairness ==
  \A d \in Device : WF_vars(OnTimeout(d)) /\ WF_vars(RunStep(d) \/ FailStep(d))

FairSpec == Spec /\ Fairness

-----------------------------------------------------------------------------
(* Properties.                                                              *)

Kind == {"none", "live", "trash", "gone"}
Version == [ts : Nat, kind : Kind]
Vault == [row : [Entry -> { v \in Version : v.kind # "gone" }], mark : [Entry -> Nat]]
Backup == [there : BOOLEAN, row : [Entry -> { v \in Version : v.kind # "gone" }],
           mark : [Entry -> Nat]]

(* The state is well formed; a run makes at most MaxRetries attempts and has
   made none when it is over (PerformSync). *)
TypeOK ==
  /\ store \in [Device -> Vault] /\ cloud \in Backup
  /\ fresh \in [Device -> BOOLEAN] /\ dirty \in [Device -> BOOLEAN]
  /\ pc \in [Device -> {"idle", "read", "merge", "check", "patch", "create", "sent"}]
  /\ attempt \in [Device -> 0..MaxRetries]
  /\ \A d \in Device : (attempt[d] = 0) = (pc[d] = "idle")
  /\ snap \in [Device -> Vault] /\ got \in [Device -> Backup] /\ out \in [Device -> Vault]
  /\ began \in [Device -> Nat] /\ clock \in 0..MaxClock
  /\ status \in [Device -> {"ok", "error", "conflict", "restarted"}]
  /\ newest \in [Entry -> Version] /\ seen \in [Device -> [Entry -> Nat]]

(* What a device holds for an entry never becomes older than what it has held:
   neither a write-back of a merge computed before an edit (ApplySyncedEntry and
   ApplyDeletionMarker look at the row of now) nor a retry nor the clean-up of
   old deletions lets a stale version, or a deleted entry, come back. Only a
   deletion past its age may be forgotten altogether. *)
NeverGoesBack ==
  \A d \in Device, e \in Entry :
    LET v == LocalItem(store[d], e)
    IN v.kind = "none" \/ v.ts = seen[d][e]

(* The version the last user action gave an entry is on some device or in the
   backup, whatever runs, conflicts, failures and restarts there have been
   (DoSyncOnce writes only what is newer and uploads the final state). *)
NewestSurvives ==
  \A e \in Entry :
    \/ newest[e].kind = "none"
    \/ CloudItem(cloud, e) = newest[e]
    \/ \E d \in Device : LocalItem(store[d], e) = newest[e]

(* A uuid has a row or a deletion marker, never both: ToPayload of the password
   change refuses a marker for a uuid it already has
   (password_change_coordinator.cc, "uuids.contains(m.uuid)"). *)
RowXorMarker ==
  \A d \in Device, e \in Entry : store[d].mark[e] = 0 \/ ~IsRow(store[d].row[e])

(* The backup never loses an entry or goes back to an older version of it: every
   upload that follows a confirmed version contains what it replaces or something
   newer (UploadBackupIfMatch, and the final state read before the clean-up). *)
CloudNeverGoesBack ==
  [][\A e \in Entry : CloudItem(cloud', e).ts >= CloudItem(cloud, e).ts]_cloud

(* A user action always gets a later stamp than the version it changes
   (main_window.cc, NextCategoryTimestamp: local edits must always win the next
   comparison, even when the stored value came from a clock that runs ahead). *)
LocalEditsWin ==
  [][\A d \in Device, e \in Entry :
       newest'[e] # newest[e] /\ store'[d] # store[d]
         => LocalItem(store'[d], e).ts > LocalItem(store[d], e).ts]_<<store, newest>>

(* What a device holds reaches the backup, unless its button comes to show that
   a synchronisation has failed or the program is restarted: an edit made while
   a run is busy is not forgotten (SyncScheduler: MarkDirty, OnTimeout). *)
EditsReachCloud ==
  \A d \in Device, e \in Entry, t \in 1..MaxClock :
    (LocalItem(store[d], e).ts = t)
      ~> (CloudItem(cloud, e).ts >= t \/ status[d] # "ok")
=============================================================================
