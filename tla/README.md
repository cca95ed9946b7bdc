# A verification project for PassVault for Windows

PassVault is a local-first password manager (C++17, Qt 6). The vault is a set of
files on one machine; an optional encrypted backup on Google Drive lets several
devices share it. The interesting failures are not in the cryptography but in the
*order* of things: a password change that touches four stores, a synchronisation
whose network waits run the user's clicks, a window that works on copies of what a
merge rewrites underneath, a reset that deletes files one by one. The modules here
model those protocols and the file formats between them, TLC checks them on small
instances, and TLAPS proves nearly all of the safety properties, and both refinements,
for every instance.

## 1. The system

Everything runs in one GUI thread. Concurrency comes from *nested event loops*:
`SendRequestSync` of the Drive provider (and every modal dialog) runs an event loop
while a caller waits, so timers, the auto-lock, the close button and the editor run
in the middle of a synchronisation or of a password change. True concurrency comes
from the other devices of the vault, the server and the end of the process.

| component (under `src/src`) | state it keeps | operations | what makes it correct |
|---|---|---|---|
| `master_password/password_change_coordinator` | journal `master.dat.migration`, `master.dat.binding` | Change, Commit, ResolveUpload, Recover, SaveBinding | a crash anywhere leaves one whole vault; the cloud switches first; nothing is lost |
| `master_password/master_password_{manager,store}` | `master.dat` | verify, build a new record, save it atomically | the record matches the rows |
| `app/password_change_startup.h` | - | the gate in front of unlocking | no session behind a pending migration |
| `sync/sync_manager`, `sync/merge_algorithm.h` | - (snapshots across network waits) | PerformSync, MergeByUuid, DedupCategoriesByName | nothing newer is overwritten, nothing disappears from the backup |
| `sync/sync_scheduler` | dirty flag, debounce timer, paused | MarkDirty, SyncImmediately, OnTimeout, SetPaused | an edit is eventually uploaded |
| `sync/google_drive_provider` | the backup's id and modifiedTime (remote) | ReadBackup, UploadBackupIfMatch, UploadBackup | check-then-PATCH conflicts are seen |
| `storage/*` | rows, deletion markers, categories | stamped writes, trash, markers, merge writes, clean-up | a uuid has one state, the later stamp wins |
| `session/*` | session key, unlocked, deferred lock | Unlock, Lock, Begin/EndPasswordChange, auto-lock | nobody uses a key that is gone |
| `app/application.cc` | which flow is active | wires the parts: unlock, change, import, lock, reset | flows exclude each other |
| `app/local_reset` | reset marker, list of files | Begin, Resume | a crash during the reset is completed at the next start |
| `hello/windows_hello_unlock` | protected copy of the password | Enroll, Unlock, Invalidate (the program calls only the last) | never a stale password |
| `oauth/*` | tokens, pending requests | Authorize, refresh, look up, revoke, cancel | a late answer never revives a dropped account; whoever waits goes on |
| `csv/*` | - | validate, import, export | a round trip changes nothing; uuids stay unique |
| `model/*`, `crypto/*` | - | the backup's JSON, encryption with sizes and checks | another device reads what was written; damage is noticed |
| `generator/*` | - | drawing characters, estimating strength | every character as likely; the class that was chosen |
| `ui/*` | lists, detail, editor, dialogs: copies of the tables | handlers that call the DAOs and MarkDirty | the copies agree with the tables; nothing is deleted unasked; stamps advance |

Interactions: the window's handlers write through the DAOs and call
`SyncScheduler::MarkDirty`; the scheduler calls `SyncManager::PerformSync`, which reads
the session's key, the DAOs and the provider; `Application::ChangeMasterPassword` pauses
the scheduler, holds the session's lock requests back, runs the coordinator and then
either replaces the session's key or locks; at startup the gate recovers the journal
before anything can be unlocked.

## 2. Modules

| module | models |
|---|---|
| `AtomicVault` | what a password change promises: record and rows change in one step |
| `PasswordChange` | the journalled change, its recovery and the gate; implements `AtomicVault` |
| `PasswordChangeProofs` | its invariants, action properties and refinement, proved |
| `AgreementProofs` | the agreement of device and backup across a password change, proved |
| `MigrationPayload` | what the change writes: snapshot, strict reading of the backup, merge, journal |
| `Sync` | entries of several devices, one backup, scheduler and provider checks |
| `SyncProofs` | types, a row or a marker, newest wins, the backup only grows, forgetting loses nothing, proved |
| `VaultStore` | the tables and the statements of the DAOs on entries, markers and categories |
| `VaultMerge` | one merge of `DoSyncOnce`: categories, entries, dedup, is there anything to upload |
| `Workspace` | the window's operations over its copies, a synchronisation underneath |
| `WorkspaceProofs` | all properties of `Workspace`, and lemmas on every statement and the merge, proved |
| `VaultLifetime` | what is promised about the vault of a computer: one at a time, cleared in one step |
| `LocalReset` | the files, the marker and the steps of the journalled deletion |
| `Desktop` | one process from start to end, with its nested event loops; implements `VaultLifetime` |
| `DesktopProofs`, `LifetimeProofs` | what a reset guarantees, and the refinement of `VaultLifetime`, proved |
| `SessionProofs` | types, locks, ends of flows and owed edits of `Desktop`, proved |
| `OAuthClient` | the Google client's fields and what each call and answer makes of them |
| `Account` | client, wizard, page and the provider's requests, in each other's event loops |
| `AccountProofs` | types, the version check, the consent to credentials and the truth of the page, proved |
| `BackupFile` | payload and backup JSON, cloud and vault encryption, over symbolic ciphertexts |
| `CsvFormat` | CSV reader, writer, validator, exporter |
| `LocalSecrets` | `master.dat`, the Windows Hello file, the stored token: set, verify, change, open |
| `EntryForm` | what the editor accepts and normalises, generator and strength |
| `MCPasswordChange`, `MCSync`, `MCDesktop` | instances for TLC |

`LocalReset` <- `Desktop`, `OAuthClient` <- `Account`, `VaultStore` <- `VaultMerge` <-
`Workspace`, `CsvFormat` <- `EntryForm`, `BackupFile` <- `MigrationPayload` by EXTENDS. The
same code appears in several models at the grain each question needs: the provider is a
check and a PATCH in `Sync`, a chain of requests with tokens in `Account`, one step in
`Workspace`; the password change is a protocol in `PasswordChange`, one frame
("changing") in `Desktop`, a function on contents in `MigrationPayload`.

### PasswordChange

*Durable* variables are the files of the device: `journal`, `rec` (`master.dat`),
`rows` (SQLite), `hello`, `binding`. *Remote*: `cloud`, a PATCH `inflight`, the backup
another device has read (`otherBase`), and the history `landed`. *Volatile*: `pc` (the
coordinator's position, or the gate, the open vault, the ended process), the `draft`
journal in memory, the row snapshot `snap`, the retry counter, the session key, a
deferred lock or exit. One action per step between two observable effects: every
`Save`, `ApplySnapshot`, `SaveRaw`, `Invalidate`, `FinishJournal`, every network request.
`Crash` may happen at any of them and `StepFails` / `Throw` are the failing writes and
the `catch` clause. A password is the *generation* of the record derived from it; a row
is an entry and the generation that encrypts it; a backup has an id that stands for its
bytes and its modifiedTime. An entry is a uuid (live, trashed or a deletion marker).
`LateWrites = TRUE` lets the server apply a PATCH after the check it relied on or
after its sender has given up.

### Sync

Per device: `store` (rows with stamp and kind, deletion markers), the run
(`pc, attempt, began, snap, got, out`), the scheduler (`dirty`), the result the
button shows (`status`). Shared: the backup `cloud`, and `fresh[d]`, whether its
modifiedTime is still the one device d read. Actions follow `DoSyncOnce`: `StartRun` takes
the snapshot, `ReadBackup` returns one state of the file, `Merge` is everything from
there to the upload (no event loop runs in between, so it is one step: MergeByUuid,
`ApplySyncedEntry` / `ApplyDeletionMarker` against the store as it is *now*, the final
state), `CheckVersion` or `VersionMismatch`, `PatchFile` or `UploadBackup`, `Finish` with
the clean-up of old deletions. Between any two of them the user acts: create, edit,
import, trash, restore, delete for good. `MergeFails`, `NetworkFails`, `OnTimeoutLocked`
and `Restart` are the ways a run ends badly.

`newest` (the last user action's version of each entry) and `seen` (the highest stamp a
device has held) are history variables that no guard of the program reads (`newest` only
tells new uuids from known ones).

### VaultStore, VaultMerge, Workspace

`VaultStore` has one operator per DAO statement, each a transaction on a record of rows,
markers and categories. `VaultMerge` computes what `DoSyncOnce` makes of the snapshot it took
*before* the download, the backup it read, and the tables as they are *by then*: steps 4 to 7
and the decision of step 9, with every choice of a winner that the hash order of
`DedupCategoriesByName` allows. `Workspace` puts `MainWindow` on top: `view` (section, list,
detail, loaded categories, and whether anything was written since without a reload),
`editor`, `dialog` (with the ids or the category it took when it opened), and a run of
the synchronisation whose merge and answers come while any of them is open. Every
handler is one action, or two when a dialog runs its event loop in between. Other
devices change one thing in the backup, at stamps this clock may not have reached.

Abstractions: an entry's fields are one `Text` and a star; search, sorting and the inline
rename are left out (they change nothing else); titles of different uuids differ (the
duplicate check is in `Sync`), so an import names a live entry by its title; the refusal
of a duplicate is no step; the backup exists; the version check and its PATCH are one
step (`Sync` and `Account` take them apart); categories are not removed for good; a lock
under a run is `Desktop`'s.

### LocalReset, Desktop, VaultLifetime

`Desktop` is `Application`: `stack` holds the event loops that are open - the dialogs, the
wizard, the change of the password, the reads and uploads of a synchronisation - and only
the innermost returns. The other variables are the objects the application wires:
session, flags of the flows, scheduler, window (shown, enabled, has a key), account
(paused, looking up, revoking), auto-lock timer, clipboard, and the step of
`LocalReset::Resume`. `held` is the pointer to the session key that `DoSyncOnce` took; it becomes
"freed" when the session locks. Crashes come anywhere, another installation of the
same user may start at any time the first one does not run. The refinement mapping says that a vault
is given up when the marker is written: from then on nothing is held or open, whatever
files are still there.

### OAuthClient, Account

The client is a record of the fields of `GoogleOAuthClient`; the generation counter is the
set of requests that are still current, since the code only ever compares for equality. `Account` adds the
page's state, the flags of `Application::WirePreferencesPage`, the wizard, and one
synchronisation's requests: each asks `EnsureAccessToken`, may wait in its loop, flies,
arrives; the server does its part in between, answers or loses the answer, other
devices write. One backup folder, up to two files of its name (two devices that both
find none create one each). One wizard and one synchronisation at a time, in either order on the
stack.

### BackupFile, MigrationPayload, CsvFormat, LocalSecrets, EntryForm

Pure code as operators; each property is an ASSUME that TLC evaluates over all small
inputs when `desktop` starts. A ciphertext is the record of what was encrypted and with
which key; a JSON value is a record tagged with its type; bytes appear where lengths or
order matter (CSV characters, draws of the generator). They state: what one device uploads another
reads, under its own key, and with no other password; a damaged backup is refused or
read whole; exactly the password that was set opens the vault and a change replaces it; a stored token
opens only for its user and machine; the journal a change prepares is whole, loads, keeps
fields this version does not know, and leaves the next synchronisation nothing to do; a cut
journal is refused; a damaged item stops the change; CSV survives a round trip up to outer
white space; what the editor saves can be imported again unless the password is nothing but white
space; generated characters are uniform and of the chosen classes; the strength's
pattern is the shortest period.

## 3. Runs

| run | asks | bounds | states |
|---|---|---|---|
| `pc_safety` | can a crash, a failed write or a late PATCH leave a half-changed or wrongly opened vault? Does the protocol implement `AtomicVault`? | 2 entries, 2 changes, 6 backups, 3 attempts, late writes | 478,528 |
| `pc_cloud` | without late writes: do device and cloud keep one password, is every cloud entry kept, does recovery end? | 1 entry, 2 changes, 4 backups, 2 attempts | 12,357 |
| `pc_late_patch` (violation) | is "the cloud has not changed" true when ResolveUpload says so? | 1 change, late writes | - |
| `sync_safety` | crossing uploads, first upload without a file: does a device ever go back, is the newest version ever lost? | 2 devices, 1 entry, 3 user actions, 2 attempts | 359,436 |
| `sync_cloud` | uploads that do not cross, deletions that expire: does the backup ever regress, does a deleted entry return, is a uuid ever both a row and a marker? | 2 devices, 1 entry, 4 user actions, 2 attempts | 1.7 million |
| `sync_liveness` | does every version reach the backup unless a failure shows? | 2 devices, 1 entry, 2 user actions, 2 attempts | 57,755 |
| `sync_duplicates` (violation) | does merging keep every entry of every device? | 2 entries of one title | - |
| `sync_skewed_clock` (violation) | does a local action always win? | one clock 2 ahead | - |
| `sync_reimport` (violation) | does that survive an import of an old export? | 4 user actions | - |
| `desktop` | can any order of locks, dialogs, syncs, a change, a reset, crashes and a second installation leave the program unusable, unlocked, or with files of a cleared vault? Is a deferred lock honoured? Does it implement `VaultLifetime`? And the assumptions of the format modules. | 2 installations, 3 vaults | 33,154 |
| `account` | does a late answer store a token or show an account that was dropped, can the page or a synchronisation wait for ever, is the version that is checked that of the content that was merged? | 3 backup writes, 2 attempts | 780,809 |
| `workspace` | does the window show the tables, is anything deleted that nobody confirmed, is anything newer replaced, does a run that says it is done leave something out? | 2 entries, 2 categories, 2 names, 2 texts, stamps to 3, 2 user actions on any section, 1 foreign change | 403,343 |

Why the bounds are enough: the password change's hazards need one change, one
crash at each position and one foreign write; the second change is there because the
first leaves its generation behind, the third attempt because the limit is 3. In Sync
an entry's life (create, trash, delete for good) takes three actions, and the fourth lets
the other device edit in between; entries do not interact in the merge except through
the duplicate check, which has its own run with two. Two attempts show both outcomes of
a version conflict (retry and give up); the code's three would repeat the first.
Clocks advance with each user action and are in step but for `sync_skewed_clock`;
equal stamps of different edits (same millisecond on two devices) are not modelled in `Sync`,
and are in `Workspace`. `desktop` needs a third vault so that a vault can be cleared, its
successor be cleared too, and a last one be opened; the stack is bounded by the code's
own guards. In `account` three writes are a first upload, one of another device that crosses the next run, and the retry's. In `workspace`
a hazard is one foreign change (a marker, a category of the same name, a moved entry) against
a dialog that was opened and the action it ends in: opening and accepting are two user
actions, and the click on the section they happen in is part of the initial states;
a stamp of 3 lies above the clock's 2.

### Disagreements found

* **Late PATCH** (`pc_late_patch`). After a failed upload the coordinator reads the backup
  once; if it is still the old one it drops the journal. A PATCH that lands later leaves
  the backup under a password the device no longer has a journal for.
* **Dropped duplicate** (`sync_duplicates`). The duplicate check of step 6 ignores
  categories although the editor allows one title per category; the skipped entry is
  then missing from the upload.
* **Stamps that do not advance** (`sync_skewed_clock`). Trash, restore, category
  deletion and import write the raw clock, unlike the editor.
* **Row beside its marker** (`sync_reimport`). After such an import the password change is
  refused, and so is the uploaded backup on every other device.

### Behaviour worth knowing

The models contain these because the code does them; no document of the repository says otherwise,
so they are no disagreements, and where a property would trip over one, its comment names the exception.

* *Lock under a request.* `DoSyncOnce` keeps pointers to the key and the password
  across the network's event loop (`sync_manager.cc:176`); a lock frees them
  (`ReadReturnsDangling`). `Disconnect` in that loop resets `provider_`, and the upload calls
  through it (`Account!ReadReturns`).
* *Scheduler at the lock screen.* A lock does not pause it: a debounce that fires there
  starts a run that fails and clears the dirty flag until the next edit.
* *Credentials.* `RevokeTokens` and `Authorize` return without a word when the client is busy: the stored token
  survives a disconnect, the wizard waits. The results of saving and clearing the token are ignored. A refresh of
  the old account may answer after a new one was connected. A wizard that was left while an account is connected
  shows "disconnected" although synchronisations go on.
* *Raw clock.* Trash, restore, category deletion, import and the dedup of categories stamp
  with the clock alone, possibly below the version they replace (`NewerWins` exempts the last two).
* *Ties.* A category renamed during the download at exactly the stamp of the merged one is overwritten
  (`sync_manager.cc:267` compares with `>`). The password change breaks the dedup's ties by uuid, the
  synchronisation by the order of its tables.
* *Whole rows.* The editor saves every field over a version that was merged while it was
  open; the version is newer, so the devices agree, but the other device's field is gone.
* *Deleted under a dialog.* `OnDeleteCategory` uses the stamp it read before asking; an import updates a row that
  was trashed during the preview; a failed import leaves rows and neither reloads nor marks dirty.
* *Orphans.* Opening an entry whose category is not offered leaves the combo as it
  was, and saving moves the entry there. CSV export fails as a whole when a live entry's category has no row.
* *CSV.* Fields are trimmed on import, passwords too. Titles and usernames are joined by `|` in a key that can
  collide. A uuid in upper case is not recognised. The legacy format overwrites website and notes with nothing.
* *Refusals differ.* The synchronisation skips items without a uuid and reads missing fields as empty; the
  password change refuses them, and an entry with an empty secret.

### Fairness

`PasswordChange!FairSpec`: the process keeps taking the step it stands at (weak), and a
step that is possible again and again eventually succeeds (strong), because at the gate
it is retried by the user in front of the prompt (`retry_recovery`) until it does; nothing
is assumed about crashes, other devices or the server, and `RecoveryCompletes` only speaks
of behaviours in which the process finally stays up.
`Sync!FairSpec`: an armed debounce timer fires once the manager is idle, and a
run's requests are answered or time out (`SendRequestSync` sets a transfer timeout);
users are not forced to act and nothing is forced to succeed.
`EditsReachCloud` therefore excuses a run whose failure shows and a restart: the
scheduler re-arms nothing after a failure and the dirty flag is not persisted.

`Desktop!Spec`: a password change's own requests and writes end (`ChangeReturns`); that is all
`LockHonoured` needs, and nothing else is promised. `Account!Spec`: a step of a
synchronisation that stays possible is taken, and the answer to a refresh comes. Both hold
by transfer timeouts: a refresh ends after 25 s, before the 30 s `EnsureAccessToken` waits for it,
so the wait expires only when its request was cancelled (`WaitExpires` has that as its guard). The user
may leave a wizard open for ever, which `SyncEnds` therefore excuses.
`Workspace` states no fairness.

## 4. Proofs

`PasswordChangeProofs` proves, for every set of entries and all values of the bounds, from
the named assumptions of `PasswordChange` only: `TypeCorrect`, `OpenVaultIsReadable`,
`CrashConsistency`, `CloudFirst`, `HelloIsCurrent`, `NoEntryIsLost`, `OnlyForward` and
`ImplementsAbstractVault` (the refinement of `AtomicVault`).

The properties are not inductive: that the rows open under the record in every state
before Confirmed says nothing about the draft that will replace them. `IInv`
strengthens them by what each position of the program has established: the draft's
rows are sealed under its record's fresh generation and contain the snapshot's entries; the
snapshot is still what the database holds (no edit is possible while a change runs);
the draft and the journal agree from the step that saved it; in the tail of `Commit` the
rows, then the record, are already the new ones; generations and backup ids never
exceed the counters that produce them. `Init => IInv`, one lemma step per action for
`IInv /\ [Next]_vars => IInv'`, and `IInv => Inv` give the safety theorems; the action
properties and each refinement step are proved from `IInv` in the same way. The
refinement mapping takes the journal's record and rows as the vault's from the moment the
journal says Confirmed.

`AgreementProofs` adds the backup, for a server that never writes after its answer was given up (`~LateWrites`;
`password_change_late_patch` is what such a write does): `BackupKeepsEntries` (`CloudKeepsEntries`) of any vault, local or
bound at any time, and `DeviceAndCloudAgree` (`CloudAgreement`) of one that is bound from the start
(`InitialBindings = {"bound"}`). To `IInv` it adds `Carried`: the file a candidate was made from stays as it was while
its id does (`Offers`), and nothing comes between the check and the PATCH (`Wire`). The second theorem also
needs to know which password the file is under in each phase of the journal (`Keys`).

`SyncProofs`, for any number of devices and entries:

* `TypeCorrect` (`TypeOK`), one lemma per kind of step.
* `NeverBoth` (`RowXorMarker`), assuming that no user imports a deleted uuid
  (`~ReimportsDeleted`; `sync_reimport` shows what happens otherwise). The argument is about where
  copies come from: after every step that is no user's, each entry of each copy of the vault
  (a device's, a snapshot, a backup read, a state on its way, the file) was in a copy before, has been
  forgotten, or is an old row and marker that met an item of another copy (`Follows`). `EitherOr` holds of all
  copies, and says that what no user has created is nowhere, which a creation needs.
* `EditsWinInStep` (`LocalEditsWin`), assuming clocks in step (`InStep`), and `DevicesNeverGoBack` (`NeverGoesBack`)
  and `TheNewestIsNeverLost` (`NewestSurvives`), assuming also no deletion past its age (`~Expires`), all three with
  crossing writes and any titles. `NewestWins`: every copy is the newest version or older (`NothingNewer`), no stamp is
  ahead of the clocks (`Stamped`), what a device offers is the best it has held (`Best`), and somebody offers the newest (`Owned`).
* `CloudOnlyGrows` (`CloudNeverGoesBack`), for any clocks and expiry, assuming that the file exists, that writes do not
  cross check and PATCH, `~ReimportsDeleted`, and titles that differ (`sync_duplicates` is what equal ones do).
  `Guarded`: a run that merges under the version it read merges the file as it is, one past the merge
  holds something as new as the file, and two are never both past the check.
* `ForgottenStaysForgotten` (`NeverGoesBack`) and `ForgettingLosesNothing` (`NewestSurvives`) where deletions do expire,
  under the conditions of `CloudOnlyGrows` and with clocks in step, those of `sync_cloud`: without them the backup may lose
  the only copy of a deletion that a device then forgets. `BackedUp`: a device offers the best it has held or
  nothing where the backup holds it (`HeldOrBacked`), because whatever is not younger than a run is in the snapshot it took,
  then in what it uploads and, once that is sent, in the backup (`Covered`), which has only grown since (`ReadBefore`); the
  clean-up forgets nothing younger than the run (`ForgetsTheOld`), and a run that uploads nothing has found it all in the
  backup (`NothingToUpload`).
`DesktopProofs`, for any number of installations and vaults: `NothingOfAClearedVault` (`OneVault`) and
`NothingWritesWhileErasing` (`ErasesAlone`). Every file belongs to the present vault (`Files`), because those
the deletion has passed are gone and stay so until it has removed the marker (`Gone`); a program that resets, or found
the marker, has no loop but the one that asks for a retry and no object that could write (`Silenced`); a change has
ended before the marker is written, although dialogs and requests are nested on one stack (`Undisturbed`). `LifetimeProofs` adds when the master record exists
(`Fresh`) and proves the refinement `ImplementsLifetime`: writing the marker is the step that clears the vault,
every deletion after it a stutter. They rest on one assumption, that the marker's values are no
installation (`InstallationAssumption`).

`SessionProofs` rests on both and proves the rest of `Desktop`'s invariants: `ProcessTypes` (`TypeOK`), `FlowsEndUsable`
(`Usable`), `LockAsksAgain` (`LockedAsks`), `LockSeals` (`LockedIsSealed`) and `EditsAreKept` (`EditRemembered`). The same `Lock`
does different things in and outside a flow, and what it leaves undone is done in other actions, far later, or in another
loop. So `SessionInv` says which flag belongs to which loop: of those that ask for a password or change it
there is at most one (`Frames`); a dialog that confirms a reset means the flag of confirming, a deferred lock means a change, an open session that
is changing means the flag of the migration. `Windowed` says what window, clipboard and timer are in each state of the session, and
`Resumable` that a scheduler is paused only in a flow or behind a lock that came in one, so that either the flow's end
or the next unlock resumes it, with its timer armed if an edit is owed. The bound on vaults enters with a part of its own (`Bounded`:
who confirms a reset, or has written the marker, has a vault left to begin) and the assumption that there is one (`MaxVaultAssumption`).

`AccountProofs`, for any number of writes and attempts: `UploadsCheckWhatWasMerged` (`MergesWhatItChecks`), since versions
only grow and the content's lies between the two that are compared (`Bracketed`); and `CredentialsOnlyByConsent`
(`TokenOnlyByConsent`), since of the requests under way only those that the wizard or a stored
token waits for are not stale (`OnlyAsked`), and every other step waits for less (`Withdrawn`). `AccountTypes` (`TypeOK`),
`PageTellsTheTruth` (`PageShowsConnection`) and `PageWaitsForSomething` (`PageNeverStuck`) follow from a third invariant, `Truthful`: wizard and run
nest in at most one way each (`Nested`); what client, wizard and request say they wait for is among the requests under way,
and not stale (`Waits`); and what the page shows, the client has or waits for (`Shown`). What `OAuthClient`'s cancellations and its lookup do to `Waits` are lemmas of their own.

`WorkspaceProofs`, for any number of entries, categories, names, user actions, foreign changes and attempts, from
`BoundsAssumption` and `IdsAssumption` (finitely many categories; what is no entry has no entry's id): all six properties,
as `WorkspaceTypes`, `WindowIsCurrent`, `EditorIsCurrent`, `RemovalIsConfirmed`, `NewerVersionWins` and `SuccessLeavesNothingOut`. The first
part has one lemma per statement of the DAOs and per step of the merge, from any tables to the next: no row or category goes
and nothing is replaced but by a newer version (`Keeps`, `Merged`), `NothingToUpload` says when a merge equals the backup.
The second says what loading the window makes current (`ShowsLoads`). `IInv` then is the types, what the window, the
editor and the dialog hold being there still (`Held`), `ViewIsCurrent` and `EditorOffersLive`; the action properties need `Held`,
because a dialog's ids were read before its event loop let a merge remove rows. The proof led to one correction of the
model that the bounds of `workspace` had hidden: a list that is behind may still show a removed row, whose id
finds nothing, so a dialog that takes it has fewer entries than it was opened for (`Exists`, `ChangeCategories`).

`CloudAgreement` is claimed, by run and theorem, of vaults bound from the start only: one that changes its password
while local and is bound afterwards to a file made under the old password does not agree with it until its next change.

Only model-checked: the assumptions of the format modules, and the
liveness properties `RecoveryCompletes`, `EditsReachCloud`, `LockHonoured` and `SyncEnds` (liveness
under fairness is out of this prover's reach).

## 5. What is not modelled, and the plan

Left out for good: cryptographic primitives, DPAPI and the wiping of memory, layout, themes, icons,
toasts, hotkeys and the tray, the text of URLs and pages, SQLite itself and the schema's
migrations, statements without a caller (`DeleteAll`, `MigrateCategory`, `InsertMany`, `HardDelete`) and
`MasterPasswordManager::Reset`, which has none either. Most of the lines that no definition names are
these: constructors of widgets and their styles, column bindings, includes and headers. In `Sync`, a
PATCH that lands after its sender gave up is left out (`PasswordChange` has it).
Storage is taken to keep what an atomic replace or a FULL-synchronous commit has reported.

Next, in this order:

1. Two devices that both merge categories: do their dedups agree on a winner, and how often do they
   undo each other's; `VaultMerge` is written so that `Workspace`'s other devices can be replaced by a second copy of it.
2. The expiry of categories and markers in `VaultMerge`.
