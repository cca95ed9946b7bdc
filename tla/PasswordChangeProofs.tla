------------------------ MODULE PasswordChangeProofs ------------------------
(***************************************************************************)
(* What PasswordChange promises, proved for every set of entries, every     *)
(* number of changes, backups and retries, and whether or not the server    *)
(* applies writes late.                                                     *)
(*                                                                         *)
(* The argument: none of the safety properties is inductive alone, because  *)
(* what the durable files say is only enough together with what the         *)
(* running process still holds in memory. IInv adds, for every place the    *)
(* process can stand at, how the Journal object, the snapshot and the       *)
(* files relate.                                                            *)
(***************************************************************************)
EXTENDS PasswordChange, TLAPS

\* A complete new vault that may replace the current one.
GoodCandidate(j) ==
  /\ SealedUnder(j.newRows, j.newRec)
  /\ ItemsOf(rows) \subseteq ItemsOf(j.newRows)
  /\ j.newRec # rec

\* A journal that is not yet Confirmed holds a complete new vault, and rows
\* and record are still the old ones.
JournalInv == journal.phase \in {"Prepared", "Uploading"} => GoodCandidate(journal)

\* The memory of a change that has not reached its commit.
ChangeInv ==
  pc \in ChangePC =>
    /\ mode = "change"
    /\ snap = rows
    /\ draft.newRec # rec

\* How journal file and Journal object relate at each place of the process.
DraftInv ==
  /\ pc \in {"open", "read", "prepare"} => journal.phase = "Empty"
  /\ pc = "read" => draft.cloud
  /\ pc = "prepare" => draft.phase = "Prepared" /\ GoodCandidate(draft)
  /\ pc = "mark" => journal = draft /\ draft.phase = "Prepared" /\ draft.cloud
  /\ pc \in {"check", "patch", "await", "resolve"} =>
       journal = draft /\ draft.phase = "Uploading"
  /\ pc \in {"check", "patch", "await"} => draft.cloud
  /\ pc = "confirm" =>
       /\ journal = draft /\ draft.phase # "Empty"
       /\ draft.cloud => draft.newBlob.id \in landed
  /\ pc \in {"apply", "record", "hello", "finish"} =>
       journal = draft /\ draft.phase = "Confirmed"
  /\ pc \in {"record", "hello", "finish"} => rows = draft.newRows
  /\ pc \in {"hello", "finish"} => rec = draft.newRec
  /\ pc = "finish" => hello = NoKey

KeyInv == key = IF pc = "open" THEN rec ELSE NoKey

HelloInv == journal.phase # "Confirmed" => hello \in {NoKey, rec}

\* What the cloud holds has landed.
CloudInv == cloud.id # 0 => cloud.id \in landed

\* A candidate for the cloud is a real backup.
BlobInv ==
  /\ pc \in {"prepare", "mark"} /\ draft.cloud => draft.newBlob.id # 0
  /\ journal.phase # "Empty" /\ journal.cloud => journal.newBlob.id # 0
  /\ journal.phase = "Uploading" => journal.cloud

\* No generation is used before BeginChange draws it.
GenInv == rec <= lastGen /\ draft.newRec <= lastGen /\ journal.newRec <= lastGen

IInv ==
  /\ TypeOK
  /\ RecoverableAtEveryCrash
  /\ SwitchNeedsCloud
  /\ JournalInv
  /\ ChangeInv
  /\ DraftInv
  /\ KeyInv
  /\ HelloInv
  /\ CloudInv
  /\ BlobInv
  /\ GenInv
  /\ Running => mode \in {"change", "recover"}

-----------------------------------------------------------------------------
\* What sealing a set of entries gives.
LEMMA SealedFacts ==
  ASSUME NEW items \in SUBSET Item, NEW g \in Nat
  PROVE  /\ Sealed(items, g) \subseteq Row
         /\ SealedUnder(Sealed(items, g), g)
         /\ ItemsOf(Sealed(items, g)) = items
<1>1. Sealed(items, g) \subseteq Row
  BY DEF Sealed, Row, Gen
<1>2. SealedUnder(Sealed(items, g), g)
  BY DEF Sealed, SealedUnder
<1>3. ItemsOf(Sealed(items, g)) = items
  <2>1. ASSUME NEW i \in items PROVE i \in ItemsOf(Sealed(items, g))
    <3>1. [item |-> i, key |-> g] \in Sealed(items, g) BY DEF Sealed
    <3>2. [item |-> i, key |-> g].item = i OBVIOUS
    <3>3. QED BY <3>1, <3>2 DEF ItemsOf
  <2>2. ASSUME NEW i \in ItemsOf(Sealed(items, g)) PROVE i \in items
    BY DEF Sealed, ItemsOf
  <2>3. QED BY <2>1, <2>2
<1>4. QED BY <1>1, <1>2, <1>3

\* The entries of a set of rows are entries.
LEMMA ItemsOfRows ==
  ASSUME NEW rs \in SUBSET Row
  PROVE  ItemsOf(rs) \subseteq Item
BY DEF ItemsOf, Row

LEMMA NoJournalType ==
  /\ NoJournal \in Journal
  /\ NoJournal.phase = "Empty"
  /\ NoJournal.newRec = 0
  /\ NoBlob \in Blob
  /\ NoBlob.id = 0
BY DEF NoJournal, Journal, NoBlob, Blob, Phases, Gen

LEMMA AtPhaseType ==
  ASSUME NEW j \in Journal, NEW p \in Phases
  PROVE  /\ AtPhase(j, p) \in Journal
         /\ AtPhase(j, p).phase = p
         /\ AtPhase(j, p).cloud = j.cloud
         /\ AtPhase(j, p).newRec = j.newRec
         /\ AtPhase(j, p).newRows = j.newRows
         /\ AtPhase(j, p).newBlob = j.newBlob
         /\ AtPhase(j, p).oldBlob = j.oldBlob
BY DEF AtPhase, Journal

-----------------------------------------------------------------------------
\* The ways an operation ends keep the types of the volatile state.
LEMMA EndTypes ==
  ASSUME NEW g \in Gen, TypeOK
  PROVE  /\ EndLocked \/ EndWith(g) =>
              /\ mode' \in {"none", "change", "recover"}
              /\ draft' \in Journal
              /\ snap' \subseteq Row
              /\ attempt' \in 0..MaxRetries
              /\ lockReq' \in {"none", "lock", "exit"}
              /\ pc' \in PC
              /\ key' \in Gen \cup {NoKey}
BY NoJournalType, MaxRetriesAssumption DEF EndLocked, EndWith, Clear, TypeOK, PC

\* Type correctness: SaveEntry needs to know that an open session has a key.
LEMMA TypeStep ==
  ASSUME TypeOK, KeyInv, [Next]_vars
  PROVE  TypeOK'
<1> USE DEF device, remote, memory, fresh, TypeOK
<1>1. CASE Session
  <2>1. CASE Start BY <2>1 DEF Start, PC
  <2>2. CASE Unlock BY <2>2 DEF Unlock, PC
  <2>3. CASE Lock BY <2>3 DEF Lock, PC
  <2>4. CASE Crash
    BY <2>4, NoJournalType, MaxRetriesAssumption DEF Crash, Clear, PC
  <2>5. CASE RequestLock BY <2>5 DEF RequestLock
  <2>6. ASSUME NEW i \in Item, SaveEntry(i) PROVE TypeOK'
    <3>1. key \in Gen BY <2>6 DEF SaveEntry, KeyInv
    <3>2. QED BY <2>6, <3>1, SealedFacts DEF SaveEntry, Gen
  <2>7. ASSUME NEW b \in {"local", "bound"}, SaveBinding(b) PROVE TypeOK'
    BY <2>7 DEF SaveBinding
  <2>8. QED BY <1>1, <2>1, <2>2, <2>3, <2>4, <2>5, <2>6, <2>7 DEF Session
<1>2. CASE Change
  <2>1. CASE BeginChange
    <3>1. rec \in Gen /\ lastGen + 1 \in Gen BY DEF Gen
    <3>2. ItemsOf(rows) \subseteq Item BY ItemsOfRows
    <3>3. Sealed(ItemsOf(rows), lastGen + 1) \subseteq Row
      BY <3>1, <3>2, SealedFacts DEF Gen
    <3>4. draft' \in Journal
      BY <2>1, <3>1, <3>3, NoJournalType DEF BeginChange, Journal, Phases
    <3>5. QED
      BY <2>1, <3>1, <3>4, MaxRetriesAssumption DEF BeginChange, PC, ChangePC
  <2>2. CASE ReadCloud
    <3>1. ItemsOf(snap) \cup cloud.items \in SUBSET Item BY ItemsOfRows DEF Blob
    <3>2. draft.newRec \in Nat BY DEF Journal, Gen
    <3>3. Candidate(cloud.items, draft.newRec) \subseteq Row
      BY <3>1, <3>2, SealedFacts DEF Candidate
    <3>4. [key |-> draft.newRec, items |-> ItemsOf(snap) \cup cloud.items,
           id |-> lastBlob + 1] \in Blob
      BY <3>1, <3>2 DEF Blob, Gen
    <3>5. cloud.id \in Nat BY DEF Blob
    <3>6. draft' \in Journal
      BY <2>2, <3>3, <3>4, <3>5 DEF ReadCloud, Journal, Phases
    <3>7. QED BY <2>2, <3>6 DEF ReadCloud, PC, ChangePC
  <2>3. CASE ReadCloudFails BY <2>3, EndTypes DEF ReadCloudFails
  <2>4. CASE SavePrepared BY <2>4 DEF SavePrepared, PC, ChangePC, CommitPC
  <2>5. CASE SavePreparedFails BY <2>5, EndTypes DEF SavePreparedFails
  <2>6. CASE SaveUploading
    <3>1. AtPhase(draft, "Uploading") \in Journal BY AtPhaseType DEF Phases
    <3>2. QED BY <2>6, <3>1 DEF SaveUploading, PC, ChangePC
  <2>7. CASE CheckVersion BY <2>7 DEF CheckVersion, PC, ChangePC
  <2>8. CASE VersionMismatch
    <3>1. CASE attempt < MaxRetries
      BY <2>8, <3>1, NoJournalType, MaxRetriesAssumption DEF VersionMismatch, PC, ChangePC
    <3>2. CASE ~(attempt < MaxRetries)
      BY <2>8, <3>2, EndTypes, NoJournalType DEF VersionMismatch
    <3>3. QED BY <3>1, <3>2
  <2>9. CASE SendPatch BY <2>9 DEF SendPatch, PC, ChangePC, Journal
  <2>10. CASE PatchReturns BY <2>10, NoJournalType DEF PatchReturns, PC
  <2>11. CASE StepFails
    <3>1. 0 \in Gen BY DEF Gen
    <3>2. QED BY <2>11, <3>1, EndTypes DEF StepFails
  <2>12. CASE Throw BY <2>12, EndTypes DEF Throw
  <2>13. QED BY <1>2, <2>1, <2>2, <2>3, <2>4, <2>5, <2>6, <2>7, <2>8, <2>9,
                <2>10, <2>11, <2>12 DEF Change
<1>3. CASE ResolveUpload
  <2>1. CASE UploadConfirmed BY <2>1 DEF UploadConfirmed, PC, CommitPC
  <2>2. CASE UploadDidNotHappen
    BY <2>2, EndTypes, NoJournalType DEF UploadDidNotHappen
  <2>3. CASE UploadUnknown BY <2>3, EndTypes DEF UploadUnknown
  <2>4. QED BY <1>3, <2>1, <2>2, <2>3 DEF ResolveUpload
<1>4. CASE Commit
  <2>1. CASE SaveConfirmed
    <3>1. AtPhase(draft, "Confirmed") \in Journal BY AtPhaseType DEF Phases
    <3>2. QED BY <2>1, <3>1 DEF SaveConfirmed, PC, CommitPC
  <2>2. CASE ApplySnapshot BY <2>2 DEF ApplySnapshot, PC, CommitPC, Journal
  <2>3. CASE ApplySnapshotReportsFailure
    BY <2>3, EndTypes DEF ApplySnapshotReportsFailure, Journal
  <2>4. CASE SaveRecord BY <2>4 DEF SaveRecord, PC, CommitPC, Journal
  <2>5. CASE InvalidateHello BY <2>5 DEF InvalidateHello, PC, CommitPC
  <2>6. CASE FinishCommit
    <3>1. draft.newRec \in Gen BY DEF Journal
    <3>2. QED BY <2>6, <3>1, EndTypes, NoJournalType DEF FinishCommit
  <2>7. QED BY <1>4, <2>1, <2>2, <2>3, <2>4, <2>5, <2>6 DEF Commit
<1>5. CASE Recover
  <2>1. CASE RecoverPrepared BY <2>1, NoJournalType DEF RecoverPrepared
  <2>2. CASE RecoverPending BY <2>2 DEF RecoverPending, PC, CommitPC
  <2>3. QED BY <1>5, <2>1, <2>2 DEF Recover
<1>6. CASE Cloud
  <2>1. CASE ServerAppliesPatch
    BY <2>1, NoJournalType DEF ServerAppliesPatch, Stored, Blob
  <2>2. CASE ServerDropsPatch BY <2>2, NoJournalType DEF ServerDropsPatch
  <2>3. CASE OtherDeviceReads BY <2>3 DEF OtherDeviceReads
  <2>4. ASSUME NEW i \in Item, OtherDeviceWrites(i) PROVE TypeOK'
    BY <2>4, NoJournalType DEF OtherDeviceWrites, Stored, Blob
  <2>5. QED BY <1>6, <2>1, <2>2, <2>3, <2>4 DEF Cloud
<1>7. CASE UNCHANGED vars BY <1>7 DEF vars
<1>8. QED BY <1>1, <1>2, <1>3, <1>4, <1>5, <1>6, <1>7 DEF Next
-----------------------------------------------------------------------------
\* The initial states satisfy the invariant.
LEMMA InitIInv == Init => IInv
<1> SUFFICES ASSUME Init PROVE IInv OBVIOUS
<1> USE DEF Init
<1>1. PICK items \in SUBSET Item : rows = Sealed(items, 0) OBVIOUS
<1>2. rows \subseteq Row /\ SealedUnder(rows, 0) BY <1>1, SealedFacts
<1>3. cloud \in Blob /\ landed \subseteq Nat /\ CloudInv
  BY NoJournalType DEF Blob, Gen, CloudInv
<1>4. TypeOK
  BY <1>2, <1>3, NoJournalType, BindingsAssumption, MaxRetriesAssumption
  DEF TypeOK, Gen, PC
<1>5. RecoverableAtEveryCrash BY <1>2, NoJournalType DEF RecoverableAtEveryCrash
<1>6. GenInv BY DEF GenInv, NoJournal
<1>7. QED
  BY <1>3, <1>4, <1>5, <1>6, NoJournalType
  DEF IInv, SwitchNeedsCloud, JournalInv, ChangeInv, DraftInv, KeyInv, HelloInv,
      BlobInv, Running, ChangePC, CommitPC

\* A change that ends in front of a locked vault, whatever it had reached.
LEMMA EndLockedStep ==
  ASSUME IInv, TypeOK', EndLocked, UNCHANGED <<device, remote, fresh>>
  PROVE  IInv'
<1>1. lastGen \in Nat BY DEF IInv, TypeOK
<1>2. QED
  BY <1>1, NoJournalType
  DEF IInv, EndLocked, Clear, device, remote, fresh, RecoverableAtEveryCrash,
      SwitchNeedsCloud, JournalInv, GoodCandidate, ChangeInv, DraftInv, KeyInv,
      HelloInv, CloudInv, BlobInv, GenInv, Running, ChangePC, CommitPC

\* An operation that ends with the journal empty and an open vault's key known.
LEMMA EndWithStep ==
  ASSUME IInv, TypeOK', EndWith(rec), journal'.phase = "Empty", journal'.newRec <= lastGen,
         SealedUnder(rows, rec), hello \in {NoKey, rec},
         UNCHANGED <<rec, rows, hello, binding, remote, fresh>>
  PROVE  IInv'
<1>1. lastGen \in Nat BY DEF IInv, TypeOK
<1>2. QED
  BY <1>1, NoJournalType
  DEF IInv, EndWith, Clear, remote, fresh, RecoverableAtEveryCrash,
      SwitchNeedsCloud, JournalInv, GoodCandidate, ChangeInv, DraftInv, KeyInv,
      HelloInv, CloudInv, BlobInv, GenInv, Running, ChangePC, CommitPC

\* Every step preserves the invariant.
LEMMA StepIInv ==
  ASSUME IInv, [Next]_vars
  PROVE  IInv'
<1>t. TypeOK /\ KeyInv BY DEF IInv
<1>u. TypeOK' BY <1>t, TypeStep
<1>n. lastGen \in Nat /\ lastBlob \in Nat /\ draft \in Journal /\ journal \in Journal
  BY <1>t DEF TypeOK
<1> USE NoJournalType
    DEF device, remote, memory, fresh, IInv, RecoverableAtEveryCrash,
        SwitchNeedsCloud, JournalInv, GoodCandidate, ChangeInv, DraftInv, KeyInv,
        HelloInv, CloudInv, BlobInv, GenInv, Running, ChangePC, CommitPC
<1>1. CASE Session
  <2>1. CASE Start BY <1>u, <2>1 DEF Start
  <2>2. CASE Unlock BY <1>u, <2>2 DEF Unlock, NeedsRecovery
  <2>3. CASE Lock BY <1>u, <2>3 DEF Lock
  <2>4. CASE Crash BY <1>u, <1>n, <2>4 DEF Crash, Clear
  <2>5. CASE RequestLock BY <1>u, <2>5 DEF RequestLock, NetworkPC
  <2>6. ASSUME NEW i \in Item, SaveEntry(i) PROVE IInv'
    <3>1. key = rec /\ rec \in Nat BY <2>6, <1>t DEF SaveEntry, TypeOK, Gen
    <3>2. SealedUnder(Sealed({i}, rec), rec) BY <3>1, SealedFacts
    <3>3. SealedUnder(rows', rec)
      BY <2>6, <3>1, <3>2 DEF SaveEntry, SealedUnder
    <3>4. QED BY <1>u, <2>6, <3>1, <3>3 DEF SaveEntry
  <2>7. ASSUME NEW b \in {"local", "bound"}, SaveBinding(b) PROVE IInv'
    BY <1>u, <2>7 DEF SaveBinding
  <2>8. QED BY <1>1, <2>1, <2>2, <2>3, <2>4, <2>5, <2>6, <2>7 DEF Session
<1>2. CASE Change
  <2>1. CASE BeginChange
    <3>1. rec \in Nat /\ lastGen + 1 \in Nat /\ rec <= lastGen BY <1>t, <1>n DEF TypeOK, Gen
    <3>2. ItemsOf(rows) \subseteq Item BY <1>t, ItemsOfRows DEF TypeOK
    <3>3. /\ SealedUnder(Sealed(ItemsOf(rows), lastGen + 1), lastGen + 1)
          /\ ItemsOf(Sealed(ItemsOf(rows), lastGen + 1)) = ItemsOf(rows)
      BY <3>1, <3>2, SealedFacts
    <3>4. lastGen + 1 # rec /\ lastGen <= lastGen + 1 BY <1>n, <3>1
    <3>5. journal.phase = "Empty" BY <2>1 DEF BeginChange
    <3>6. SealedUnder(rows, rec) BY <3>5
    <3>7. pc' \in {"read", "prepare"} /\ mode' = "change" /\ snap' = rows /\ key' = NoKey
      BY <2>1 DEF BeginChange
    <3>8. UNCHANGED <<journal, rec, rows, hello, cloud, landed>> /\ lastGen' = lastGen + 1
      BY <2>1 DEF BeginChange
    <3>9. draft'.newRec = lastGen + 1 BY <2>1 DEF BeginChange, NoJournal
    <3>10. pc' = "read" => draft'.cloud BY <2>1 DEF BeginChange, NoJournal
    <3>11. pc' = "prepare" =>
            /\ draft'.phase = "Prepared"
            /\ ~draft'.cloud
            /\ draft'.newRows = Sealed(ItemsOf(rows), lastGen + 1)
      BY <2>1 DEF BeginChange, NoJournal
    <3>12. ChangeInv' /\ DraftInv' BY <3>5, <3>7, <3>8, <3>9, <3>10, <3>11, <3>3, <3>4
    <3>13. BlobInv' BY <3>5, <3>7, <3>8, <3>11
    <3>14. journal.newRec \in Nat /\ journal.newRec <= lastGen BY <1>n DEF Journal, Gen
    <3>15. GenInv' BY <1>n, <3>8, <3>9, <3>1, <3>14
    <3>16. QED BY <1>u, <3>5, <3>6, <3>7, <3>8, <3>12, <3>13, <3>15
  <2>2. CASE ReadCloud
    <3>1. ItemsOf(snap) \cup cloud.items \in SUBSET Item
      BY <1>t, ItemsOfRows DEF TypeOK, Blob
    <3>2. draft.newRec \in Nat BY <1>n DEF Journal, Gen
    <3>3. /\ SealedUnder(Candidate(cloud.items, draft.newRec), draft.newRec)
          /\ ItemsOf(Candidate(cloud.items, draft.newRec)) = ItemsOf(snap) \cup cloud.items
      BY <3>1, <3>2, SealedFacts DEF Candidate
    <3>4. /\ draft'.newRec = draft.newRec
          /\ draft'.newRows = Candidate(cloud.items, draft.newRec)
          /\ draft'.phase = "Prepared"
          /\ draft'.newBlob.id = lastBlob + 1
      BY <1>n, <2>2 DEF ReadCloud, Journal
    <3>5. lastBlob + 1 # 0 BY <1>n
    <3>6. QED BY <1>u, <2>2, <3>3, <3>4, <3>5 DEF ReadCloud
  <2>3. CASE ReadCloudFails BY <1>u, <2>3, EndWithStep DEF ReadCloudFails
  <2>4. CASE SavePrepared BY <1>u, <2>4 DEF SavePrepared
  <2>5. CASE SavePreparedFails BY <1>u, <2>5, EndWithStep DEF SavePreparedFails
  <2>6. CASE SaveUploading
    <3>1. "Uploading" \in Phases BY DEF Phases
    <3>2. QED BY <1>u, <1>n, <2>6, <3>1, AtPhaseType DEF SaveUploading
  <2>7. CASE CheckVersion BY <1>u, <2>7 DEF CheckVersion
  <2>8. CASE VersionMismatch
    <3>1. CASE attempt < MaxRetries BY <1>u, <1>n, <2>8, <3>1 DEF VersionMismatch
    <3>2. CASE ~(attempt < MaxRetries)
      BY <1>u, <1>n, <2>8, <3>2, EndWithStep DEF VersionMismatch
    <3>3. QED BY <3>1, <3>2
  <2>9. CASE SendPatch BY <1>u, <2>9 DEF SendPatch
  <2>10. CASE PatchReturns BY <1>u, <2>10 DEF PatchReturns
  <2>11. CASE StepFails BY <1>u, <2>11, EndLockedStep DEF StepFails
  <2>12. CASE Throw
    <3>1. CASE NeedsRecovery BY <1>u, <2>12, <3>1, EndLockedStep DEF Throw
    <3>2. CASE ~NeedsRecovery
      BY <1>u, <2>12, <3>2, EndWithStep DEF Throw, NeedsRecovery
    <3>3. QED BY <3>1, <3>2
  <2>13. QED BY <1>2, <2>1, <2>2, <2>3, <2>4, <2>5, <2>6, <2>7, <2>8, <2>9,
                <2>10, <2>11, <2>12 DEF Change
<1>3. CASE ResolveUpload
  <2>1. CASE UploadConfirmed
    <3>1. draft.cloud /\ draft.newBlob.id # 0
      BY <2>1 DEF UploadConfirmed
    <3>2. QED BY <1>u, <2>1, <3>1 DEF UploadConfirmed
  <2>2. CASE UploadDidNotHappen
    BY <1>u, <1>n, <2>2, EndWithStep DEF UploadDidNotHappen
  <2>3. CASE UploadUnknown BY <1>u, <2>3, EndLockedStep DEF UploadUnknown
  <2>4. QED BY <1>3, <2>1, <2>2, <2>3 DEF ResolveUpload
<1>4. CASE Commit
  <2>1. CASE SaveConfirmed
    <3>1. "Confirmed" \in Phases BY DEF Phases
    <3>2. draft.phase \in Phases BY <1>n DEF Journal
    <3>3. QED BY <1>u, <1>n, <2>1, <3>1, <3>2, AtPhaseType DEF SaveConfirmed, Phases
  <2>2. CASE ApplySnapshot BY <1>u, <2>2 DEF ApplySnapshot
  <2>3. CASE ApplySnapshotReportsFailure
    BY <1>u, <1>n, <2>3 DEF ApplySnapshotReportsFailure, EndLocked, Clear
  <2>4. CASE SaveRecord BY <1>u, <2>4 DEF SaveRecord
  <2>5. CASE InvalidateHello BY <1>u, <2>5 DEF InvalidateHello
  <2>6. CASE FinishCommit
    <3>1. draft.newRec = rec BY <2>6 DEF FinishCommit
    <3>2. EndWith(rec) BY <2>6, <3>1 DEF FinishCommit
    <3>3. QED BY <1>u, <1>n, <2>6, <3>1, <3>2, EndWithStep DEF FinishCommit
  <2>7. QED BY <1>4, <2>1, <2>2, <2>3, <2>4, <2>5, <2>6 DEF Commit
<1>5. CASE Recover
  <2>1. CASE RecoverPrepared BY <1>u, <1>n, <2>1 DEF RecoverPrepared
  <2>2. CASE RecoverPending BY <1>u, <2>2 DEF RecoverPending
  <2>3. QED BY <1>5, <2>1, <2>2 DEF Recover
<1>6. CASE Cloud
  <2>1. CASE ServerAppliesPatch BY <1>u, <2>1 DEF ServerAppliesPatch, Stored
  <2>2. CASE ServerDropsPatch BY <1>u, <2>2 DEF ServerDropsPatch
  <2>3. CASE OtherDeviceReads BY <1>u, <2>3 DEF OtherDeviceReads
  <2>4. ASSUME NEW i \in Item, OtherDeviceWrites(i) PROVE IInv'
    BY <1>u, <2>4 DEF OtherDeviceWrites, Stored
  <2>5. QED BY <1>6, <2>1, <2>2, <2>3, <2>4 DEF Cloud
<1>7. CASE UNCHANGED vars BY <1>u, <1>7 DEF vars
<1>8. QED BY <1>1, <1>2, <1>3, <1>4, <1>5, <1>6, <1>7 DEF Next

LEMMA Invariance == Spec => []IInv
<1>1. Init => IInv BY InitIInv
<1>2. IInv /\ [Next]_vars => IInv' BY StepIInv
<1>3. QED BY <1>1, <1>2, PTL DEF Spec

-----------------------------------------------------------------------------
\* Every variable keeps its type: in particular the record on disk is always the
\* record of some password.
THEOREM TypeCorrect == Spec => []TypeOK
<1>1. IInv => TypeOK BY DEF IInv
<1>2. QED BY <1>1, Invariance, PTL

\* An open vault is whole, for every number of crashes, failures and changes.
THEOREM OpenVaultIsReadable == Spec => []OpenVaultReadable
<1>1. IInv => OpenVaultReadable
  BY DEF IInv, OpenVaultReadable, KeyInv, DraftInv, RecoverableAtEveryCrash, NeedsRecovery
<1>2. QED BY <1>1, Invariance, PTL

\* The durable files determine one whole vault at every moment.
THEOREM CrashConsistency == Spec => []RecoverableAtEveryCrash
<1>1. IInv => RecoverableAtEveryCrash BY DEF IInv
<1>2. QED BY <1>1, Invariance, PTL

\* A cloud-bound vault never switches before the cloud has held the new backup.
THEOREM CloudFirst == Spec => []SwitchNeedsCloud
<1>1. IInv => SwitchNeedsCloud BY DEF IInv
<1>2. QED BY <1>1, Invariance, PTL

\* Windows Hello never holds a stale password once no migration is pending.
THEOREM HelloIsCurrent == Spec => []HelloNeverStale
<1>1. IInv => HelloNeverStale
  BY DEF IInv, HelloInv, HelloNeverStale, NeedsRecovery
<1>2. QED BY <1>1, Invariance, PTL

-----------------------------------------------------------------------------
\* Rows that are all encrypted under g are the sealing of their entries.
LEMMA SealedAgain ==
  ASSUME NEW rs \in SUBSET Row, NEW g, SealedUnder(rs, g)
  PROVE  rs = Sealed(ItemsOf(rs), g)
<1>1. ASSUME NEW r \in rs PROVE r \in Sealed(ItemsOf(rs), g)
  <2>1. r = [item |-> r.item, key |-> r.key] BY DEF Row
  <2>2. r.key = g BY DEF SealedUnder
  <2>3. r.item \in ItemsOf(rs) BY DEF ItemsOf
  <2>4. QED BY <2>1, <2>2, <2>3 DEF Sealed
<1>2. ASSUME NEW r \in Sealed(ItemsOf(rs), g) PROVE r \in rs
  <2>1. PICK i \in ItemsOf(rs) : r = [item |-> i, key |-> g] BY DEF Sealed
  <2>2. PICK q \in rs : i = q.item BY DEF ItemsOf
  <2>3. q = [item |-> q.item, key |-> q.key] /\ q.key = g BY DEF Row, SealedUnder
  <2>4. QED BY <2>1, <2>2, <2>3
<1>3. QED BY <1>1, <1>2

\* The record and the rows AtomicVault sees.
VaultRec == IF Committed THEN journal.newRec ELSE rec
VaultRows == IF Committed THEN journal.newRows ELSE rows

\* Apart from a saved entry and the moment of confirmation, no step changes the
\* vault as AtomicVault sees it: applying the snapshot, writing the record,
\* dropping the journal, crashing and recovering are all invisible.
LEMMA VaultUnchanged ==
  ASSUME IInv, [Next]_vars, ~SaveConfirmed, ~\E i \in Item : SaveEntry(i)
  PROVE  VaultRec' = VaultRec /\ VaultRows' = VaultRows
<1> USE NoJournalType
    DEF IInv, DraftInv, VaultRec, VaultRows, Committed, device, remote, memory, fresh
<1>1. CASE Session
  BY <1>1 DEF Session, Start, Unlock, Lock, Crash, RequestLock, SaveBinding
<1>2. CASE Change
  <2>1. CASE SaveUploading
    <3>1. AtPhase(draft, "Uploading").phase = "Uploading"
      BY AtPhaseType DEF TypeOK, Phases
    <3>2. QED BY <2>1, <3>1 DEF SaveUploading
  <2>2. CASE VersionMismatch BY <2>2 DEF VersionMismatch
  <2>3. CASE SavePrepared BY <2>3 DEF SavePrepared
  <2>4. CASE BeginChange BY <2>4 DEF BeginChange
  <2>5. CASE ReadCloud \/ ReadCloudFails BY <2>5 DEF ReadCloud, ReadCloudFails
  <2>6. CASE SavePreparedFails \/ StepFails \/ Throw
    BY <2>6 DEF SavePreparedFails, StepFails, Throw
  <2>7. CASE CheckVersion \/ SendPatch \/ PatchReturns
    BY <2>7 DEF CheckVersion, SendPatch, PatchReturns
  <2>8. QED BY <1>2, <2>1, <2>2, <2>3, <2>4, <2>5, <2>6, <2>7 DEF Change
<1>3. CASE ResolveUpload
  BY <1>3 DEF ResolveUpload, UploadConfirmed, UploadDidNotHappen, UploadUnknown
<1>4. CASE Commit
  BY <1>4 DEF Commit, ApplySnapshot, ApplySnapshotReportsFailure, SaveRecord,
              InvalidateHello, FinishCommit
<1>5. CASE Recover BY <1>5 DEF Recover, RecoverPrepared, RecoverPending
<1>6. CASE Cloud
  BY <1>6 DEF Cloud, ServerAppliesPatch, ServerDropsPatch, OtherDeviceReads, OtherDeviceWrites
<1>7. CASE UNCHANGED vars BY <1>7 DEF vars
<1>8. QED BY <1>1, <1>2, <1>3, <1>4, <1>5, <1>6, <1>7 DEF Next

\* Every step is a step of AtomicVault or a stutter.
LEMMA RefinementStep ==
  ASSUME IInv, IInv', [Next]_vars
  PROVE  [AV!Next]_(AV!vars)
<1> USE DEF VaultRec, VaultRows, Committed
<1>1. CASE ~SaveConfirmed /\ ~\E i \in Item : SaveEntry(i)
  <2>1. VaultRec' = VaultRec /\ VaultRows' = VaultRows BY <1>1, VaultUnchanged
  <2>2. key' = NoKey \/ key' = VaultRec'
    BY DEF IInv, KeyInv, DraftInv
  <2>3. CASE key' = NoKey
    BY <2>1, <2>3 DEF AV!Next, AV!Lock, AV!vars, AV!NoKey, NoKey
  <2>4. CASE key' = VaultRec'
    BY <2>1, <2>4 DEF AV!Next, AV!Unlock, AV!vars
  <2>5. QED BY <2>2, <2>3, <2>4
<1>2. ASSUME NEW i \in Item, SaveEntry(i) PROVE AV!Next
  <2>1. key = rec /\ journal.phase = "Empty"
    BY <1>2 DEF SaveEntry, IInv, KeyInv, DraftInv
  <2>2. AV!Edit(i)
    BY <1>2, <2>1 DEF SaveEntry, memory, AV!Edit, AV!Sealed, Sealed
  <2>3. QED BY <2>2 DEF AV!Next
<1>3. CASE SaveConfirmed
  <2>1. journal = draft /\ draft \in Journal /\ draft.phase # "Empty" /\ key = NoKey
    BY <1>3 DEF SaveConfirmed, IInv, DraftInv, KeyInv, TypeOK
  <2>2. /\ journal' = AtPhase(draft, "Confirmed")
        /\ UNCHANGED <<rec, rows, key>>
    BY <1>3 DEF SaveConfirmed
  <2>3. /\ journal'.phase = "Confirmed"
        /\ journal'.newRec = draft.newRec
        /\ journal'.newRows = draft.newRows
    BY <2>1, <2>2, AtPhaseType DEF Phases
  <2>4. CASE draft.phase = "Confirmed"
    BY <2>1, <2>2, <2>3, <2>4 DEF AV!vars
  <2>5. CASE draft.phase # "Confirmed"
    <3>1. GoodCandidate(draft)
      BY <2>1, <2>5 DEF IInv, JournalInv, Journal, Phases
    <3>2. draft.newRec \in Nat /\ draft.newRows \in SUBSET Row
      BY <2>1 DEF Journal, Gen
    <3>3. draft.newRows = Sealed(ItemsOf(draft.newRows), draft.newRec)
      BY <3>1, <3>2, SealedAgain DEF GoodCandidate
    <3>4. ItemsOf(draft.newRows) \in SUBSET Item BY <3>2, ItemsOfRows
    <3>5. ItemsOf(rows) \cup ItemsOf(draft.newRows) = ItemsOf(draft.newRows)
      BY <3>1 DEF GoodCandidate
    <3>6. VaultRec = rec /\ VaultRows = rows BY <2>1, <2>5
    <3>7. VaultRec' = draft.newRec /\ VaultRows' = draft.newRows BY <2>3
    <3>8. VaultRows' = AV!Sealed(AV!ItemsOf(VaultRows) \cup ItemsOf(draft.newRows), VaultRec')
      BY <3>3, <3>5, <3>6, <3>7 DEF AV!Sealed, Sealed, AV!ItemsOf, ItemsOf
    <3>9. VaultRec' \in Nat /\ VaultRec' # VaultRec
      BY <3>1, <3>2, <3>6, <3>7 DEF GoodCandidate
    <3>10. AV!ChangePassword
      BY <2>1, <2>2, <3>4, <3>8, <3>9 DEF AV!ChangePassword, AV!NoKey, NoKey
    <3>11. QED BY <3>10 DEF AV!Next
  <2>6. QED BY <2>4, <2>5
<1>4. QED BY <1>1, <1>2, <1>3

\* The journalled protocol implements the indivisible change of AtomicVault,
\* across crashes, failed writes, lost replies and other devices.
THEOREM ImplementsAbstractVault == Spec => ImplementsAtomicVault
<1>1. Init => AV!Init
  <2>1. SUFFICES ASSUME Init PROVE AV!Init OBVIOUS
  <2>2. ~Committed BY <2>1, NoJournalType DEF Init, Committed
  <2>3. QED BY <2>1, <2>2 DEF Init, AV!Init, AV!Sealed, Sealed, AV!NoKey, NoKey
<1>2. IInv /\ IInv' /\ [Next]_vars => [AV!Next]_(AV!vars) BY RefinementStep
<1>3. QED BY <1>1, <1>2, Invariance, PTL DEF Spec, ImplementsAtomicVault, AV!Spec

-----------------------------------------------------------------------------
\* No step drops an entry: the candidate that replaces the rows contains every
\* entry they hold now, because nothing is edited while a change runs.
THEOREM NoEntryIsLost == Spec => EntriesKept
<1>1. ASSUME IInv, [Next]_vars, rows' # rows PROVE ItemsOf(rows) \subseteq ItemsOf(rows')
  <2> USE DEF device, remote, memory, fresh
  <2>1. CASE \E i \in Item : SaveEntry(i) BY <2>1 DEF SaveEntry, ItemsOf
  <2>2. CASE ApplySnapshot \/ ApplySnapshotReportsFailure
    <3>1. journal = draft /\ draft.phase = "Confirmed" /\ rows' = draft.newRows
      BY <1>1, <2>2 DEF IInv, DraftInv, ApplySnapshot, ApplySnapshotReportsFailure
    <3>2. QED BY <1>1, <3>1 DEF IInv, RecoverableAtEveryCrash
  <2>3. CASE ~(\E i \in Item : SaveEntry(i)) /\ ~ApplySnapshot
               /\ ~ApplySnapshotReportsFailure
    <3>1. CASE Session
      BY <1>1, <2>3, <3>1 DEF Session, Start, Unlock, Lock, Crash, RequestLock, SaveBinding
    <3>2. CASE Change
      BY <1>1, <3>2 DEF Change, BeginChange, ReadCloud, ReadCloudFails, SavePrepared,
        SavePreparedFails, SaveUploading, CheckVersion, VersionMismatch, SendPatch,
        PatchReturns, StepFails, Throw
    <3>3. CASE ResolveUpload
      BY <1>1, <3>3 DEF ResolveUpload, UploadConfirmed, UploadDidNotHappen, UploadUnknown
    <3>4. CASE Commit
      BY <1>1, <2>3, <3>4 DEF Commit, SaveConfirmed, SaveRecord, InvalidateHello, FinishCommit
    <3>5. CASE Recover \/ Cloud
      BY <1>1, <3>5 DEF Recover, RecoverPrepared, RecoverPending, Cloud,
        ServerAppliesPatch, ServerDropsPatch, OtherDeviceReads, OtherDeviceWrites
    <3>6. QED BY <1>1, <3>1, <3>2, <3>3, <3>4, <3>5 DEF Next, vars
  <2>4. QED BY <2>1, <2>2, <2>3
<1>2. IInv /\ [Next]_vars => [ItemsOf(rows) \subseteq ItemsOf(rows')]_rows BY <1>1
<1>3. QED BY <1>2, Invariance, PTL DEF Spec, EntriesKept

\* Confirmed is a point of no return.
THEOREM OnlyForward == Spec => ForwardOnly
<1> DEFINE Forward ==
      journal.phase = "Confirmed" =>
        \/ journal' = journal
        \/ journal' = NoJournal /\ rec' = journal.newRec /\ rows' = journal.newRows
<1>1. ASSUME IInv, [Next]_vars, journal.phase = "Confirmed" PROVE Forward
  <2> USE <1>1 DEF device, remote, memory, fresh, IInv, DraftInv
  <2>1. CASE SaveConfirmed
    <3>1. journal = draft /\ draft \in Journal BY <2>1 DEF SaveConfirmed, TypeOK
    <3>2. AtPhase(draft, "Confirmed") = draft BY <3>1 DEF AtPhase, Journal
    <3>3. QED BY <2>1, <3>1, <3>2 DEF SaveConfirmed
  <2>2. CASE FinishCommit BY <2>2 DEF FinishCommit
  <2>3. CASE Session
    BY <2>3 DEF Session, Start, Unlock, Lock, Crash, RequestLock, SaveEntry, SaveBinding
  <2>4. CASE Change
    BY <2>4 DEF Change, BeginChange, ReadCloud, ReadCloudFails, SavePrepared,
      SavePreparedFails, SaveUploading, CheckVersion, VersionMismatch, SendPatch,
      PatchReturns, StepFails, Throw
  <2>5. CASE ResolveUpload
    BY <2>5 DEF ResolveUpload, UploadConfirmed, UploadDidNotHappen, UploadUnknown
  <2>6. CASE Commit
    BY <2>1, <2>2, <2>6 DEF Commit, ApplySnapshot, ApplySnapshotReportsFailure,
      SaveRecord, InvalidateHello
  <2>7. CASE Recover \/ Cloud
    BY <2>7 DEF Recover, RecoverPrepared, RecoverPending, Cloud,
      ServerAppliesPatch, ServerDropsPatch, OtherDeviceReads, OtherDeviceWrites
  <2>8. CASE UNCHANGED vars BY <2>8 DEF vars
  <2>9. QED BY <2>3, <2>4, <2>5, <2>6, <2>7, <2>8 DEF Next
<1>2. IInv /\ [Next]_vars => Forward BY <1>1
<1> HIDE DEF Forward
<1>3. IInv /\ [Next]_vars => [Forward]_vars BY <1>2
<1>4. Spec => [][Forward]_vars BY <1>3, Invariance, PTL DEF Spec
<1>5. QED BY <1>4 DEF Forward, ForwardOnly
=============================================================================
