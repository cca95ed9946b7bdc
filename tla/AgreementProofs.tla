--------------------------- MODULE AgreementProofs ---------------------------
(***************************************************************************)
(* The password change and the cloud, for a server that never writes late:  *)
(* no backup replaces one with entries it lacks and, for a vault that was   *)
(* cloud-bound all along, device and backup end up under one password.      *)
(*                                                                         *)
(* To IInv of PasswordChangeProofs, which is about the device, Carried adds *)
(* what the backup is while a change is under way: the file the candidate   *)
(* was made from stays what it was as long as its id does (Offer), and      *)
(* nothing comes between the check and the PATCH (Wire). For a bound vault  *)
(* the phase of the journal also tells under which of two passwords the     *)
(* file is (Keys).                                                          *)
(***************************************************************************)
EXTENDS PasswordChangeProofs

Ids == cloud.id <= lastBlob /\ (cloud.id = 0 => cloud = NoBlob)

Wire ==
  /\ pc # "await" => inflight = NoBlob
  /\ pc = "await" => inflight \in {NoBlob, draft.newBlob}
  /\ pc = "patch" \/ inflight # NoBlob => cloud.id = draft.oldBlob

Offer(j) ==
  /\ j.oldBlob < j.newBlob.id /\ j.newBlob.id <= lastBlob
  /\ cloud.id = j.oldBlob => cloud.items \subseteq j.newBlob.items

Offers ==
  /\ pc = "prepare" /\ draft.cloud => Offer(draft)
  /\ journal.phase \in {"Prepared", "Uploading"} /\ journal.cloud => Offer(journal)

Carried == Ids /\ Wire /\ Offers

Keyed(j) ==
  /\ j.cloud /\ j.newBlob.key = j.newRec
  /\ cloud.id = j.oldBlob => cloud.key = rec
  /\ cloud.id = j.newBlob.id => cloud.key = j.newRec

Keys ==
  /\ binding = "bound"
  /\ pc = "prepare" => Keyed(draft)
  /\ journal.phase \in {"Prepared", "Uploading"} => Keyed(journal)
  /\ cloud.id # 0 =>
       /\ journal.phase \in {"Empty", "Prepared"} => cloud.key = rec
       /\ journal.phase = "Uploading" => cloud.key \in {rec, journal.newRec}
       /\ journal.phase = "Uploading" /\ pc \in {"check", "patch"} => cloud.key = rec
       /\ journal.phase = "Confirmed" => cloud.key = journal.newRec
       /\ pc = "confirm" => cloud.key = draft.newRec

\* What every step keeps.
Kept == Carried' /\ (Keys => Keys')

-----------------------------------------------------------------------------
\* A step of this process after which no request is open, and the journal is
\* what it was or gone with the change it stood for.
LEMMA Quiet ==
  ASSUME IInv, Carried, UNCHANGED <<binding, cloud, lastBlob, rec>>, inflight' = NoBlob,
         pc' \notin {"prepare", "check", "patch", "confirm"},
         \/ journal' = journal
         \/ journal' = NoJournal /\ (Keys /\ cloud.id # 0 => cloud.key = rec)
  PROVE  Kept
<1>1. Carried'
  BY NoJournalType DEF Carried, Ids, Wire, Offers, Offer
<1>2. Keys => Keys'
  BY NoJournalType DEF Keys, Keyed
<1> QED
  BY <1>1, <1>2 DEF Kept

\* At these places the file is still under the password of the record.
LEMMA StillOld ==
  ASSUME IInv, Keys, cloud.id # 0, pc \in {"open", "read", "prepare", "mark", "check"}
  PROVE  cloud.key = rec
BY DEF IInv, DraftInv, TypeOK, Journal, Phases, Keys

LEMMA SessionKeeps ==
  ASSUME IInv, Carried, ~LateWrites, Session
  PROVE  Kept
<1>1. CASE Start \/ Unlock \/ Lock \/ \E i \in Item : SaveEntry(i)
  BY <1>1, Quiet DEF Start, Unlock, Lock, SaveEntry, device, remote, memory, fresh, Carried, Wire
<1>2. CASE Crash
  BY <1>2, Quiet DEF Crash, device, fresh
<1>3. CASE RequestLock
  BY <1>3 DEF RequestLock, device, remote, fresh, Kept, Carried, Ids, Wire, Offers, Offer, Keys,
              Keyed
<1>4. ASSUME NEW b \in {"local", "bound"}, SaveBinding(b)
      PROVE  Kept
  <2>1. /\ binding # "bound"
        /\ UNCHANGED <<journal, rec, cloud, inflight, pc, draft, lastBlob>>
    BY <1>4 DEF SaveBinding, remote, memory, fresh
  <2>2. ~Keys
    BY <2>1 DEF Keys
  <2>3. Carried'
    BY <2>1 DEF Carried, Ids, Wire, Offers, Offer
  <2> QED
    BY <2>2, <2>3 DEF Kept
<1> QED
  BY <1>1, <1>2, <1>3, <1>4 DEF Session

LEMMA ChangeKeeps ==
  ASSUME IInv, Carried, ~LateWrites, Change
  PROVE  Kept
<1>t. TypeOK
  BY DEF IInv
<1>1. CASE BeginChange
  <2>1. CASE binding = "bound"
    BY <1>1, <2>1, Quiet DEF BeginChange, device, remote, Carried, Wire
  <2>2. CASE binding # "bound"
    <3>1. /\ pc' = "prepare" /\ draft' = [NoJournal EXCEPT
                 !.phase = "Prepared", !.newRec = lastGen + 1,
                 !.newRows = Sealed(ItemsOf(rows), lastGen + 1)]
          /\ UNCHANGED <<journal, rec, binding, cloud, inflight, lastBlob>> /\ pc = "open"
      BY <1>1, <2>2 DEF BeginChange, device, remote
    <3>2. ~draft'.cloud
      BY <3>1 DEF NoJournal
    <3>3. Carried' /\ ~Keys
      BY <2>2, <3>1, <3>2 DEF Carried, Ids, Wire, Offers, Offer, Keys
    <3> QED
      BY <3>3 DEF Kept
  <2> QED
    BY <2>1, <2>2
<1>2. CASE ReadCloud
  <2>1. cloud.key = rec /\ cloud.id # 0 /\ journal.phase = "Empty"
    BY <1>2 DEF ReadCloud, IInv, DraftInv
  <2>2. /\ draft'.cloud /\ draft'.oldBlob = cloud.id /\ draft'.newRec = draft.newRec
        /\ draft'.newBlob = [key |-> draft.newRec, items |-> ItemsOf(snap) \cup cloud.items,
                             id |-> lastBlob + 1]
    BY <1>t, <1>2 DEF ReadCloud, IInv, DraftInv, TypeOK, Journal
  <2>3. /\ pc' = "prepare" /\ lastBlob' = lastBlob + 1
        /\ UNCHANGED <<journal, rec, binding, cloud, inflight>>
    BY <1>2 DEF ReadCloud, device, remote
  <2>4. cloud.id \in Nat /\ lastBlob \in Nat /\ cloud.id <= lastBlob
    BY <1>t DEF TypeOK, Blob, Carried, Ids
  <2>5. Offer(draft)' /\ Keyed(draft)'
    BY <2>1, <2>2, <2>3, <2>4 DEF Offer, Keyed
  <2>6. inflight = NoBlob
    BY <1>2 DEF ReadCloud, Carried, Wire
  <2>7. Carried'
    BY <2>1, <2>3, <2>4, <2>5, <2>6 DEF Carried, Ids, Wire, Offers
  <2> QED
    BY <2>1, <2>3, <2>5, <2>7 DEF Kept, Keys
<1>3. CASE SavePrepared
  <2>1. /\ draft.phase = "Prepared" /\ journal.phase = "Empty" /\ inflight = NoBlob
        /\ draft.cloud => Offer(draft)
        /\ Keys => Keyed(draft)
    BY <1>3 DEF SavePrepared, Carried, Offers, Wire, Keys, IInv, DraftInv
  <2>2. /\ journal' = draft /\ pc' = IF draft.cloud THEN "mark" ELSE "confirm"
        /\ UNCHANGED <<rec, binding, cloud, inflight, lastBlob, draft>>
    BY <1>3 DEF SavePrepared, remote, memory, fresh
  <2>3. Carried'
    BY <2>1, <2>2 DEF Carried, Ids, Wire, Offers, Offer
  <2>4. Keys => Keys'
    BY <2>1, <2>2 DEF Keys, Keyed
  <2> QED
    BY <2>3, <2>4 DEF Kept
<1>4. CASE SaveUploading
  <2>1. /\ journal = draft /\ draft \in Journal /\ draft.phase = "Prepared"
        /\ Offer(draft) /\ (Keys => Keyed(draft))
    BY <1>t, <1>4 DEF SaveUploading, IInv, DraftInv, TypeOK, Carried, Offers, Keys
  <2>2. /\ journal' = AtPhase(draft, "Uploading") /\ draft' = AtPhase(draft, "Uploading")
        /\ pc = "mark" /\ pc' = "check" /\ UNCHANGED <<rec, binding, cloud, inflight, lastBlob>>
    BY <1>4 DEF SaveUploading, remote, fresh
  <2>3. /\ journal'.phase = "Uploading" /\ journal'.cloud = draft.cloud
        /\ journal'.newRec = draft.newRec /\ journal'.newBlob = draft.newBlob
        /\ journal'.oldBlob = draft.oldBlob
    BY <2>1, <2>2, AtPhaseType DEF Phases
  <2>4. Offer(journal)' /\ (Keys => Keyed(journal)')
    BY <2>1, <2>2, <2>3 DEF Offer, Keyed
  <2>5. Keys /\ cloud.id # 0 => cloud.key = rec
    BY <2>2, StillOld
  <2>6. Carried'
    BY <2>2, <2>3, <2>4 DEF Carried, Ids, Wire, Offers
  <2>7. Keys => Keys'
    BY <2>2, <2>3, <2>4, <2>5 DEF Keys
  <2> QED
    BY <2>6, <2>7 DEF Kept
<1>5. CASE CheckVersion
  BY <1>5 DEF CheckVersion, device, remote, memory, fresh, Kept, Carried, Ids, Wire, Offers, Offer,
              Keys, Keyed
<1>6. CASE SendPatch
  BY <1>6 DEF SendPatch, device, memory, fresh, Kept, Carried, Ids, Wire, Offers, Offer, Keys, Keyed
<1>7. CASE PatchReturns
  BY <1>7, Quiet DEF PatchReturns, device, memory, fresh
<1>8. CASE VersionMismatch
  <2>1. pc' \in {"read", "open", "gate", "down"}
    BY <1>8 DEF VersionMismatch, EndWith
  <2>2. Keys /\ cloud.id # 0 => cloud.key = rec
    BY <1>8, StillOld DEF VersionMismatch
  <2> QED
    BY <1>8, <2>1, <2>2, Quiet DEF VersionMismatch, remote, fresh, Carried, Wire
<1>9. CASE ReadCloudFails \/ SavePreparedFails
  <2>1. pc' \in {"open", "gate", "down"}
    BY <1>9 DEF ReadCloudFails, SavePreparedFails, EndWith
  <2> QED
    BY <1>9, <2>1, Quiet
    DEF ReadCloudFails, SavePreparedFails, device, remote, fresh, Carried, Wire
<1>10. CASE StepFails \/ Throw
  <2>1. pc' \in {"open", "gate", "down"} /\ pc # "await"
    BY <1>10 DEF StepFails, Throw, EndWith, EndLocked, CommitPC
  <2> QED
    BY <1>10, <2>1, Quiet DEF StepFails, Throw, device, remote, fresh, Carried, Wire
<1> QED
  BY <1>1, <1>2, <1>3, <1>4, <1>5, <1>6, <1>7, <1>8, <1>9, <1>10 DEF Change

LEMMA ResolveKeeps ==
  ASSUME IInv, Carried, ResolveUpload
  PROVE  Kept
<1>1. journal = draft /\ draft.phase = "Uploading" /\ pc = "resolve" /\ (Keys => Keyed(draft))
  BY DEF ResolveUpload, UploadConfirmed, UploadDidNotHappen, UploadUnknown, IInv, DraftInv, Keys
<1>2. CASE UploadConfirmed
  BY <1>1, <1>2 DEF UploadConfirmed, device, remote, memory, fresh, Kept, Carried, Ids, Wire,
                    Offers, Offer, Keys, Keyed
<1>3. CASE UploadDidNotHappen
  <2>1. (Keys => cloud.key = rec) /\ pc' \in {"open", "gate", "down"}
    BY <1>1, <1>3 DEF UploadDidNotHappen, Keyed, EndWith
  <2> QED
    BY <1>1, <1>3, <2>1, Quiet DEF UploadDidNotHappen, remote, fresh, Carried, Wire
<1>4. CASE UploadUnknown
  <2>1. pc' \in {"gate", "down"}
    BY <1>4 DEF UploadUnknown, EndLocked
  <2> QED
    BY <1>1, <1>4, <2>1, Quiet DEF UploadUnknown, device, remote, fresh, Carried, Wire
<1> QED
  BY <1>2, <1>3, <1>4 DEF ResolveUpload

LEMMA CommitKeeps ==
  ASSUME IInv, Carried, Commit
  PROVE  Kept
<1>t. TypeOK
  BY DEF IInv
<1>1. CASE SaveConfirmed
  <2>1. draft \in Journal
    BY <1>t DEF TypeOK
  <2>2. journal'.phase = "Confirmed" /\ journal'.newRec = draft.newRec
    BY <1>1, <2>1, AtPhaseType DEF SaveConfirmed, Phases
  <2>3. Keys /\ cloud.id # 0 => cloud.key = draft.newRec
    BY <1>1 DEF SaveConfirmed, Keys
  <2> QED
    BY <1>1, <2>2, <2>3 DEF SaveConfirmed, remote, fresh, Kept, Carried, Ids, Wire, Offers, Keys
<1>2. CASE ApplySnapshot \/ ApplySnapshotReportsFailure \/ InvalidateHello
  <2>1. pc' \in {"record", "finish", "gate", "down"}
    BY <1>2 DEF ApplySnapshot, ApplySnapshotReportsFailure, InvalidateHello, EndLocked
  <2> QED
    BY <1>2, <2>1, Quiet
    DEF ApplySnapshot, ApplySnapshotReportsFailure, InvalidateHello, remote, memory, fresh,
        Carried, Wire
<1>3. CASE SaveRecord
  <2>1. journal.phase = "Confirmed"
    BY <1>3 DEF SaveRecord, IInv, DraftInv
  <2> QED
    BY <1>3, <2>1 DEF SaveRecord, remote, memory, fresh, Kept, Carried, Ids, Wire, Offers, Keys
<1>4. CASE FinishCommit
  <2>1. journal = draft /\ draft.phase = "Confirmed" /\ rec = draft.newRec
    BY <1>4 DEF FinishCommit, IInv, DraftInv
  <2>2. Keys /\ cloud.id # 0 => cloud.key = rec
    BY <2>1 DEF Keys
  <2>3. pc' \in {"open", "gate", "down"}
    BY <1>4 DEF FinishCommit, EndWith
  <2> QED
    BY <1>4, <2>2, <2>3, Quiet DEF FinishCommit, remote, fresh, Carried, Wire
<1> QED
  BY <1>1, <1>2, <1>3, <1>4 DEF Commit

LEMMA RecoverKeeps ==
  ASSUME IInv, Carried, Recover
  PROVE  Kept
<1>1. CASE RecoverPrepared
  <2>1. Keys /\ cloud.id # 0 => cloud.key = rec
    BY <1>1 DEF RecoverPrepared, Keys
  <2> QED
    BY <1>1, <2>1, Quiet DEF RecoverPrepared, remote, memory, fresh, Carried, Wire
<1>2. CASE RecoverPending
  BY <1>2 DEF RecoverPending, device, remote, fresh, Kept, Carried, Ids, Wire, Offers, Offer, Keys,
              Keyed
<1> QED
  BY <1>1, <1>2 DEF Recover

\* The server and the other devices. Each write of theirs, too, contains what it
\* replaces.
LEMMA CloudKeeps ==
  ASSUME IInv, Carried, ~LateWrites, Cloud
  PROVE  Kept /\ cloud.items \subseteq cloud'.items
<1>t. TypeOK /\ cloud.id \in Nat /\ lastBlob \in Nat
  BY DEF IInv, TypeOK, Blob
<1>1. CASE ServerAppliesPatch
  <2>1. pc = "await" /\ inflight = draft.newBlob /\ cloud.id = draft.oldBlob
    BY <1>1 DEF ServerAppliesPatch, Carried, Wire
  <2>2. journal = draft /\ draft.phase = "Uploading" /\ draft.cloud
    BY <2>1 DEF IInv, DraftInv
  <2>3. Offer(draft) /\ draft \in Journal /\ (Keys => Keyed(draft))
    BY <1>t, <2>2 DEF Carried, Offers, TypeOK, Keys
  <2>4. /\ cloud' = draft.newBlob /\ inflight' = NoBlob
        /\ UNCHANGED <<rec, binding, journal, draft, pc, lastBlob>>
    BY <1>1, <2>1 DEF ServerAppliesPatch, Stored, device, memory, fresh
  <2>5. draft.oldBlob \in Nat /\ draft.newBlob.id \in Nat /\ draft.oldBlob < draft.newBlob.id
    BY <2>3 DEF Journal, Blob, Offer
  <2>6. cloud'.id # draft.oldBlob /\ cloud'.id # 0
    BY <2>3, <2>4, <2>5
  <2>7. cloud'.id <= lastBlob /\ cloud.items \subseteq cloud'.items
    BY <2>1, <2>3, <2>4 DEF Offer
  <2>8. Carried'
    BY <2>1, <2>2, <2>3, <2>4, <2>6, <2>7 DEF Carried, Ids, Wire, Offers, Offer
  <2>9. Keys => Keys'
    BY <2>1, <2>2, <2>3, <2>4, <2>6 DEF Keys, Keyed
  <2> QED
    BY <2>7, <2>8, <2>9 DEF Kept
<1>2. CASE ServerDropsPatch
  BY <1>2 DEF ServerDropsPatch, device, memory, fresh, Kept, Carried, Ids, Wire, Offers, Offer, Keys,
              Keyed
<1>3. CASE OtherDeviceReads
  BY <1>3 DEF OtherDeviceReads, device, memory, fresh, Kept, Carried, Ids, Wire, Offers, Offer, Keys,
              Keyed
<1>4. ASSUME NEW i \in Item, OtherDeviceWrites(i)
      PROVE  Kept /\ cloud.items \subseteq cloud'.items
  <2>1. /\ otherBase = cloud /\ cloud # NoBlob /\ pc \notin {"patch", "await"}
        /\ cloud' = [key |-> cloud.key, items |-> cloud.items \cup {i}, id |-> lastBlob + 1]
        /\ lastBlob' = lastBlob + 1
        /\ UNCHANGED <<rec, binding, journal, draft, pc, inflight>>
    BY <1>4 DEF OtherDeviceWrites, Stored, device, memory
  <2>2. cloud.id # 0 /\ cloud.id <= lastBlob /\ inflight = NoBlob
    BY <2>1 DEF Carried, Ids, Wire
  <2>3. cloud'.key = cloud.key /\ cloud'.id = lastBlob + 1 /\ cloud.items \subseteq cloud'.items
    BY <2>1
  <2>4. ASSUME NEW j \in Journal, Offer(j)
        PROVE  /\ j.oldBlob < j.newBlob.id /\ j.newBlob.id <= lastBlob'
               /\ cloud'.id # j.oldBlob /\ cloud'.id # j.newBlob.id
    <3>1. j.oldBlob \in Nat /\ j.newBlob.id \in Nat
      BY DEF Journal, Blob
    <3> QED
      BY <1>t, <2>1, <2>3, <2>4, <3>1 DEF Offer
  <2>5. draft \in Journal /\ journal \in Journal
    BY <1>t DEF TypeOK
  <2>6. Carried'
    BY <1>t, <2>1, <2>2, <2>3, <2>4, <2>5 DEF Carried, Ids, Wire, Offers, Offer
  <2>7. ASSUME Keys PROVE Keys'
    <3>1. pc = "prepare" => Keyed(draft) /\ Offer(draft)
      BY <2>7 DEF Keys, Keyed, Carried, Offers
    <3>2. journal.phase \in {"Prepared", "Uploading"} => Keyed(journal) /\ Offer(journal)
      BY <2>7 DEF Keys, Keyed, Carried, Offers
    <3>3. /\ pc' = "prepare" => Keyed(draft)'
          /\ journal'.phase \in {"Prepared", "Uploading"} => Keyed(journal)'
      BY <2>1, <2>4, <2>5, <3>1, <3>2 DEF Keyed
    <3> QED
      BY <2>1, <2>2, <2>3, <2>7, <3>3 DEF Keys
  <2> QED
    BY <2>3, <2>6, <2>7 DEF Kept
<1> QED
  BY <1>1, <1>2, <1>3, <1>4 DEF Cloud

LEMMA InitCarried == Init => Carried
BY NoJournalType DEF Init, Carried, Ids, Wire, Offers

LEMMA InitKeys ==
  ASSUME InitialBindings = {"bound"}
  PROVE  Init => Keys
BY NoJournalType DEF Init, Keys

LEMMA StepKeeps ==
  ASSUME ~LateWrites
  PROVE  IInv /\ Carried /\ [Next]_vars
           => Carried' /\ (Keys => Keys') /\ [cloud.items \subseteq cloud'.items]_cloud
<1> SUFFICES ASSUME IInv, Carried, [Next]_vars
             PROVE  Kept /\ [cloud.items \subseteq cloud'.items]_cloud
  BY DEF Kept
<1>1. CASE Cloud
  BY <1>1, CloudKeeps
<1>2. CASE UNCHANGED vars
  BY <1>2 DEF vars, Kept, Carried, Ids, Wire, Offers, Offer, Keys, Keyed
<1>3. CASE Session
  BY <1>3, SessionKeeps DEF Session, Start, Unlock, Lock, Crash, RequestLock, SaveEntry,
                            SaveBinding, remote
<1>4. CASE Change
  BY <1>4, ChangeKeeps
  DEF Change, BeginChange, ReadCloud, ReadCloudFails, SavePrepared, SavePreparedFails,
      SaveUploading, CheckVersion, VersionMismatch, SendPatch, PatchReturns, StepFails, Throw, remote
<1>5. CASE ResolveUpload \/ Commit \/ Recover
  BY <1>5, ResolveKeeps, CommitKeeps, RecoverKeeps
  DEF ResolveUpload, UploadConfirmed, UploadDidNotHappen, UploadUnknown, Commit, SaveConfirmed,
      ApplySnapshot, ApplySnapshotReportsFailure, SaveRecord, InvalidateHello, FinishCommit,
      Recover, RecoverPrepared, RecoverPending, remote
<1> QED
  BY <1>1, <1>2, <1>3, <1>4, <1>5 DEF Next

\* Without late writes and for a vault bound from the start: whenever the vault is
\* open, the backup is under its password, however often changes were cut short,
\* uploads left in doubt and other devices wrote in between (ResolveUpload,
\* Commit, Recover). A vault that changes its password first and is bound to a
\* file of the old one afterwards does not agree with it.
THEOREM DeviceAndCloudAgree ==
  ASSUME ~LateWrites, InitialBindings = {"bound"}
  PROVE  Spec => []CloudAgreement
<1>1. Init => Carried /\ Keys
  BY InitCarried, InitKeys
<1>2. IInv /\ Carried /\ Keys /\ [Next]_vars => Carried' /\ Keys'
  BY StepKeeps
<1>3. IInv /\ Keys => CloudAgreement
  BY StillOld DEF CloudAgreement
<1> QED
  BY <1>1, <1>2, <1>3, Invariance, PTL DEF Spec

\* Without late writes, and however and whenever the vault was bound, no backup ever
\* replaces one with entries it lacks: each attempt of Change merges the file it has
\* read, and UploadBackupIfMatch replaces that one only.
THEOREM BackupKeepsEntries ==
  ASSUME ~LateWrites
  PROVE  Spec => CloudKeepsEntries
<1>1. Init => Carried
  BY InitCarried
<1>2. IInv /\ Carried /\ [Next]_vars => Carried' /\ [cloud.items \subseteq cloud'.items]_cloud
  BY StepKeeps
<1> QED
  BY <1>1, <1>2, Invariance, PTL DEF Spec, CloudKeepsEntries
=============================================================================
