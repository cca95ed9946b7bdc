----------------------------- MODULE SyncProofs -----------------------------
(***************************************************************************)
(* For any number of devices and entries, and however requests fail, are    *)
(* answered late or are cut short by a restart:                             *)
(*                                                                         *)
(*  - the types, and a row or a marker but never both (EitherOr), from      *)
(*    where the copies of the vault come from (Follows);                    *)
(*  - with clocks in step every copy of an entry, wherever it is held, is   *)
(*    the newest version or an older one (NothingNewer), so that an edit    *)
(*    wins against what it changes and, while no deletion is past its age,  *)
(*    no device goes back and the newest version is never lost;             *)
(*  - with titles of their own and no write between check and PATCH, the    *)
(*    backup only grows: a run that still holds the file's version holds    *)
(*    something as new as the file (Guarded);                               *)
(*  - with all of that no device goes back and nothing is lost where        *)
(*    deletions are forgotten either: what is forgotten was older than the  *)
(*    run, which has read it in the backup or sent it there (Covered).      *)
(***************************************************************************)
EXTENDS Sync, TLAPS

Row == { v \in Version : v.kind # "gone" }
Result == {"ok", "error", "conflict", "restarted"}
Place == {"idle", "read", "merge", "check", "patch", "create", "sent"}

\* TypeOK, in the parts that an action touches.
RunTyped ==
  /\ pc \in [Device -> Place] /\ attempt \in [Device -> 0..MaxRetries]
  /\ \A d \in Device : (attempt[d] = 0) = (pc[d] = "idle")
  /\ snap \in [Device -> Vault] /\ began \in [Device -> Nat]
HeldTyped ==
  /\ fresh \in [Device -> BOOLEAN]
  /\ got \in [Device -> Backup] /\ out \in [Device -> Vault]
  /\ status \in [Device -> Result]
UserTyped ==
  /\ store \in [Device -> Vault]
  /\ dirty \in [Device -> BOOLEAN] /\ clock \in 0..MaxClock
  /\ newest \in [Entry -> Version] /\ seen \in [Device -> [Entry -> Nat]]

LEMMA TypedParts == TypeOK <=> RunTyped /\ HeldTyped /\ UserTyped /\ cloud \in Backup
BY DEF TypeOK, RunTyped, HeldTyped, UserTyped, Place, Result
LEMMA TypedNext ==
  ASSUME RunTyped', HeldTyped', UserTyped', cloud' \in Backup
  PROVE  TypeOK'
BY DEF TypeOK, RunTyped, HeldTyped, UserTyped, Place, Result

-----------------------------------------------------------------------------
(* What the operators return.                                               *)

LEMMA Versions ==
  /\ NoVersion \in Row
  /\ \A t \in Nat : Live(t) \in Row /\ Trash(t) \in Row /\ Gone(t) \in Version
BY DEF NoVersion, Live, Trash, Gone, Row, Version, Kind

LEMMA EmptyTyped == EmptyVault \in Vault /\ NoBackup \in Backup /\ NoMarks \in [Entry -> Nat]
BY Versions DEF EmptyVault, NoBackup, NoRows, NoMarks, Vault, Backup, Row

LEMMA ItemTyped ==
  ASSUME NEW e \in Entry, NEW s, s \in Vault \/ s \in Backup
  PROVE  /\ s.row[e] \in Row /\ s.mark[e] \in Nat
         /\ LocalItem(s, e) \in Version /\ CloudItem(s, e) \in Version
<1>1. s.row[e] \in Row /\ s.mark[e] \in Nat
  BY DEF Vault, Backup, Row
<1> QED
  BY <1>1, Versions DEF LocalItem, CloudItem, Row

LEMMA LargerTyped == ASSUME NEW a \in Nat, NEW b \in Nat
                     PROVE  Larger(a, b) \in Nat /\ Larger(a, b) >= a /\ Larger(a, b) >= b
BY DEF Larger

LEMMA MergedTyped ==
  ASSUME TypeOK, NEW d \in Device
  PROVE  Merged(d) \in [Entry -> Version]
<1>1. snap[d] \in Vault /\ got[d] \in Backup
  BY DEF TypeOK
<1> QED
  BY <1>1, ItemTyped DEF Merged, MergeItem

LEMMA ApplyItemTyped ==
  ASSUME NEW r \in Row, NEW m \in Nat, NEW v \in Version
  PROVE  ApplyItem(r, m, v).row \in Row /\ ApplyItem(r, m, v).mark \in Nat
<1>1. v.ts \in Nat /\ v.kind \in Kind
  BY DEF Version
<1>2. Larger(m, v.ts) \in Nat
  BY <1>1, LargerTyped
<1> QED
  BY <1>1, <1>2, Versions DEF ApplyItem, Row

\* A vault of rows and markers, entry by entry.
LEMMA VaultTyped ==
  ASSUME NEW s, s \in Vault
  PROVE  s.row \in [Entry -> Row] /\ s.mark \in [Entry -> Nat] /\ s = [row |-> s.row, mark |-> s.mark]
BY DEF Vault, Row

LEMMA ApplyTyped ==
  ASSUME NEW s \in Vault, NEW items \in [Entry -> Version], NEW on
  PROVE  /\ Apply(s, items, on) \in Vault
         /\ \A e \in Entry :
              \/ /\ e \in on
                 /\ Apply(s, items, on).row[e] = ApplyItem(s.row[e], s.mark[e], items[e]).row
                 /\ Apply(s, items, on).mark[e] = ApplyItem(s.row[e], s.mark[e], items[e]).mark
              \/ /\ e \notin on
                 /\ Apply(s, items, on).row[e] = s.row[e]
                 /\ Apply(s, items, on).mark[e] = s.mark[e]
<1> DEFINE a == Apply(s, items, on)
<1>1. /\ a.row = [e \in Entry |-> IF e \in on THEN ApplyItem(s.row[e], s.mark[e], items[e]).row
                                  ELSE s.row[e]]
      /\ a.mark = [e \in Entry |-> IF e \in on THEN ApplyItem(s.row[e], s.mark[e], items[e]).mark
                                   ELSE s.mark[e]]
      /\ a = [row |-> a.row, mark |-> a.mark]
  BY DEF Apply
<1>2. \A e \in Entry : /\ s.row[e] \in Row /\ s.mark[e] \in Nat
                       /\ ApplyItem(s.row[e], s.mark[e], items[e]).row \in Row
                       /\ ApplyItem(s.row[e], s.mark[e], items[e]).mark \in Nat
  BY ItemTyped, ApplyItemTyped
<1> HIDE DEF a
<1>3. a \in Vault
  BY <1>1, <1>2 DEF Vault, Row
<1>4. \A e \in Entry :
        \/ /\ e \in on
           /\ a.row[e] = ApplyItem(s.row[e], s.mark[e], items[e]).row
           /\ a.mark[e] = ApplyItem(s.row[e], s.mark[e], items[e]).mark
        \/ e \notin on /\ a.row[e] = s.row[e] /\ a.mark[e] = s.mark[e]
  BY <1>1
<1> QED
  BY <1>3, <1>4 DEF a

LEMMA ExpiredTyped ==
  ASSUME NEW s \in Vault, NEW cutoff
  PROVE  /\ Expired(s, cutoff) \in Vault
         /\ \A e \in Entry :
              /\ Expired(s, cutoff).row[e] \in {s.row[e], NoVersion}
              /\ Expired(s, cutoff).mark[e] \in {s.mark[e], 0}
<1>1. \A e \in Entry : s.row[e] \in Row /\ s.mark[e] \in Nat /\ NoVersion \in Row
  BY ItemTyped, Versions
<1> QED
  BY <1>1 DEF Expired, Vault, Row

LEMMA RememberTyped ==
  ASSUME seen \in [Device -> [Entry -> Nat]], NEW d \in Device, NEW s \in Vault, Remember(d, s)
  PROVE  seen' \in [Device -> [Entry -> Nat]]
<1>1. \A e \in Entry : Larger(seen[d][e], LocalItem(s, e).ts) \in Nat
  BY ItemTyped, LargerTyped DEF Version
<1> QED
  BY <1>1 DEF Remember

-----------------------------------------------------------------------------
(* Types.                                                                   *)

LEMMA NowTyped == ASSUME TypeOK, NEW d \in Device PROVE Now(d) \in Nat \ {0} /\ clock \in Nat
BY AheadAssumption, BoundAssumption DEF TypeOK, Now

LEMMA WriteTyped ==
  ASSUME TypeOK, NEW d \in Device, NEW e \in Entry, NEW row \in Row, NEW mark \in Nat,
         Write(d, e, row, mark)
  PROVE  TypeOK'
<1> DEFINE s == [row |-> [store[d].row EXCEPT ![e] = row],
                 mark |-> [store[d].mark EXCEPT ![e] = mark]]
<1>1. RunTyped /\ HeldTyped /\ UserTyped /\ cloud \in Backup
  BY TypedParts
<1>2. s \in Vault
  BY <1>1, VaultTyped DEF UserTyped, Vault, Row
<1>3. (RunTyped /\ HeldTyped /\ cloud \in Backup)'
  BY <1>1 DEF Write, job, RunTyped, HeldTyped
<1>4. seen' \in [Device -> [Entry -> Nat]]
  <2>1. Remember(d, s)
    BY DEF Write
  <2> QED
    BY <1>1, <1>2, <2>1, RememberTyped DEF UserTyped
<1>5. clock' \in 0..MaxClock
  BY <1>1, BoundAssumption DEF Write, UserTyped
<1>6. newest' \in [Entry -> Version]
  <2>1. Gone(mark) \in Version /\ row \in Version
    BY Versions DEF Row
  <2> QED
    BY <1>1, <2>1 DEF Write, UserTyped
<1>7. store' = [store EXCEPT ![d] = s] /\ dirty' = [dirty EXCEPT ![d] = TRUE]
  BY DEF Write
<1> HIDE DEF s
<1>8. UserTyped'
  BY <1>1, <1>2, <1>4, <1>5, <1>6, <1>7 DEF UserTyped
<1> QED
  BY <1>3, <1>8, TypedNext

LEMMA UserTypes ==
  ASSUME TypeOK, NEW d \in Device, NEW e \in Entry, UserStep(d, e)
  PROVE  TypeOK'
<1>1. store[d] \in Vault /\ store[d].row[e] \in Row /\ store[d].mark[e] \in Nat
  BY ItemTyped DEF TypeOK
<1>2. Now(d) \in Nat /\ store[d].row[e].ts \in Nat /\ store[d].row[e].ts + 1 \in Nat
  BY <1>1, NowTyped DEF Row, Version
<1>3. CASE CreateEntry(d, e)
  BY <1>1, <1>2, <1>3, WriteTyped, Versions DEF CreateEntry
<1>4. CASE EditEntry(d, e)
  <2>1. Live(Larger(store[d].row[e].ts + 1, Now(d))) \in Row
    BY <1>2, LargerTyped, Versions
  <2> QED
    BY <1>1, <1>4, <2>1, WriteTyped DEF EditEntry
<1>5. CASE ImportEntry(d, e)
  BY <1>1, <1>2, <1>5, WriteTyped, Versions DEF ImportEntry
<1>6. CASE MoveToTrash(d, e)
  BY <1>1, <1>2, <1>6, WriteTyped, Versions DEF MoveToTrash
<1>7. CASE RestoreEntry(d, e)
  BY <1>1, <1>2, <1>7, WriteTyped, Versions DEF RestoreEntry
<1>8. CASE PermanentlyDelete(d, e)
  <2>1. Larger(store[d].row[e].ts, Now(d)) \in Nat
    BY <1>2, LargerTyped
  <2>2. Larger(store[d].mark[e], Larger(store[d].row[e].ts, Now(d))) \in Nat
    BY <1>1, <2>1, LargerTyped
  <2> QED
    BY <1>8, <2>2, WriteTyped, Versions DEF PermanentlyDelete
<1> QED
  BY <1>3, <1>4, <1>5, <1>6, <1>7, <1>8 DEF UserStep

\* A run that starts has its first attempt, or one within the retries.
LEMMA StartTyped ==
  ASSUME TypeOK, NEW d \in Device, NEW n \in 1..MaxRetries, StartRun(d, n)
  PROVE  RunTyped'
<1>1. clock \in Nat
  BY BoundAssumption DEF TypeOK
<1>2. store[d] \in Vault
  BY DEF TypeOK
<1> QED
  BY <1>1, <1>2, RetriesAssumption DEF TypeOK, RunTyped, StartRun, Place

LEMMA ForgetTyped ==
  ASSUME TypeOK, NEW d \in Device, Forget(d)
  PROVE  /\ fresh' \in [Device -> BOOLEAN] /\ got' \in [Device -> Backup]
         /\ out' \in [Device -> Vault]
BY EmptyTyped DEF TypeOK, Forget

LEMMA EndTyped ==
  ASSUME TypeOK, NEW d \in Device, NEW result \in Result, EndRun(d, result)
  PROVE  RunTyped' /\ HeldTyped'
<1>1. EmptyVault \in Vault
  BY EmptyTyped
<1>2. RunTyped'
  BY <1>1, RetriesAssumption DEF TypeOK, RunTyped, EndRun, Place
<1>3. status' \in [Device -> Result]
  BY DEF TypeOK, EndRun, Result
<1>4. HeldTyped'
  BY <1>3, ForgetTyped DEF HeldTyped, EndRun
<1> QED
  BY <1>2, <1>4

LEMMA CleanUpTyped ==
  ASSUME TypeOK, NEW d \in Device, NEW s \in Vault, CleanUp(d, s)
  PROVE  RunTyped' /\ HeldTyped' /\ store' \in [Device -> Vault]
<1>1. RunTyped' /\ HeldTyped'
  BY EndTyped DEF CleanUp, Result
<1>2. \A cutoff : Expired(s, cutoff) \in Vault
  BY ExpiredTyped
<1> QED
  BY <1>1, <1>2 DEF CleanUp, TypeOK

LEMMA MergeTyped ==
  ASSUME TypeOK, NEW d \in Device, pc[d] = "merge", NEW on,
         Conclude(d, Apply(store[d], Merged(d), on), Apply(store[d], Merged(d), on))
  PROVE  TypeOK'
<1> DEFINE s == Apply(store[d], Merged(d), on)
<1>1. RunTyped /\ HeldTyped /\ UserTyped /\ cloud \in Backup
  BY TypedParts
<1>2. s \in Vault
  BY <1>1, MergedTyped, ApplyTyped DEF UserTyped
<1> HIDE DEF s
<1>3. Conclude(d, s, s)
  BY DEF s
<1>4. seen' \in [Device -> [Entry -> Nat]]
  BY <1>1, <1>2, <1>3, RememberTyped DEF Conclude, UserTyped
<1>5. RunTyped' /\ HeldTyped' /\ store' \in [Device -> Vault]
  <2>1. CASE NeedUpload(d, s)
    <3>1. EmptyVault \in Vault /\ NoBackup \in Backup
      BY EmptyTyped
    <3>2. attempt[d] # 0
      BY <1>1 DEF RunTyped
    <3>3. /\ pc' = [pc EXCEPT ![d] = IF got[d].there THEN "check" ELSE "create"]
          /\ store' = [store EXCEPT ![d] = s] /\ out' = [out EXCEPT ![d] = s]
          /\ snap' = [snap EXCEPT ![d] = EmptyVault] /\ got' = [got EXCEPT ![d] = NoBackup]
          /\ UNCHANGED <<fresh, attempt, began, status>>
      BY <1>3, <2>1 DEF Conclude
    <3>4. RunTyped'
      BY <1>1, <3>1, <3>2, <3>3 DEF RunTyped, Place
    <3>5. HeldTyped'
      BY <1>1, <1>2, <3>1, <3>3 DEF HeldTyped
    <3> QED
      BY <1>1, <1>2, <3>3, <3>4, <3>5 DEF UserTyped
  <2>2. CASE ~NeedUpload(d, s)
    BY <1>2, <1>3, <2>2, CleanUpTyped DEF Conclude
  <2> QED
    BY <2>1, <2>2
<1>6. UserTyped'
  BY <1>1, <1>3, <1>4, <1>5 DEF Conclude, UserTyped
<1>7. cloud' \in Backup
  BY <1>1, <1>3 DEF Conclude
<1> QED
  BY <1>5, <1>6, <1>7, TypedNext

LEMMA RunTypes ==
  ASSUME TypeOK, NEW d \in Device, RunStep(d)
  PROVE  TypeOK'
<1>1. RunTyped /\ HeldTyped /\ UserTyped /\ cloud \in Backup
  BY TypedParts
<1>2. EmptyVault \in Vault /\ NoBackup \in Backup
  BY EmptyTyped
<1>3. pc[d] # "idle" => attempt[d] # 0
  BY <1>1 DEF RunTyped
<1>4. CASE ReadBackup(d)
  <2>1. cloud.there \in BOOLEAN
    BY <1>1 DEF Backup
  <2>2. RunTyped'
    BY <1>1, <1>3, <1>4 DEF RunTyped, ReadBackup, Place
  <2>3. HeldTyped'
    BY <1>1, <1>4, <2>1 DEF HeldTyped, ReadBackup
  <2> QED
    BY <1>1, <1>4, <2>2, <2>3, TypedNext DEF UserTyped, ReadBackup
<1>5. CASE Merge(d)
  BY <1>5, MergeTyped DEF Merge
<1>6. CASE CheckVersion(d)
  <2>1. RunTyped'
    BY <1>1, <1>3, <1>6 DEF RunTyped, CheckVersion, Place
  <2> QED
    BY <1>1, <1>6, <2>1, TypedNext DEF HeldTyped, UserTyped, CheckVersion
<1>7. CASE VersionMismatch(d)
  <2>1. RunTyped' /\ HeldTyped'
    <3>1. CASE attempt[d] < MaxRetries
      <4>1. attempt[d] + 1 \in 1..MaxRetries
        BY <1>1, <3>1, RetriesAssumption DEF RunTyped
      <4>2. StartRun(d, attempt[d] + 1) /\ Forget(d) /\ UNCHANGED status
        BY <1>7, <3>1 DEF VersionMismatch
      <4> QED
        BY <1>1, <4>1, <4>2, StartTyped, ForgetTyped DEF HeldTyped
    <3>2. CASE ~(attempt[d] < MaxRetries)
      BY <1>7, <3>2, EndTyped DEF VersionMismatch, Result
    <3> QED
      BY <3>1, <3>2
  <2> QED
    BY <1>1, <1>7, <2>1, TypedNext DEF VersionMismatch, UserTyped
<1>8. CASE PatchFile(d) \/ UploadBackup(d)
  <2>1. Replace(d) /\ pc[d] # "idle"
    BY <1>8 DEF PatchFile, UploadBackup
  <2>2. cloud' \in Backup
    <3>1. out[d] \in Vault
      BY <1>1 DEF HeldTyped
    <3>2. out[d].row \in [Entry -> Row] /\ out[d].mark \in [Entry -> Nat]
      BY <3>1 DEF Vault, Row
    <3> QED
      BY <2>1, <3>2 DEF Replace, Backup, Row
  <2>3. RunTyped'
    BY <1>1, <1>3, <2>1 DEF RunTyped, Replace, Place
  <2>4. HeldTyped'
    BY <1>1, <1>2, <2>1 DEF HeldTyped, Replace
  <2> QED
    BY <1>1, <2>1, <2>2, <2>3, <2>4, TypedNext DEF UserTyped, Replace
<1>9. CASE Finish(d)
  <2>1. RunTyped' /\ HeldTyped' /\ store' \in [Device -> Vault]
    BY <1>1, <1>9, CleanUpTyped DEF Finish, UserTyped
  <2> QED
    BY <1>1, <1>9, <2>1, TypedNext DEF Finish, UserTyped
<1> QED
  BY <1>4, <1>5, <1>6, <1>7, <1>8, <1>9 DEF RunStep

LEMMA OtherTypes ==
  ASSUME TypeOK, NEW d \in Device, FailStep(d) \/ SyncImmediately(d) \/ OnTimeout(d)
  PROVE  TypeOK'
<1>1. RunTyped /\ HeldTyped /\ UserTyped /\ cloud \in Backup
  BY TypedParts
<1>2. 1 \in 1..MaxRetries
  BY RetriesAssumption
<1>3. CASE OnTimeoutLocked(d)
  <2>1. RunTyped' /\ HeldTyped'
    BY <1>3, EndTyped DEF OnTimeoutLocked, Result
  <2> QED
    BY <1>1, <1>3, <2>1, TypedNext DEF OnTimeoutLocked, UserTyped
<1>4. CASE MergeFails(d)
  <2>1. RunTyped' /\ HeldTyped'
    BY <1>4, EndTyped DEF MergeFails, Result
  <2>2. PICK on \in SUBSET Entry :
          LET s == Apply(store[d], Merged(d), on)
          IN store' = [store EXCEPT ![d] = s] /\ Remember(d, s)
    BY <1>4 DEF MergeFails
  <2>3. Apply(store[d], Merged(d), on) \in Vault
    BY <1>1, MergedTyped, ApplyTyped DEF UserTyped
  <2>4. seen' \in [Device -> [Entry -> Nat]]
    BY <1>1, <2>2, <2>3, RememberTyped DEF UserTyped
  <2>5. UserTyped' /\ cloud' \in Backup
    BY <1>1, <1>4, <2>2, <2>3, <2>4 DEF MergeFails, UserTyped
  <2> QED
    BY <2>1, <2>5, TypedNext
<1>5. CASE NetworkFails(d)
  <2>1. RunTyped' /\ HeldTyped'
    BY <1>5, EndTyped DEF NetworkFails, Result
  <2> QED
    BY <1>1, <1>5, <2>1, TypedNext DEF NetworkFails, UserTyped
<1>6. CASE Restart(d)
  <2>1. RunTyped' /\ HeldTyped'
    BY <1>6, EndTyped DEF Restart, Result
  <2> QED
    BY <1>1, <1>6, <2>1, TypedNext DEF Restart, UserTyped
<1>7. CASE SyncImmediately(d)
  <2>1. RunTyped'
    <3>1. CASE pc[d] = "idle"
      BY <1>2, <1>7, <3>1, StartTyped DEF SyncImmediately
    <3>2. CASE pc[d] # "idle"
      BY <1>1, <1>7, <3>2 DEF SyncImmediately, RunTyped
    <3> QED
      BY <3>1, <3>2
  <2> QED
    BY <1>1, <1>7, <2>1, TypedNext DEF SyncImmediately, HeldTyped, UserTyped
<1>8. CASE OnTimeout(d)
  <2>1. RunTyped'
    BY <1>2, <1>8, StartTyped DEF OnTimeout
  <2> QED
    BY <1>1, <1>8, <2>1, TypedNext DEF OnTimeout, HeldTyped, UserTyped
<1> QED
  BY <1>3, <1>4, <1>5, <1>6, <1>7, <1>8 DEF FailStep

LEMMA InitTyped == Init => TypeOK
<1> SUFFICES ASSUME Init PROVE TypeOK
  OBVIOUS
<1>1. EmptyVault \in Vault /\ NoBackup \in Backup /\ NoMarks \in [Entry -> Nat]
  BY EmptyTyped
<1>2. NoRows \in [Entry -> Row]
  BY Versions DEF NoRows
<1>3. RunTyped
  BY <1>1, RetriesAssumption DEF Init, RunTyped, Place
<1>4. HeldTyped
  BY <1>1 DEF Init, HeldTyped, Result
<1>5. UserTyped
  BY <1>1, <1>2, BoundAssumption DEF Init, UserTyped, Row
<1>6. cloud \in Backup
  BY <1>1, <1>2, FlagsAssumption DEF Init, Backup, Row
<1> QED
  BY <1>3, <1>4, <1>5, <1>6, TypedParts

LEMMA NextTyped == TypeOK /\ [Next]_vars => TypeOK'
<1> SUFFICES ASSUME TypeOK, [Next]_vars PROVE TypeOK'
  OBVIOUS
<1>1. CASE Next
  BY <1>1, UserTypes, RunTypes, OtherTypes DEF Next
<1>2. CASE UNCHANGED vars
  BY <1>2 DEF vars, job, TypeOK
<1> QED
  BY <1>1, <1>2

\* Every reachable state is well typed, however many devices and entries there
\* are, and a run makes at most MaxRetries attempts (PerformSync).
THEOREM TypeCorrect == Spec => []TypeOK
BY InitTyped, NextTyped, PTL DEF Spec

-----------------------------------------------------------------------------
(* Where versions come from. All copies of the vault, wherever they are     *)
(* held, follow from the copies there were before: an entry of one is kept, *)
(* forgotten, or met by an item of another.                                 *)

Copies ==
  {store[d] : d \in Device} \cup {snap[d] : d \in Device} \cup {got[d] : d \in Device}
    \cup {out[d] : d \in Device} \cup {cloud}
Sources == Copies \cup {EmptyVault, NoBackup}

Follows(v) ==
  \A e \in Entry :
    \E u \in Sources :
      \/ v.row[e] \in {u.row[e], NoVersion} /\ v.mark[e] \in {u.mark[e], 0}
      \/ \E w \in Sources : \E item \in {LocalItem(w, e), CloudItem(w, e)} :
           LET met == ApplyItem(u.row[e], u.mark[e], item)
           IN v.row[e] \in {met.row, NoVersion} /\ v.mark[e] \in {met.mark, 0}

LEMMA SourcesTyped ==
  ASSUME TypeOK
  PROVE  \A v \in Sources : v \in Vault \/ v \in Backup
BY EmptyTyped DEF TypeOK, Sources, Copies

LEMMA SourceFollows == ASSUME NEW v \in Sources PROVE Follows(v)
BY DEF Follows

LEMMA CopiesFollow ==
  ASSUME \A c \in Device : /\ Follows(store'[c]) /\ Follows(snap'[c])
                           /\ Follows(got'[c]) /\ Follows(out'[c]),
         Follows(cloud')
  PROVE  \A v \in Copies' : Follows(v)
BY DEF Copies

LEMMA NothingNew ==
  ASSUME \A c \in Device : /\ store'[c] \in Sources /\ snap'[c] \in Sources
                           /\ got'[c] \in Sources /\ out'[c] \in Sources,
         cloud' \in Sources
  PROVE  \A v \in Copies' : Follows(v)
BY SourceFollows, CopiesFollow

LEMMA MetFollows ==
  ASSUME TypeOK, NEW d \in Device, NEW on
  PROVE  Follows(Apply(store[d], Merged(d), on))
<1> DEFINE a == Apply(store[d], Merged(d), on)
<1>1. store[d] \in Vault /\ Merged(d) \in [Entry -> Version]
  BY MergedTyped DEF TypeOK
<1>2. \A e \in Entry :
        \/ /\ a.row[e] = ApplyItem(store[d].row[e], store[d].mark[e], Merged(d)[e]).row
           /\ a.mark[e] = ApplyItem(store[d].row[e], store[d].mark[e], Merged(d)[e]).mark
        \/ a.row[e] = store[d].row[e] /\ a.mark[e] = store[d].mark[e]
  BY <1>1, ApplyTyped
<1>3. store[d] \in Sources /\ snap[d] \in Sources /\ got[d] \in Sources
  BY DEF Sources, Copies
<1>4. \A e \in Entry : Merged(d)[e] \in {LocalItem(snap[d], e), CloudItem(got[d], e)}
  BY DEF Merged, MergeItem
<1> HIDE DEF a
<1>5. Follows(a)
  BY <1>2, <1>3, <1>4 DEF Follows
<1> QED
  BY <1>5 DEF a

LEMMA ExpiredFollows ==
  ASSUME NEW s \in Vault, Follows(s), NEW cutoff
  PROVE  Follows(Expired(s, cutoff))
BY ExpiredTyped DEF Follows

\* What is here now, and what an ending run leaves.
LEMMA HereAndEnd ==
  /\ cloud \in Sources /\ EmptyVault \in Sources /\ NoBackup \in Sources
  /\ \A c \in Device : store[c] \in Sources /\ snap[c] \in Sources /\ got[c] \in Sources
                       /\ out[c] \in Sources
BY DEF Sources, Copies

LEMMA EndSources ==
  ASSUME TypeOK, NEW d \in Device, NEW result, EndRun(d, result)
  PROVE  \A c \in Device : snap'[c] \in Sources /\ got'[c] \in Sources /\ out'[c] \in Sources
BY HereAndEnd DEF EndRun, Forget, TypeOK

LEMMA StartSources ==
  ASSUME TypeOK, NEW d \in Device, NEW n, StartRun(d, n)
  PROVE  \A c \in Device : snap'[c] \in Sources
BY HereAndEnd DEF StartRun, TypeOK

LEMMA CleanUpFollows ==
  ASSUME TypeOK, NEW d \in Device, NEW s \in Vault, Follows(s), CleanUp(d, s),
         cloud' = cloud
  PROVE  \A v \in Copies' : Follows(v)
<1>1. \A c \in Device : snap'[c] \in Sources /\ got'[c] \in Sources /\ out'[c] \in Sources
  BY EndSources DEF CleanUp
<1>2. PICK cutoff \in Cutoffs(d) : store' = [store EXCEPT ![d] = Expired(s, cutoff)]
  BY DEF CleanUp
<1>3. Follows(Expired(s, cutoff))
  BY ExpiredFollows
<1>4. \A c \in Device : Follows(store[c])
  BY HereAndEnd, SourceFollows
<1>5. \A c \in Device : Follows(store'[c])
  BY <1>2, <1>3, <1>4 DEF TypeOK
<1>6. Follows(cloud')
  BY HereAndEnd, SourceFollows
<1> QED
  BY <1>1, <1>5, <1>6, SourceFollows, CopiesFollow

LEMMA MergeFollows ==
  ASSUME TypeOK, NEW d \in Device, NEW s \in Vault, Follows(s), Conclude(d, s, s)
  PROVE  \A v \in Copies' : Follows(v)
<1>1. CASE NeedUpload(d, s)
  <2>1. \A c \in Device : snap'[c] \in Sources /\ got'[c] \in Sources
    BY <1>1, HereAndEnd DEF Conclude, TypeOK
  <2>2. \A c \in Device : Follows(store[c]) /\ Follows(out[c])
    BY HereAndEnd, SourceFollows
  <2>3. \A c \in Device : Follows(store'[c]) /\ Follows(out'[c])
    BY <1>1, <2>2 DEF Conclude, TypeOK
  <2>4. Follows(cloud')
    BY HereAndEnd, SourceFollows DEF Conclude
  <2> QED
    BY <2>1, <2>3, <2>4, SourceFollows, CopiesFollow
<1>2. CASE ~NeedUpload(d, s)
  BY <1>2, CleanUpFollows DEF Conclude
<1> QED
  BY <1>1, <1>2

LEMMA RunFollows ==
  ASSUME TypeOK, NEW d \in Device, RunStep(d)
  PROVE  \A v \in Copies' : Follows(v)
<1>1. CASE ReadBackup(d)
  BY <1>1, HereAndEnd, NothingNew DEF ReadBackup, TypeOK
<1>2. CASE Merge(d)
  <2>1. PICK on \in WrittenSets(store[d], Merged(d)) :
          LET s == Apply(store[d], Merged(d), on) IN Conclude(d, s, s)
    BY <1>2 DEF Merge
  <2>2. Apply(store[d], Merged(d), on) \in Vault
    BY MergedTyped, ApplyTyped DEF TypeOK
  <2> QED
    BY <2>1, <2>2, MetFollows, MergeFollows
<1>3. CASE CheckVersion(d)
  BY <1>3, HereAndEnd, NothingNew DEF CheckVersion
<1>4. CASE VersionMismatch(d)
  <2>1. \A c \in Device : snap'[c] \in Sources /\ got'[c] \in Sources /\ out'[c] \in Sources
    <3>1. CASE attempt[d] < MaxRetries
      <4>1. StartRun(d, attempt[d] + 1) /\ Forget(d)
        BY <1>4, <3>1 DEF VersionMismatch
      <4> QED
        BY <4>1, StartSources, HereAndEnd DEF Forget, TypeOK
    <3>2. CASE ~(attempt[d] < MaxRetries)
      BY <1>4, <3>2, EndSources DEF VersionMismatch
    <3> QED
      BY <3>1, <3>2
  <2> QED
    BY <1>4, <2>1, HereAndEnd, NothingNew DEF VersionMismatch
<1>5. CASE PatchFile(d) \/ UploadBackup(d)
  <2>1. Replace(d)
    BY <1>5 DEF PatchFile, UploadBackup
  <2>2. cloud'.row = out[d].row /\ cloud'.mark = out[d].mark /\ out[d] \in Sources
    BY <2>1, HereAndEnd DEF Replace
  <2>3. Follows(cloud')
    BY <2>2 DEF Follows
  <2>4. \A c \in Device : /\ store'[c] \in Sources /\ snap'[c] \in Sources
                          /\ got'[c] \in Sources /\ out'[c] \in Sources
    BY <2>1, HereAndEnd DEF Replace, TypeOK
  <2> QED
    BY <2>3, <2>4, SourceFollows, CopiesFollow
<1>6. CASE Finish(d)
  <2>1. store[d] \in Vault /\ Follows(store[d])
    BY HereAndEnd, SourceFollows DEF TypeOK
  <2> QED
    BY <1>6, <2>1, CleanUpFollows DEF Finish
<1> QED
  BY <1>1, <1>2, <1>3, <1>4, <1>5, <1>6 DEF RunStep

LEMMA OthersFollow ==
  ASSUME TypeOK, NEW d \in Device, FailStep(d) \/ SyncImmediately(d) \/ OnTimeout(d)
  PROVE  \A v \in Copies' : Follows(v)
<1>1. CASE OnTimeoutLocked(d)
  BY <1>1, EndSources, HereAndEnd, NothingNew DEF OnTimeoutLocked
<1>2. CASE MergeFails(d)
  <2>1. PICK on \in SUBSET Entry :
          store' = [store EXCEPT ![d] = Apply(store[d], Merged(d), on)]
    BY <1>2 DEF MergeFails
  <2>2. \A c \in Device : Follows(store[c])
    BY HereAndEnd, SourceFollows
  <2>3. \A c \in Device : Follows(store'[c])
    BY <2>1, <2>2, MetFollows DEF TypeOK
  <2>4. \A c \in Device : snap'[c] \in Sources /\ got'[c] \in Sources /\ out'[c] \in Sources
    BY <1>2, EndSources DEF MergeFails
  <2>5. cloud' \in Sources
    BY <1>2, HereAndEnd DEF MergeFails
  <2> QED
    BY <2>3, <2>4, <2>5, SourceFollows, CopiesFollow
<1>3. CASE NetworkFails(d)
  BY <1>3, EndSources, HereAndEnd, NothingNew DEF NetworkFails
<1>4. CASE Restart(d)
  BY <1>4, EndSources, HereAndEnd, NothingNew DEF Restart
<1>5. CASE SyncImmediately(d)
  <2>1. \A c \in Device : snap'[c] \in Sources
    BY <1>5, StartSources, HereAndEnd DEF SyncImmediately
  <2> QED
    BY <1>5, <2>1, HereAndEnd, NothingNew DEF SyncImmediately
<1>6. CASE OnTimeout(d)
  BY <1>6, StartSources, HereAndEnd, NothingNew DEF OnTimeout
<1> QED
  BY <1>1, <1>2, <1>3, <1>4, <1>5, <1>6 DEF FailStep

-----------------------------------------------------------------------------
(* What the user writes.                                                    *)

\* A row beside the marker there is, or a marker in place of the row.
Writes(d, e, row, mark) ==
  /\ Write(d, e, row, mark)
  /\ \/ /\ IsRow(row) /\ mark = store[d].mark[e]
        /\ row.ts \in {Now(d), Larger(store[d].row[e].ts + 1, Now(d))}
        /\ \/ newest[e] = NoVersion \/ IsRow(store[d].row[e])
           \/ store[d].mark[e] = 0 \/ ReimportsDeleted
     \/ /\ row = NoVersion
        /\ mark = Larger(store[d].mark[e], Larger(store[d].row[e].ts, Now(d)))

LEMMA UserWrites ==
  ASSUME TypeOK, NEW d \in Device, NEW e \in Entry, UserStep(d, e)
  PROVE  \E row \in Row, mark \in Nat : Writes(d, e, row, mark)
<1>1. store[d].row[e] \in Row /\ store[d].mark[e] \in Nat
  BY ItemTyped DEF TypeOK
<1>2. Now(d) \in Nat /\ store[d].row[e].ts \in Nat /\ store[d].row[e].ts + 1 \in Nat
  BY <1>1, NowTyped DEF Row, Version
<1>3. \A t \in Nat : /\ Live(t) \in Row /\ Trash(t) \in Row
                     /\ IsRow(Live(t)) /\ IsRow(Trash(t))
                     /\ Live(t).ts = t /\ Trash(t).ts = t
  BY Versions DEF IsRow, Live, Trash
<1>4. CASE CreateEntry(d, e)
  BY <1>1, <1>2, <1>3, <1>4 DEF CreateEntry, Writes
<1>5. CASE EditEntry(d, e)
  <2>1. Larger(store[d].row[e].ts + 1, Now(d)) \in Nat
    BY <1>2, LargerTyped
  <2>2. IsRow(store[d].row[e])
    BY <1>5 DEF EditEntry, IsRow
  <2> QED
    BY <1>1, <1>3, <1>5, <2>1, <2>2 DEF EditEntry, Writes
<1>6. CASE ImportEntry(d, e)
  BY <1>1, <1>2, <1>3, <1>6 DEF ImportEntry, Writes
<1>7. CASE MoveToTrash(d, e)
  BY <1>1, <1>2, <1>3, <1>7 DEF MoveToTrash, Writes
<1>8. CASE RestoreEntry(d, e)
  <2>1. IsRow(store[d].row[e])
    BY <1>8 DEF RestoreEntry, IsRow
  <2> QED
    BY <1>1, <1>2, <1>3, <1>8, <2>1 DEF RestoreEntry, Writes
<1>9. CASE PermanentlyDelete(d, e)
  <2>1. Larger(store[d].row[e].ts, Now(d)) \in Nat
    BY <1>2, LargerTyped
  <2>2. Larger(store[d].mark[e], Larger(store[d].row[e].ts, Now(d))) \in Nat
    BY <1>1, <2>1, LargerTyped
  <2> QED
    BY <1>9, <2>2, Versions DEF PermanentlyDelete, Writes
<1> QED
  BY <1>4, <1>5, <1>6, <1>7, <1>8, <1>9 DEF UserStep

\* The copies afterwards: those of before, but for the entry written.
LEMMA WrittenCopies ==
  ASSUME TypeOK, NEW d \in Device, NEW e \in Entry, NEW row \in Row, NEW mark \in Nat,
         Write(d, e, row, mark)
  PROVE  /\ \A v \in Copies' : \A f \in Entry :
              \/ \E u \in Copies : v.row[f] = u.row[f] /\ v.mark[f] = u.mark[f]
              \/ f = e /\ v.row[f] = row /\ v.mark[f] = mark
         /\ \A c \in Device : c # d => store'[c] = store[c]
         /\ store'[d].row[e] = row /\ store'[d].mark[e] = mark
         /\ \A f \in Entry : f # e => /\ store'[d].row[f] = store[d].row[f]
                                    /\ store'[d].mark[f] = store[d].mark[f]
<1> DEFINE s == [row |-> [store[d].row EXCEPT ![e] = row],
                 mark |-> [store[d].mark EXCEPT ![e] = mark]]
<1>1. store[d].row \in [Entry -> Row] /\ store[d].mark \in [Entry -> Nat]
  BY VaultTyped DEF TypeOK
<1>2. /\ s.row[e] = row /\ s.mark[e] = mark
      /\ \A f \in Entry : f # e => s.row[f] = store[d].row[f] /\ s.mark[f] = store[d].mark[f]
  BY <1>1
<1>3. store' = [store EXCEPT ![d] = s] /\ UNCHANGED <<cloud, snap, got, out>>
  BY DEF Write, job
<1> HIDE DEF s
<1>4. store'[d] = s /\ \A c \in Device : c # d => store'[c] = store[c]
  BY <1>3 DEF TypeOK
<1>5. \A v \in Copies' : v \in Copies \/ v = s
  BY <1>3, <1>4 DEF Copies
<1>6. store[d] \in Copies
  BY DEF Copies
<1> QED
  BY <1>2, <1>4, <1>5, <1>6

-----------------------------------------------------------------------------
(* A row or a marker, never both.                                           *)

\* A version no user has given an entry is nowhere, and no row has no stamp.
Apart(v, e) ==
  /\ v.mark[e] = 0 \/ ~IsRow(v.row[e])
  /\ v.row[e].kind = "none" => v.row[e] = NoVersion
  /\ newest[e] = NoVersion => v.row[e] = NoVersion /\ v.mark[e] = 0
EitherOr == \A v \in Copies, e \in Entry : Apart(v, e)

LEMMA FollowsApart ==
  ASSUME TypeOK, EitherOr, newest' = newest, \A v \in Copies' : Follows(v)
  PROVE  EitherOr'
<1>1. \A v \in Sources, e \in Entry : Apart(v, e)
  BY DEF EitherOr, Sources, Apart, EmptyVault, NoBackup, NoRows, NoMarks
<1>2. ASSUME NEW v \in Copies', NEW e \in Entry
      PROVE  Apart(v, e)
  <2>1. PICK u \in Sources :
          \/ v.row[e] \in {u.row[e], NoVersion} /\ v.mark[e] \in {u.mark[e], 0}
          \/ \E w \in Sources : \E item \in {LocalItem(w, e), CloudItem(w, e)} :
               LET met == ApplyItem(u.row[e], u.mark[e], item)
               IN v.row[e] \in {met.row, NoVersion} /\ v.mark[e] \in {met.mark, 0}
    BY <1>2 DEF Follows
  <2>2. ~IsRow(NoVersion)
    BY DEF IsRow, NoVersion
  <2>3. CASE v.row[e] \in {u.row[e], NoVersion} /\ v.mark[e] \in {u.mark[e], 0}
    BY <1>1, <2>2, <2>3 DEF Apart
  <2>4. ASSUME NEW w \in Sources, NEW item \in {LocalItem(w, e), CloudItem(w, e)},
               v.row[e] \in {ApplyItem(u.row[e], u.mark[e], item).row, NoVersion},
               v.mark[e] \in {ApplyItem(u.row[e], u.mark[e], item).mark, 0}
        PROVE  Apart(v, e)
    <3>1. newest[e] = NoVersion => item = NoVersion
      BY <1>1 DEF Apart, LocalItem, CloudItem
    <3>2. LET met == ApplyItem(u.row[e], u.mark[e], item)
          IN /\ met.mark = 0 \/ ~IsRow(met.row)
             /\ met.row.kind = "none" => met.row = NoVersion
             /\ newest[e] = NoVersion => met.row = NoVersion /\ met.mark = 0
      BY <1>1, <2>2, <3>1 DEF Apart, ApplyItem, NoVersion
    <3> QED
      BY <2>2, <2>4, <3>2 DEF Apart
  <2> QED
    BY <2>1, <2>3, <2>4
<1> QED
  BY <1>2 DEF EitherOr, Apart

LEMMA WriteApart ==
  ASSUME TypeOK, EitherOr, ~ReimportsDeleted, NEW d \in Device, NEW e \in Entry,
         NEW row \in Row, NEW mark \in Nat, Writes(d, e, row, mark)
  PROVE  EitherOr'
<1>1. (mark = 0 \/ ~IsRow(row)) /\ (row.kind = "none" => row = NoVersion)
  <2>1. Apart(store[d], e)
    BY DEF EitherOr, Copies
  <2> QED
    BY <2>1 DEF Writes, Apart, IsRow, NoVersion
<1>2. newest'[e] # NoVersion /\ \A f \in Entry : f # e => newest'[f] = newest[f]
  BY DEF Writes, Write, TypeOK, NoVersion, Gone
<1>3. \A v \in Copies' : \A f \in Entry :
         \/ \E u \in Copies : v.row[f] = u.row[f] /\ v.mark[f] = u.mark[f]
         \/ f = e /\ v.row[f] = row /\ v.mark[f] = mark
  BY WrittenCopies DEF Writes
<1>4. \A v \in Copies', f \in Entry :
        /\ v.mark[f] = 0 \/ ~IsRow(v.row[f])
        /\ v.row[f].kind = "none" => v.row[f] = NoVersion
        /\ newest'[f] = NoVersion => v.row[f] = NoVersion /\ v.mark[f] = 0
  BY <1>1, <1>2, <1>3 DEF EitherOr, Apart
<1> QED
  BY <1>4 DEF EitherOr, Apart

LEMMA InitApart == Init => EitherOr
BY DEF Init, EitherOr, Copies, Apart, EmptyVault, NoBackup, NoRows, NoMarks

LEMMA NewestStays ==
  ASSUME NEW d \in Device, RunStep(d) \/ FailStep(d) \/ SyncImmediately(d) \/ OnTimeout(d)
  PROVE  newest' = newest /\ clock' = clock
BY DEF RunStep, FailStep, ReadBackup, Merge, CheckVersion, VersionMismatch, PatchFile,
       UploadBackup, Replace, Finish, Conclude, OnTimeoutLocked, MergeFails, NetworkFails,
       Restart, SyncImmediately, OnTimeout

LEMMA NextApart ==
  ASSUME ~ReimportsDeleted
  PROVE  TypeOK /\ EitherOr /\ [Next]_vars => EitherOr'
<1> SUFFICES ASSUME TypeOK, EitherOr, [Next]_vars PROVE EitherOr'
  OBVIOUS
<1>1. ASSUME NEW d \in Device, NEW e \in Entry, UserStep(d, e)
      PROVE  EitherOr'
  BY <1>1, UserWrites, WriteApart
<1>2. ASSUME NEW d \in Device, RunStep(d) \/ FailStep(d) \/ SyncImmediately(d) \/ OnTimeout(d)
      PROVE  EitherOr'
  BY <1>2, RunFollows, OthersFollow, NewestStays, FollowsApart
<1>3. CASE UNCHANGED vars
  BY <1>3 DEF vars, job, EitherOr, Copies, Apart
<1> QED
  BY <1>1, <1>2, <1>3 DEF Next

\* Where no user imports an export that names a deleted uuid, an entry has a row
\* or a deletion marker on every device, never both: what ToPayload of the
\* password change refuses cannot come from ApplySyncedEntry, ApplyDeletionMarker,
\* the retries or the clean-up, whatever the clocks and losses.
THEOREM NeverBoth ==
  ASSUME ~ReimportsDeleted
  PROVE  Spec => []RowXorMarker
<1>1. EitherOr => RowXorMarker
  BY DEF EitherOr, Apart, Copies, RowXorMarker
<1>2. Init => EitherOr
  BY InitApart
<1>3. TypeOK /\ EitherOr /\ [Next]_vars => EitherOr'
  BY NextApart
<1>4. Spec => []TypeOK
  BY TypeCorrect
<1> QED
  BY <1>1, <1>2, <1>3, <1>4, PTL DEF Spec

-----------------------------------------------------------------------------
(* Clocks in step: every copy is the newest version or an older one and,    *)
(* while no deletion is forgotten, the newest version wins.                 *)

InStep == \A c, d \in Device : Ahead[c] = Ahead[d]

\* The newest version, or an older one.
Known(e, v) == v.ts <= newest[e].ts /\ (v.ts = newest[e].ts => v = newest[e])
KnownIn(v, e) ==
  /\ Known(e, v.row[e])
  /\ v.row[e].kind = "none" => v.row[e] = NoVersion
  /\ v.mark[e] = 0 \/ Known(e, Gone(v.mark[e]))
NothingNewer == \A v \in Copies, e \in Entry : KnownIn(v, e)

\* No stamp is ahead of the clocks.
Stamped ==
  \A e \in Entry :
    /\ newest[e].kind = "none" \/ newest[e].ts = 0 => newest[e] = NoVersion
    /\ \A d \in Device : newest[e].ts <= clock + Ahead[d]

\* A device still holds the best it has held.
Best == \A d \in Device, e \in Entry : LocalItem(store[d], e).ts = seen[d][e]

\* Somebody holds what the last user action made.
Owned ==
  \A e \in Entry :
    \/ newest[e] = NoVersion
    \/ \E d \in Device : LocalItem(store[d], e) = newest[e]

LEMMA KnownItem ==
  ASSUME NEW v, v \in Vault \/ v \in Backup, NEW e \in Entry, KnownIn(v, e)
  PROVE  /\ Known(e, LocalItem(v, e)) /\ Known(e, CloudItem(v, e))
         /\ \A item \in {LocalItem(v, e), CloudItem(v, e)} :
              /\ item \in Version
              /\ item.kind = "none" => item = NoVersion
              /\ item.kind = "gone" => item = Gone(item.ts) /\ item.ts > 0
<1>1. /\ v.row[e] \in Row /\ v.mark[e] \in Nat
      /\ LocalItem(v, e) \in Version /\ CloudItem(v, e) \in Version
  BY ItemTyped
<1>2. /\ LocalItem(v, e) = Gone(v.mark[e]) /\ v.mark[e] # 0
      \/ LocalItem(v, e) = v.row[e]
  BY DEF LocalItem
<1>3. /\ CloudItem(v, e) = Gone(v.mark[e]) /\ v.mark[e] # 0
      \/ CloudItem(v, e) = v.row[e]
  BY DEF CloudItem
<1>4. \A m \in Nat : Gone(m).kind = "gone" /\ Gone(m).ts = m
  BY DEF Gone
<1>5. v.row[e].kind # "gone"
  BY <1>1 DEF Row
<1> QED
  BY <1>1, <1>2, <1>3, <1>4, <1>5 DEF KnownIn

\* A merged item that is written replaces nothing newer, and only by a known one.
LEMMA MetKnown ==
  ASSUME NEW e \in Entry, newest[e] \in Version, NEW u, u \in Vault \/ u \in Backup,
         KnownIn(u, e), NEW item \in Version, Known(e, item),
         item.kind = "none" => item = NoVersion,
         item.kind = "gone" => item = Gone(item.ts) /\ item.ts > 0
  PROVE  LET met == ApplyItem(u.row[e], u.mark[e], item)
         IN /\ met.row = NoVersion \/ Known(e, met.row)
            /\ met.row.kind = "none" => met.row = NoVersion
            /\ met.mark = 0 \/ Known(e, Gone(met.mark))
<1> DEFINE met == ApplyItem(u.row[e], u.mark[e], item)
<1>1. u.row[e] \in Row /\ u.mark[e] \in Nat
  BY ItemTyped
<1>2. CASE item.kind = "none" \/ (IsRow(u.row[e]) /\ u.row[e].ts >= item.ts)
  BY <1>2 DEF ApplyItem, KnownIn
<1>3. CASE ~(item.kind = "none" \/ (IsRow(u.row[e]) /\ u.row[e].ts >= item.ts)) /\ item.kind = "gone"
  <2>1. met.row = NoVersion /\ met.mark = Larger(u.mark[e], item.ts)
    BY <1>3 DEF ApplyItem
  <2>2. met.mark = u.mark[e] \/ met.mark = item.ts
    BY <2>1 DEF Larger
  <2>3. met.mark = u.mark[e] \/ Gone(met.mark) = item
    BY <1>3, <2>2
  <2> QED
    BY <2>1, <2>3 DEF KnownIn
<1>4. CASE ~(item.kind = "none" \/ (IsRow(u.row[e]) /\ u.row[e].ts >= item.ts)) /\ item.kind # "gone"
  BY <1>4 DEF ApplyItem, KnownIn
<1> QED
  BY <1>2, <1>3, <1>4

LEMMA FollowsKnown ==
  ASSUME TypeOK, NothingNewer, Stamped, newest' = newest, \A v \in Copies' : Follows(v)
  PROVE  NothingNewer'
<1>1. \A e \in Entry : newest[e] \in Version /\ newest[e].ts \in Nat
  BY DEF TypeOK, Version
<1>2. \A e \in Entry : Known(e, NoVersion)
  BY <1>1 DEF Stamped, Known, NoVersion
<1>3. \A v \in Sources : (v \in Vault \/ v \in Backup) /\ \A e \in Entry : KnownIn(v, e)
  <2>1. \A e \in Entry : KnownIn(EmptyVault, e) /\ KnownIn(NoBackup, e)
    BY <1>2 DEF KnownIn, EmptyVault, NoBackup, NoRows, NoMarks
  <2> QED
    BY <2>1, SourcesTyped DEF NothingNewer, Sources
<1>4. ASSUME NEW v \in Copies', NEW e \in Entry
      PROVE  KnownIn(v, e)
  <2>1. PICK u \in Sources :
          \/ v.row[e] \in {u.row[e], NoVersion} /\ v.mark[e] \in {u.mark[e], 0}
          \/ \E w \in Sources : \E item \in {LocalItem(w, e), CloudItem(w, e)} :
               LET met == ApplyItem(u.row[e], u.mark[e], item)
               IN v.row[e] \in {met.row, NoVersion} /\ v.mark[e] \in {met.mark, 0}
    BY <1>4 DEF Follows
  <2>2. CASE v.row[e] \in {u.row[e], NoVersion} /\ v.mark[e] \in {u.mark[e], 0}
    BY <1>2, <1>3, <2>2 DEF KnownIn
  <2>3. ASSUME NEW w \in Sources, NEW item \in {LocalItem(w, e), CloudItem(w, e)},
               v.row[e] \in {ApplyItem(u.row[e], u.mark[e], item).row, NoVersion},
               v.mark[e] \in {ApplyItem(u.row[e], u.mark[e], item).mark, 0}
        PROVE  KnownIn(v, e)
    <3>1. /\ Known(e, item) /\ item \in Version
          /\ item.kind = "none" => item = NoVersion
          /\ item.kind = "gone" => item = Gone(item.ts) /\ item.ts > 0
      BY <1>3, KnownItem
    <3>2. LET met == ApplyItem(u.row[e], u.mark[e], item)
          IN /\ met.row = NoVersion \/ Known(e, met.row)
             /\ met.row.kind = "none" => met.row = NoVersion
             /\ met.mark = 0 \/ Known(e, Gone(met.mark))
      BY <1>1, <1>3, <3>1, MetKnown
    <3> QED
      BY <1>2, <2>3, <3>2 DEF KnownIn
  <2> QED
    BY <2>1, <2>2, <2>3
<1> QED
  BY <1>4 DEF NothingNewer, KnownIn, Known

\* While no deletion expires, a step of a run writes a merge or nothing.
LEMMA Kept ==
  ASSUME NEW s \in Vault
  PROVE  Expired(s, 0) = s
<1>1. \A e \in Entry : s.row[e] \in Row /\ s.mark[e] \in Nat /\ s.row[e].ts \in Nat
  BY ItemTyped DEF Row, Version
<1>2. s.row \in [Entry -> Row] /\ s.mark \in [Entry -> Nat] /\ s = [row |-> s.row, mark |-> s.mark]
  BY VaultTyped
<1> DEFINE x == Expired(s, 0)
<1>3. x.row = [e \in Entry |-> s.row[e]] /\ x.mark = [e \in Entry |-> s.mark[e]]
  BY <1>1 DEF Expired
<1>4. x = [row |-> x.row, mark |-> x.mark]
  BY DEF Expired
<1> QED
  BY <1>2, <1>3, <1>4

LEMMA WhatARunWrites ==
  ASSUME TypeOK, ~Expires, NEW d \in Device,
         RunStep(d) \/ FailStep(d) \/ SyncImmediately(d) \/ OnTimeout(d)
  PROVE  \/ UNCHANGED <<store, seen>>
         \/ \E on : LET s == Apply(store[d], Merged(d), on)
                   IN store' = [store EXCEPT ![d] = s] /\ Remember(d, s)
<1>1. ASSUME NEW s \in Vault, CleanUp(d, s)
      PROVE  store' = [store EXCEPT ![d] = s]
  BY <1>1, Kept DEF CleanUp, Cutoffs
<1>2. \A on : Apply(store[d], Merged(d), on) \in Vault
  BY MergedTyped, ApplyTyped DEF TypeOK
<1>3. CASE Merge(d)
  <2>1. PICK on \in WrittenSets(store[d], Merged(d)) :
          LET s == Apply(store[d], Merged(d), on) IN Conclude(d, s, s)
    BY <1>3 DEF Merge
  <2> DEFINE s == Apply(store[d], Merged(d), on)
  <2>2. s \in Vault /\ Conclude(d, s, s)
    BY <1>2, <2>1
  <2> HIDE DEF s
  <2>3. store' = [store EXCEPT ![d] = s] /\ Remember(d, s)
    BY <1>1, <2>2 DEF Conclude
  <2> QED
    BY <2>3 DEF s
<1>4. CASE MergeFails(d)
  BY <1>4 DEF MergeFails
<1>5. CASE Finish(d)
  <2>1. store[d] \in Vault
    BY DEF TypeOK
  <2>2. store' = [store EXCEPT ![d] = store[d]]
    BY <1>1, <1>5, <2>1 DEF Finish
  <2> QED
    BY <1>5, <2>2 DEF Finish, TypeOK
<1>6. CASE ReadBackup(d) \/ CheckVersion(d) \/ VersionMismatch(d) \/ PatchFile(d) \/ UploadBackup(d)
  BY <1>6 DEF ReadBackup, CheckVersion, VersionMismatch, PatchFile, UploadBackup, Replace
<1>7. CASE OnTimeoutLocked(d) \/ NetworkFails(d) \/ Restart(d) \/ SyncImmediately(d) \/ OnTimeout(d)
  BY <1>7 DEF OnTimeoutLocked, NetworkFails, Restart, SyncImmediately, OnTimeout
<1> QED
  BY <1>3, <1>4, <1>5, <1>6, <1>7 DEF RunStep, FailStep

\* What a device offers for an entry does not become older by a merge.
LEMMA MetRises ==
  ASSUME NEW e \in Entry, NEW u \in Vault, u.row[e].kind = "none" => u.row[e] = NoVersion,
         NEW item \in Version, item.kind = "gone" => item.ts > 0,
         NEW a \in Vault,
         a.row[e] = ApplyItem(u.row[e], u.mark[e], item).row,
         a.mark[e] = ApplyItem(u.row[e], u.mark[e], item).mark
  PROVE  LocalItem(a, e).ts >= LocalItem(u, e).ts
<1> DEFINE r == u.row[e]  m == u.mark[e]
<1>1. r \in Row /\ m \in Nat /\ r.ts \in Nat /\ item.ts \in Nat /\ item.kind \in Kind
  BY ItemTyped DEF Row, Version
<1>2. LocalItem(u, e).ts \in Nat /\ LocalItem(a, e).ts \in Nat
  BY ItemTyped DEF Version
<1>3. r.kind = "none" => r.ts = 0
  BY DEF NoVersion
<1>4. r.kind # "none" => IsRow(r)
  BY <1>1 DEF Row, Version, Kind, IsRow
<1>5. CASE item.kind = "none" \/ (IsRow(r) /\ r.ts >= item.ts)
  BY <1>2, <1>5 DEF ApplyItem, LocalItem
<1>6. CASE ~(item.kind = "none" \/ (IsRow(r) /\ r.ts >= item.ts)) /\ item.kind = "gone"
  <2>1. a.row[e] = NoVersion /\ a.mark[e] = Larger(m, item.ts)
    BY <1>6 DEF ApplyItem
  <2>2. a.mark[e] > 0 /\ a.mark[e] >= m /\ a.mark[e] >= item.ts /\ a.mark[e] \in Nat
    <3>1. item.ts > 0
      BY <1>6
    <3>2. /\ Larger(m, item.ts) \in Nat /\ Larger(m, item.ts) >= m
          /\ Larger(m, item.ts) >= item.ts
      BY <1>1, LargerTyped
    <3> QED
      BY <1>1, <2>1, <3>1, <3>2
  <2>3. LocalItem(a, e).ts = a.mark[e]
    BY <2>1, <2>2 DEF LocalItem, NoVersion, Gone
  <2>4. r.ts < item.ts \/ r.ts = 0
    BY <1>1, <1>3, <1>4, <1>6
  <2>5. LocalItem(u, e).ts = m \/ LocalItem(u, e).ts = r.ts
    BY DEF LocalItem, Gone
  <2> QED
    BY <1>1, <2>2, <2>3, <2>4, <2>5
<1>7. CASE ~(item.kind = "none" \/ (IsRow(r) /\ r.ts >= item.ts)) /\ item.kind # "gone"
  <2>1. CASE m # 0 /\ m >= item.ts
    BY <1>2, <1>7, <2>1 DEF ApplyItem, LocalItem
  <2>2. CASE ~(m # 0 /\ m >= item.ts)
    <3>1. a.row[e] = item /\ a.mark[e] = 0
      BY <1>7, <2>2 DEF ApplyItem
    <3>2. LocalItem(a, e) = item
      BY <3>1 DEF LocalItem
    <3>3. LocalItem(u, e).ts = m \/ LocalItem(u, e).ts = r.ts
      BY DEF LocalItem, Gone
    <3>4. m <= item.ts /\ r.ts <= item.ts
      BY <1>1, <1>3, <1>4, <1>7, <2>2
    <3> QED
      BY <1>1, <3>2, <3>3, <3>4
  <2> QED
    BY <2>1, <2>2
<1> QED
  BY <1>5, <1>6, <1>7

LEMMA MergeRises ==
  ASSUME TypeOK, NothingNewer, NEW d \in Device, NEW on, NEW e \in Entry
  PROVE  LET s == Apply(store[d], Merged(d), on)
         IN s \in Vault /\ LocalItem(s, e).ts >= LocalItem(store[d], e).ts
<1> DEFINE s == Apply(store[d], Merged(d), on)  u == store[d]  item == Merged(d)[e]
<1>1. u \in Vault /\ Merged(d) \in [Entry -> Version] /\ item \in Version
  BY MergedTyped DEF TypeOK
<1>2. /\ s \in Vault
      /\ \/ /\ s.row[e] = ApplyItem(u.row[e], u.mark[e], item).row
            /\ s.mark[e] = ApplyItem(u.row[e], u.mark[e], item).mark
         \/ s.row[e] = u.row[e] /\ s.mark[e] = u.mark[e]
  BY <1>1, ApplyTyped
<1>3. KnownIn(u, e) /\ KnownIn(snap[d], e) /\ KnownIn(got[d], e)
  BY DEF NothingNewer, Copies
<1>4. item.kind = "gone" => item.ts > 0
  <2>1. item \in {LocalItem(snap[d], e), CloudItem(got[d], e)}
    BY DEF Merged, MergeItem
  <2>2. snap[d] \in Vault /\ got[d] \in Backup
    BY DEF TypeOK
  <2> QED
    BY <1>3, <2>1, <2>2, KnownItem
<1>5. u.row[e].kind = "none" => u.row[e] = NoVersion
  BY <1>3 DEF KnownIn
<1>6. CASE s.row[e] = u.row[e] /\ s.mark[e] = u.mark[e]
  <2>1. LocalItem(s, e) = LocalItem(u, e) /\ LocalItem(u, e).ts \in Nat
    BY <1>1, <1>6, ItemTyped DEF LocalItem, Version
  <2> QED
    BY <1>2, <2>1
<1>7. CASE /\ s.row[e] = ApplyItem(u.row[e], u.mark[e], item).row
           /\ s.mark[e] = ApplyItem(u.row[e], u.mark[e], item).mark
  <2> HIDE DEF s, item
  <2>1. LocalItem(s, e).ts >= LocalItem(u, e).ts
    BY <1>1, <1>2, <1>4, <1>5, <1>7, MetRises
  <2> QED
    BY <1>2, <2>1 DEF s
<1> QED
  BY <1>2, <1>6, <1>7

LEMMA RunKeeps ==
  ASSUME TypeOK, NothingNewer, Best, Owned, ~Expires, NEW d \in Device,
         RunStep(d) \/ FailStep(d) \/ SyncImmediately(d) \/ OnTimeout(d),
         newest' = newest, NothingNewer', TypeOK'
  PROVE  Best' /\ Owned'
<1>1. CASE UNCHANGED <<store, seen>>
  BY <1>1 DEF Best, Owned
<1>2. ASSUME NEW on, LET s == Apply(store[d], Merged(d), on)
                     IN store' = [store EXCEPT ![d] = s] /\ Remember(d, s)
      PROVE  Best' /\ Owned'
  <2> DEFINE s == Apply(store[d], Merged(d), on)
  <2>1. \A e \in Entry : s \in Vault /\ LocalItem(s, e).ts >= LocalItem(store[d], e).ts
    BY MergeRises
  <2>2. store' = [store EXCEPT ![d] = s] /\ Remember(d, s)
    BY <1>2
  <2> HIDE DEF s
  <2>3. store'[d] = s /\ \A c \in Device : c # d => store'[c] = store[c]
    BY <2>2 DEF TypeOK
  <2>4. \A e \in Entry : /\ LocalItem(s, e).ts \in Nat
                         /\ LocalItem(store[d], e).ts \in Nat
    <3>1. store[d] \in Vault
      BY DEF TypeOK
    <3> QED
      BY <2>1, <3>1, ItemTyped DEF Version
  <2>5. ASSUME NEW c \in Device, NEW e \in Entry
        PROVE  LocalItem(store'[c], e).ts = seen'[c][e]
    <3>1. LocalItem(store[c], e).ts = seen[c][e]
      BY DEF Best
    <3>2. CASE c # d
      BY <2>2, <2>3, <3>1, <3>2 DEF Remember, TypeOK
    <3>3. CASE c = d
      <4>1. seen'[d][e] = Larger(seen[d][e], LocalItem(s, e).ts)
        BY <2>2 DEF Remember, TypeOK
      <4>2. Larger(seen[d][e], LocalItem(s, e).ts) = LocalItem(s, e).ts
        BY <2>1, <2>4, <3>1, <3>3 DEF Larger
      <4> QED
        BY <2>3, <3>3, <4>1, <4>2
    <3> QED
      BY <3>2, <3>3
  <2>6. Best'
    BY <2>5 DEF Best, LocalItem
  <2>7. ASSUME NEW e \in Entry, newest[e] # NoVersion
        PROVE  \E c \in Device : LocalItem(store'[c], e) = newest[e]
    <3>1. PICK c \in Device : LocalItem(store[c], e) = newest[e]
      BY <2>7 DEF Owned
    <3>2. CASE c # d
      BY <2>3, <3>1, <3>2
    <3>3. CASE c = d
      <4>1. store'[d] \in Copies'
        BY DEF Copies
      <4>2. KnownIn(s, e)
        BY <2>3, <4>1 DEF NothingNewer, KnownIn, Known
      <4>3. Known(e, LocalItem(s, e))
        BY <2>1, <4>2, KnownItem
      <4>4. LocalItem(s, e).ts >= newest[e].ts
        BY <2>1, <3>1, <3>3
      <4>5. newest[e].ts \in Nat
        BY DEF TypeOK, Version
      <4>6. LocalItem(s, e) = newest[e]
        BY <2>4, <4>3, <4>4, <4>5 DEF Known
      <4> QED
        BY <2>3, <4>6
    <3> QED
      BY <3>2, <3>3
  <2>8. Owned'
    BY <2>7 DEF Owned, LocalItem
  <2> QED
    BY <2>6, <2>8
<1> QED
  BY <1>1, <1>2, WhatARunWrites

\* What the user writes is stamped now, later than every version there is.
LEMMA WrittenNow ==
  ASSUME TypeOK, NothingNewer, Stamped, NEW d \in Device, NEW e \in Entry,
         NEW row \in Row, NEW mark \in Nat, Writes(d, e, row, mark)
  PROVE  /\ newest[e].ts < Now(d)
         /\ newest'[e].ts = Now(d) /\ newest'[e].kind # "none"
         /\ \/ row = newest'[e] /\ mark < Now(d)
            \/ row = NoVersion /\ mark = Now(d) /\ newest'[e] = Gone(mark)
<1>1. store[d].row[e] \in Row /\ store[d].mark[e] \in Nat
  BY ItemTyped DEF TypeOK
<1>2. /\ Now(d) \in Nat /\ Now(d) > 0 /\ store[d].row[e].ts \in Nat
      /\ newest[e].ts \in Nat /\ clock \in Nat /\ Ahead[d] \in Nat
  BY <1>1, NowTyped, AheadAssumption DEF Row, Version, TypeOK
<1>3. newest[e].ts < Now(d)
  BY <1>2 DEF Stamped, Now
<1>4. KnownIn(store[d], e)
  BY DEF NothingNewer, Copies
<1>5. store[d].row[e].ts < Now(d) /\ store[d].mark[e] < Now(d)
  <2>1. store[d].row[e].ts < Now(d)
    BY <1>2, <1>3, <1>4 DEF KnownIn, Known
  <2>2. store[d].mark[e] = 0 \/ store[d].mark[e] <= newest[e].ts
    BY <1>4 DEF KnownIn, Known, Gone
  <2> QED
    BY <1>1, <1>2, <1>3, <2>1, <2>2
<1>6. newest' = [newest EXCEPT ![e] = IF row.kind = "none" THEN Gone(mark) ELSE row]
  BY DEF Writes, Write
<1>7. newest'[e] = IF row.kind = "none" THEN Gone(mark) ELSE row
  BY <1>6 DEF TypeOK
<1>8. CASE IsRow(row)
  <2>1. mark = store[d].mark[e] /\ row.ts \in {Now(d), Larger(store[d].row[e].ts + 1, Now(d))}
    BY <1>8 DEF Writes, IsRow, NoVersion
  <2>2. Larger(store[d].row[e].ts + 1, Now(d)) = Now(d)
    BY <1>2, <1>5 DEF Larger
  <2>3. row.kind # "none"
    BY <1>8 DEF IsRow
  <2> QED
    BY <1>3, <1>5, <1>7, <2>1, <2>2, <2>3
<1>9. CASE ~IsRow(row)
  <2>1. row = NoVersion /\ mark = Larger(store[d].mark[e], Larger(store[d].row[e].ts, Now(d)))
    BY <1>9 DEF Writes
  <2>2. Larger(store[d].row[e].ts, Now(d)) = Now(d)
    BY <1>2, <1>5 DEF Larger
  <2>3. mark = Now(d)
    BY <1>1, <1>2, <1>5, <2>1, <2>2 DEF Larger
  <2>4. newest'[e] = Gone(mark)
    BY <1>7, <2>1 DEF NoVersion
  <2> QED
    BY <1>3, <2>1, <2>3, <2>4 DEF Gone
<1> QED
  BY <1>8, <1>9

\* And it is what the device offers then.
LEMMA WrittenItem ==
  ASSUME TypeOK, NothingNewer, Stamped, NEW d \in Device, NEW e \in Entry,
         NEW row \in Row, NEW mark \in Nat, Writes(d, e, row, mark)
  PROVE  LocalItem(store'[d], e) = newest'[e]
<1> DEFINE now == Now(d)
<1>1. /\ newest'[e].ts = now /\ now \in Nat /\ now > 0
      /\ \/ row = newest'[e] /\ mark < now
         \/ row = NoVersion /\ mark = now /\ newest'[e] = Gone(mark)
  BY WrittenNow, NowTyped
<1>2. store'[d].row[e] = row /\ store'[d].mark[e] = mark
  BY WrittenCopies DEF Writes
<1>3. CASE row = newest'[e] /\ mark < now
  BY <1>1, <1>2, <1>3 DEF LocalItem
<1>4. CASE row = NoVersion /\ mark = now /\ newest'[e] = Gone(mark)
  BY <1>1, <1>2, <1>4 DEF LocalItem, NoVersion
<1> QED
  BY <1>1, <1>3, <1>4

\* It leaves nothing newer than the newest, and no stamp ahead of the clocks.
LEMMA WriteKnown ==
  ASSUME TypeOK, InStep, NothingNewer, Stamped,
         NEW d \in Device, NEW e \in Entry, NEW row \in Row, NEW mark \in Nat,
         Writes(d, e, row, mark)
  PROVE  NothingNewer' /\ Stamped'
<1> DEFINE now == Now(d)
<1>1. /\ newest[e].ts < now /\ newest'[e].ts = now /\ newest'[e].kind # "none"
      /\ \/ row = newest'[e] /\ mark < now
         \/ row = NoVersion /\ mark = now /\ newest'[e] = Gone(mark)
  BY WrittenNow
<1>2. /\ now \in Nat /\ now > 0 /\ clock \in Nat /\ newest[e].ts \in Nat
      /\ \A c \in Device : Ahead[c] \in Nat
  BY NowTyped, AheadAssumption DEF TypeOK, Version
<1>3. /\ \A f \in Entry : f # e => newest'[f] = newest[f]
      /\ clock' = clock + 1
  BY DEF Writes, Write, TypeOK
<1>4. /\ \A v \in Copies' : \A f \in Entry :
           \/ \E u \in Copies : v.row[f] = u.row[f] /\ v.mark[f] = u.mark[f]
           \/ f = e /\ v.row[f] = row /\ v.mark[f] = mark
      /\ \A c \in Device : c # d => store'[c] = store[c]
      /\ store'[d].row[e] = row /\ store'[d].mark[e] = mark
      /\ \A f \in Entry : f # e => /\ store'[d].row[f] = store[d].row[f]
                                 /\ store'[d].mark[f] = store[d].mark[f]
  BY WrittenCopies DEF Writes
<1>5. NothingNewer'
  <2> DEFINE
        Fine(v, f) == /\ v.row[f].ts <= newest'[f].ts
                      /\ v.row[f].ts = newest'[f].ts => v.row[f] = newest'[f]
                      /\ v.row[f].kind = "none" => v.row[f] = NoVersion
                      /\ \/ v.mark[f] = 0
                         \/ /\ v.mark[f] <= newest'[f].ts
                            /\ v.mark[f] = newest'[f].ts => Gone(v.mark[f]) = newest'[f]
  <2>1. ASSUME NEW v \in Copies', NEW f \in Entry
        PROVE  Fine(v, f)
    <3>1. ASSUME NEW u \in Copies, v.row[f] = u.row[f], v.mark[f] = u.mark[f]
          PROVE  Fine(v, f)
      <4>1. KnownIn(u, f)
        BY DEF NothingNewer
      <4>2. u.row[f].ts \in Nat /\ u.mark[f] \in Nat
        <5>1. u \in Vault \/ u \in Backup
          BY SourcesTyped DEF Sources
        <5>2. u.row[f] \in Row /\ u.mark[f] \in Nat
          BY <5>1, ItemTyped
        <5> QED
          BY <5>2 DEF Row, Version
      <4>3. CASE f = e
        BY <1>1, <1>2, <3>1, <4>1, <4>2, <4>3 DEF KnownIn, Known, Gone
      <4>4. CASE f # e
        BY <1>3, <3>1, <4>1, <4>4 DEF KnownIn, Known, Gone
      <4> QED
        BY <4>3, <4>4
    <3>2. CASE f = e /\ v.row[f] = row /\ v.mark[f] = mark
      BY <1>1, <1>2, <3>2 DEF NoVersion
    <3> HIDE DEF Fine
    <3> QED
      BY <1>4, <3>1, <3>2
  <2> QED
    BY <2>1 DEF NothingNewer, KnownIn, Known, Gone
<1>6. Stamped'
  <2>1. ASSUME NEW f \in Entry
        PROVE  /\ newest'[f].kind = "none" \/ newest'[f].ts = 0 => newest'[f] = NoVersion
               /\ \A c \in Device : newest'[f].ts <= clock' + Ahead[c]
    <3>1. CASE f = e
      <4>1. \A c \in Device : now = clock' + Ahead[c]
        BY <1>2, <1>3 DEF Now, InStep
      <4> QED
        BY <1>1, <1>2, <3>1, <4>1
    <3>2. CASE f # e
      <4>1. newest[f].ts \in Nat
        BY DEF TypeOK, Version
      <4> QED
        BY <1>2, <1>3, <3>2, <4>1 DEF Stamped
    <3> QED
      BY <3>1, <3>2
  <2> QED
    BY <2>1 DEF Stamped
<1> QED
  BY <1>5, <1>6

\* And the device that wrote it offers it.
LEMMA WriteKeeps ==
  ASSUME TypeOK, TypeOK', NothingNewer, Stamped, Best, Owned,
         NEW d \in Device, NEW e \in Entry, NEW row \in Row, NEW mark \in Nat,
         Writes(d, e, row, mark)
  PROVE  Best' /\ Owned'
<1> DEFINE now == Now(d)
<1>1. /\ newest[e].ts < now /\ newest'[e].ts = now /\ newest'[e].kind # "none"
      /\ \/ row = newest'[e] /\ mark < now
         \/ row = NoVersion /\ mark = now /\ newest'[e] = Gone(mark)
  BY WrittenNow
<1>2. /\ now \in Nat /\ now > 0 /\ clock \in Nat /\ newest[e].ts \in Nat
      /\ \A c \in Device : Ahead[c] \in Nat
  BY NowTyped, AheadAssumption DEF TypeOK, Version
<1>3. /\ \A f \in Entry : f # e => newest'[f] = newest[f]
      /\ clock' = clock + 1
  BY DEF Writes, Write, TypeOK
<1>4. /\ \A v \in Copies' : \A f \in Entry :
           \/ \E u \in Copies : v.row[f] = u.row[f] /\ v.mark[f] = u.mark[f]
           \/ f = e /\ v.row[f] = row /\ v.mark[f] = mark
      /\ \A c \in Device : c # d => store'[c] = store[c]
      /\ store'[d].row[e] = row /\ store'[d].mark[e] = mark
      /\ \A f \in Entry : f # e => /\ store'[d].row[f] = store[d].row[f]
                                 /\ store'[d].mark[f] = store[d].mark[f]
  BY WrittenCopies DEF Writes
<1>5. LocalItem(store'[d], e) = newest'[e]
  BY WrittenItem
<1>6. \A c \in Device, f \in Entry :
        c # d \/ f # e => LocalItem(store'[c], f) = LocalItem(store[c], f)
  BY <1>4 DEF LocalItem
<1>7. Best'
  <2>1. \A f \in Entry : LocalItem(store'[d], f).ts \in Nat
    <3>1. store'[d] \in Vault
      BY DEF TypeOK
    <3> QED
      BY <3>1, ItemTyped DEF Version
  <2>2. ASSUME NEW f \in Entry
        PROVE  /\ seen'[d][f] = Larger(seen[d][f], LocalItem(store'[d], f).ts)
               /\ \A c \in Device : c # d => seen'[c] = seen[c]
    <3>1. store' = [store EXCEPT ![d] = store'[d]] /\ Remember(d, store'[d])
      BY DEF Writes, Write, TypeOK
    <3> QED
      BY <3>1 DEF Remember, TypeOK
  <2>3. seen[d][e] < now
    <3>1. KnownIn(store[d], e) /\ store[d] \in Vault
      BY DEF NothingNewer, Copies, TypeOK
    <3>2. LocalItem(store[d], e).ts <= newest[e].ts /\ LocalItem(store[d], e).ts \in Nat
      BY <3>1, KnownItem, ItemTyped DEF Known, Version
    <3> QED
      BY <1>1, <1>2, <3>2 DEF Best
  <2>4. ASSUME NEW c \in Device, NEW f \in Entry
        PROVE  LocalItem(store'[c], f).ts = seen'[c][f]
    <3>1. LocalItem(store[c], f).ts = seen[c][f]
      BY DEF Best
    <3>2. CASE c = d /\ f = e
      <4>1. LocalItem(store'[d], e).ts = now
        BY <1>1, <1>5
      <4>2. seen'[d][e] = Larger(seen[d][e], now) /\ seen[d][e] \in Nat
        BY <2>2, <4>1 DEF TypeOK
      <4>3. Larger(seen[d][e], now) = now
        BY <1>2, <2>3, <4>2 DEF Larger
      <4> QED
        BY <3>2, <4>1, <4>2, <4>3
    <3>3. CASE c = d /\ f # e
      <4>1. LocalItem(store'[d], f) = LocalItem(store[d], f)
        BY <1>6, <3>3
      <4>2. seen'[d][f] = Larger(LocalItem(store'[d], f).ts, LocalItem(store'[d], f).ts)
        BY <2>2, <3>1, <3>3, <4>1
      <4> QED
        BY <3>3, <4>2 DEF Larger
    <3>4. CASE c # d
      BY <1>6, <2>2, <3>1, <3>4
    <3> QED
      BY <3>2, <3>3, <3>4
  <2> QED
    BY <2>4 DEF Best, LocalItem
<1>8. Owned'
  <2>1. ASSUME NEW f \in Entry, newest'[f] # NoVersion
        PROVE  \E c \in Device : LocalItem(store'[c], f) = newest'[f]
    <3>1. CASE f = e
      BY <1>5, <3>1
    <3>2. CASE f # e
      BY <1>3, <1>6, <2>1, <3>2 DEF Owned
    <3> QED
      BY <3>1, <3>2
  <2> QED
    BY <2>1 DEF Owned, LocalItem
<1> QED
  BY <1>7, <1>8

LEMMA InitKnown == Init => NothingNewer /\ Stamped
<1> SUFFICES ASSUME Init PROVE NothingNewer /\ Stamped
  OBVIOUS
<1>1. NothingNewer
  BY DEF Init, NothingNewer, Copies, KnownIn, Known, EmptyVault, NoBackup, NoRows, NoMarks,
         NoVersion
<1>2. Stamped
  BY AheadAssumption DEF Init, Stamped, NoRows, NoVersion
<1> QED
  BY <1>1, <1>2

LEMMA NextKnown ==
  ASSUME InStep
  PROVE  TypeOK /\ NothingNewer /\ Stamped /\ [Next]_vars => NothingNewer' /\ Stamped'
<1> SUFFICES ASSUME TypeOK, NothingNewer, Stamped, [Next]_vars PROVE NothingNewer' /\ Stamped'
  OBVIOUS
<1>1. ASSUME NEW d \in Device, NEW e \in Entry, UserStep(d, e)
      PROVE  NothingNewer' /\ Stamped'
  BY <1>1, UserWrites, WriteKnown
<1>2. ASSUME NEW d \in Device, RunStep(d) \/ FailStep(d) \/ SyncImmediately(d) \/ OnTimeout(d)
      PROVE  NothingNewer' /\ Stamped'
  <2>1. newest' = newest /\ clock' = clock
    BY <1>2, NewestStays
  <2>2. NothingNewer'
    BY <1>2, <2>1, RunFollows, OthersFollow, FollowsKnown
  <2>3. Stamped'
    BY <2>1 DEF Stamped
  <2> QED
    BY <2>2, <2>3
<1>3. CASE UNCHANGED vars
  BY <1>3 DEF vars, job, NothingNewer, Copies, KnownIn, Known, Stamped
<1> QED
  BY <1>1, <1>2, <1>3 DEF Next

\* The inductive invariant.
NewestWins == NothingNewer /\ Stamped /\ Best /\ Owned

LEMMA InitNewest == Init => NewestWins
<1> SUFFICES ASSUME Init PROVE NewestWins
  OBVIOUS
<1>1. Best
  BY DEF Init, Best, LocalItem, EmptyVault, NoRows, NoMarks, NoVersion
<1>2. Owned
  BY DEF Init, Owned, NoRows
<1> QED
  BY <1>1, <1>2, InitKnown DEF NewestWins

LEMMA NextNewest ==
  ASSUME InStep, ~Expires
  PROVE  TypeOK /\ NewestWins /\ [Next]_vars => NewestWins'
<1> SUFFICES ASSUME TypeOK, NewestWins, [Next]_vars PROVE NewestWins'
  OBVIOUS
<1>1. TypeOK' /\ NothingNewer' /\ Stamped'
  BY NextTyped, NextKnown DEF NewestWins
<1>2. ASSUME NEW d \in Device, NEW e \in Entry, UserStep(d, e)
      PROVE  Best' /\ Owned'
  BY <1>1, <1>2, UserWrites, WriteKeeps DEF NewestWins
<1>3. ASSUME NEW d \in Device, RunStep(d) \/ FailStep(d) \/ SyncImmediately(d) \/ OnTimeout(d)
      PROVE  Best' /\ Owned'
  BY <1>1, <1>3, NewestStays, RunKeeps DEF NewestWins
<1>4. ASSUME UNCHANGED vars
      PROVE  Best' /\ Owned'
  BY <1>4 DEF vars, NewestWins, Best, Owned, LocalItem
<1> QED
  BY <1>1, <1>2, <1>3, <1>4 DEF Next, NewestWins

LEMMA NewestAlways ==
  ASSUME InStep, ~Expires
  PROVE  Spec => []NewestWins
<1>1. Init => NewestWins
  BY InitNewest
<1>2. TypeOK /\ NewestWins /\ [Next]_vars => NewestWins'
  BY NextNewest
<1>3. Spec => []TypeOK
  BY TypeCorrect
<1> QED
  BY <1>1, <1>2, <1>3, PTL DEF Spec

\* Clocks in step, no deletion past its age: whatever is answered late, retried,
\* cut short or lost, and whoever else writes the file in between, no device ever
\* offers an older version of an entry than it has offered. The write-back of step
\* 6 looks at the row and the marker of now (ApplySyncedEntry,
\* ApplyDeletionMarker), and whatever it writes was once somebody's newest.
THEOREM DevicesNeverGoBack ==
  ASSUME InStep, ~Expires
  PROVE  Spec => []NeverGoesBack
<1>1. NewestWins => NeverGoesBack
  BY DEF NewestWins, Best, NeverGoesBack
<1> QED
  BY <1>1, NewestAlways, PTL

\* And what the last user action made of an entry is still somewhere: the device
\* that made it offers it until a later action replaces it.
THEOREM TheNewestIsNeverLost ==
  ASSUME InStep, ~Expires
  PROVE  Spec => []NewestSurvives
<1>1. NewestWins => NewestSurvives
  BY DEF NewestWins, Owned, NewestSurvives, NoVersion
<1> QED
  BY <1>1, NewestAlways, PTL

\* Nor, whether deletions expire or not, does a user action lose against the version
\* it changes (the comment at NextCategoryTimestamp): where clocks differ, it does
\* (SyncSkewedClock.cfg).
THEOREM EditsWinInStep ==
  ASSUME InStep
  PROVE  Spec => LocalEditsWin
<1>1. ASSUME TypeOK, NothingNewer, Stamped, [Next]_vars, NEW d \in Device, NEW e \in Entry,
             newest'[e] # newest[e], store'[d] # store[d]
      PROVE  LocalItem(store'[d], e).ts > LocalItem(store[d], e).ts
  <2>1. PICK c \in Device, f \in Entry : UserStep(c, f)
    <3>1. newest' # newest
      BY <1>1
    <3>2. Next
      BY <1>1, <3>1 DEF vars
    <3> QED
      BY <3>1, <3>2, NewestStays DEF Next
  <2>2. PICK row \in Row, mark \in Nat : Writes(c, f, row, mark)
    BY <1>1, <2>1, UserWrites
  <2>3. c = d
    BY <1>1, <2>2, WrittenCopies DEF Writes
  <2>4. f = e
    BY <1>1, <2>2 DEF Writes, Write, TypeOK
  <2>5. LocalItem(store'[d], e) = newest'[e]
    BY <1>1, <2>2, <2>3, <2>4, WrittenItem
  <2>6. newest[e].ts < newest'[e].ts /\ newest'[e].ts \in Nat
    <3>1. newest[e].ts < Now(d) /\ newest'[e].ts = Now(d)
      BY <1>1, <2>2, <2>3, <2>4, WrittenNow
    <3> QED
      BY <1>1, <3>1, NowTyped
  <2>7. LocalItem(store[d], e).ts <= newest[e].ts /\ LocalItem(store[d], e).ts \in Nat
    <3>1. KnownIn(store[d], e) /\ store[d] \in Vault
      BY <1>1 DEF NothingNewer, Copies, TypeOK
    <3> QED
      BY <3>1, KnownItem, ItemTyped DEF Known, Version
  <2>8. newest[e].ts \in Nat
    BY <1>1 DEF TypeOK, Version
  <2> QED
    BY <2>5, <2>6, <2>7, <2>8
<1>2. TypeOK /\ NothingNewer /\ Stamped /\ [Next]_vars
        => [\A d \in Device, e \in Entry :
              newest'[e] # newest[e] /\ store'[d] # store[d]
                => LocalItem(store'[d], e).ts > LocalItem(store[d], e).ts]_<<store, newest>>
  BY <1>1
<1> QED
  BY <1>2, InitKnown, NextKnown, TypeCorrect, PTL DEF LocalEditsWin, Spec

-----------------------------------------------------------------------------
(* The backup: what replaces it contains it.                                *)

OwnTitles == \A e, f \in Entry : Title[e] = Title[f] => e = f

\* A run that still holds the file's version holds something as new as the file,
\* and two runs are never both past the check.
Guarded ==
  /\ cloud.there
  /\ \A d \in Device :
       /\ pc[d] # "create"
       /\ pc[d] = "merge" => got[d].there
       /\ pc[d] = "merge" /\ fresh[d] => got[d] = cloud
       /\ pc[d] = "patch" => fresh[d] /\ \A o \in Device : pc[o] = "patch" => o = d
       /\ pc[d] \in {"check", "patch"} /\ fresh[d] =>
            \A e \in Entry : CloudItem(out[d], e).ts >= CloudItem(cloud, e).ts

\* A store that has met an item offers nothing older to the backup.
LEMMA MetCovers ==
  ASSUME NEW e \in Entry, NEW u \in Vault, Apart(u, e), NEW item \in Version,
         item.kind = "none" => item = NoVersion,
         NEW a \in Vault,
         a.row[e] = ApplyItem(u.row[e], u.mark[e], item).row,
         a.mark[e] = ApplyItem(u.row[e], u.mark[e], item).mark
  PROVE  CloudItem(a, e).ts >= item.ts
<1> DEFINE r == u.row[e]  m == u.mark[e]
<1>1. r \in Row /\ m \in Nat /\ r.ts \in Nat /\ item.ts \in Nat
  BY ItemTyped DEF Row, Version
<1>2. CloudItem(a, e).ts \in Nat
  BY ItemTyped DEF Version
<1>3. CASE item.kind = "none"
  BY <1>2, <1>3 DEF NoVersion
<1>4. CASE item.kind # "none" /\ IsRow(r) /\ r.ts >= item.ts
  <2>1. a.row[e] = r /\ a.mark[e] = m /\ m = 0
    BY <1>4 DEF ApplyItem, Apart
  <2> QED
    BY <1>4, <2>1 DEF CloudItem
<1>5. CASE item.kind = "gone" /\ ~(IsRow(r) /\ r.ts >= item.ts)
  <2>1. a.row[e] = NoVersion /\ a.mark[e] = Larger(m, item.ts)
    BY <1>5 DEF ApplyItem
  <2>2. a.mark[e] \in Nat /\ a.mark[e] >= item.ts
    BY <1>1, <2>1, LargerTyped
  <2> QED
    BY <1>1, <2>1, <2>2 DEF CloudItem, NoVersion, Gone
<1>6. CASE item.kind \notin {"none", "gone"} /\ ~(IsRow(r) /\ r.ts >= item.ts)
  <2>1. CASE m # 0 /\ m >= item.ts
    BY <1>6, <2>1 DEF ApplyItem, CloudItem, Gone
  <2>2. CASE ~(m # 0 /\ m >= item.ts)
    BY <1>1, <1>6, <2>2 DEF ApplyItem, CloudItem
  <2> QED
    BY <2>1, <2>2
<1> QED
  BY <1>3, <1>4, <1>5, <1>6

\* With a title of its own no entry is skipped as a duplicate.
LEMMA AllWritten ==
  ASSUME OwnTitles, NEW s, NEW items, NEW on \in WrittenSets(s, items)
  PROVE  \A e \in Entry : e \in on
<1>1. \A e \in Entry : \A rows : Duplicates(e, rows) = {}
  BY DEF OwnTitles, Duplicates
<1> QED
  BY <1>1 DEF WrittenSets

LEMMA MergeCovers ==
  ASSUME TypeOK, EitherOr, NEW d \in Device, NEW on, NEW e \in Entry, e \in on
  PROVE  CloudItem(Apply(store[d], Merged(d), on), e).ts >= CloudItem(got[d], e).ts
<1> DEFINE s == Apply(store[d], Merged(d), on)  item == Merged(d)[e]
<1>1. /\ store[d] \in Vault /\ snap[d] \in Vault /\ got[d] \in Backup
      /\ Merged(d) \in [Entry -> Version]
  BY MergedTyped DEF TypeOK
<1>2. /\ s \in Vault
      /\ s.row[e] = ApplyItem(store[d].row[e], store[d].mark[e], item).row
      /\ s.mark[e] = ApplyItem(store[d].row[e], store[d].mark[e], item).mark
  BY <1>1, ApplyTyped
<1>3. Apart(store[d], e) /\ Apart(snap[d], e) /\ Apart(got[d], e)
  BY DEF EitherOr, Copies
<1>4. /\ LocalItem(snap[d], e).kind = "none" => LocalItem(snap[d], e) = NoVersion
      /\ CloudItem(got[d], e).kind = "none" => CloudItem(got[d], e) = NoVersion
  BY <1>3 DEF LocalItem, CloudItem, Apart, Gone
<1>5. item = MergeItem(LocalItem(snap[d], e), CloudItem(got[d], e))
  BY DEF Merged
<1>6. LocalItem(snap[d], e).ts \in Nat /\ CloudItem(got[d], e).ts \in Nat
  BY <1>1, ItemTyped DEF Version
<1>7. item \in Version /\ item.ts \in Nat
  BY <1>1 DEF Version
<1> HIDE DEF s, item
<1>8. (item.kind = "none" => item = NoVersion) /\ item.ts >= CloudItem(got[d], e).ts
  BY <1>4, <1>5, <1>6 DEF MergeItem
<1>9. CloudItem(s, e).ts >= item.ts /\ CloudItem(s, e).ts \in Nat
  <2>1. CloudItem(s, e).ts >= item.ts
    BY <1>1, <1>2, <1>3, <1>7, <1>8, MetCovers
  <2> QED
    BY <1>2, <2>1, ItemTyped DEF Version
<1>10. CloudItem(s, e).ts >= CloudItem(got[d], e).ts
  BY <1>6, <1>7, <1>8, <1>9
<1> QED
  BY <1>10 DEF s

\* A step that neither sends nor checks nor reads leaves the other runs alone.
LEMMA OthersGuarded ==
  ASSUME TypeOK, Guarded, NEW d \in Device, cloud' = cloud,
         \A c \in Device : c # d => /\ pc'[c] = pc[c] /\ got'[c] = got[c] /\ out'[c] = out[c]
                                 /\ fresh'[c] = fresh[c],
         \/ pc'[d] = pc[d] /\ got'[d] = got[d] /\ out'[d] = out[d] /\ fresh'[d] = fresh[d]
         \/ pc'[d] \in {"idle", "read", "sent"}
  PROVE  Guarded'
<1>1. \A c \in Device :
        \/ pc'[c] = pc[c] /\ got'[c] = got[c] /\ out'[c] = out[c] /\ fresh'[c] = fresh[c]
        \/ pc'[c] \in {"idle", "read", "sent"}
  OBVIOUS
<1> QED
  BY <1>1 DEF Guarded, CloudItem

LEMMA EndGuarded ==
  ASSUME TypeOK, Guarded, NEW d \in Device, NEW result, EndRun(d, result), cloud' = cloud
  PROVE  Guarded'
<1>1. /\ pc'[d] = "idle"
      /\ \A c \in Device : c # d => /\ pc'[c] = pc[c] /\ got'[c] = got[c] /\ out'[c] = out[c]
                                  /\ fresh'[c] = fresh[c]
  BY DEF EndRun, Forget, TypeOK
<1> QED
  BY <1>1, OthersGuarded

LEMMA StartGuarded ==
  ASSUME TypeOK, Guarded, NEW d \in Device, NEW n, StartRun(d, n), cloud' = cloud,
         Forget(d) \/ UNCHANGED <<got, out, fresh>>
  PROVE  Guarded'
<1>1. /\ pc'[d] = "read"
      /\ \A c \in Device : c # d => /\ pc'[c] = pc[c] /\ got'[c] = got[c] /\ out'[c] = out[c]
                                  /\ fresh'[c] = fresh[c]
  BY DEF StartRun, Forget, TypeOK
<1> QED
  BY <1>1, OthersGuarded

LEMMA ReadGuarded ==
  ASSUME TypeOK, Guarded, NEW d \in Device, ReadBackup(d)
  PROVE  Guarded'
<1>1. /\ cloud' = cloud /\ out' = out
      /\ pc'[d] = "merge" /\ got'[d] = cloud
      /\ \A c \in Device : c # d => /\ pc'[c] = pc[c] /\ got'[c] = got[c]
                                  /\ fresh'[c] = fresh[c]
  BY DEF ReadBackup, TypeOK
<1> QED
  BY <1>1 DEF Guarded, CloudItem

LEMMA MergeGuarded ==
  ASSUME TypeOK, EitherOr, Guarded, OwnTitles, NEW d \in Device, Merge(d)
  PROVE  Guarded'
<1>1. PICK on \in WrittenSets(store[d], Merged(d)) :
        LET s == Apply(store[d], Merged(d), on) IN Conclude(d, s, s)
  BY DEF Merge
<1> DEFINE s == Apply(store[d], Merged(d), on)
<1>2. \A e \in Entry : CloudItem(s, e).ts >= CloudItem(got[d], e).ts
  BY AllWritten, MergeCovers
<1>3. Conclude(d, s, s) /\ pc[d] = "merge"
  BY <1>1 DEF Merge
<1> HIDE DEF s
<1>4. CASE NeedUpload(d, s)
  <2>1. /\ cloud' = cloud /\ fresh' = fresh
        /\ pc'[d] = IF got[d].there THEN "check" ELSE "create"
        /\ out'[d] = s
        /\ \A c \in Device : c # d => /\ pc'[c] = pc[c] /\ got'[c] = got[c]
                                    /\ out'[c] = out[c]
    BY <1>3, <1>4 DEF Conclude, TypeOK
  <2>2. pc'[d] = "check" /\ (fresh[d] => got[d] = cloud)
    BY <1>3, <2>1 DEF Guarded
  <2> QED
    BY <1>2, <2>1, <2>2 DEF Guarded, CloudItem
<1>5. CASE ~NeedUpload(d, s)
  BY <1>3, <1>5, EndGuarded DEF Conclude, CleanUp
<1> QED
  BY <1>4, <1>5

LEMMA CheckGuarded ==
  ASSUME TypeOK, Guarded, ~LateWrites, NEW d \in Device, CheckVersion(d)
  PROVE  Guarded'
<1>1. /\ cloud' = cloud /\ out' = out /\ got' = got /\ fresh' = fresh /\ fresh[d]
      /\ pc[d] = "check" /\ pc'[d] = "patch" /\ \A o \in Device : pc[o] # "patch"
      /\ \A c \in Device : c # d => pc'[c] = pc[c]
  BY DEF CheckVersion, TypeOK
<1> QED
  BY <1>1 DEF Guarded, CloudItem

LEMMA PatchGuarded ==
  ASSUME TypeOK, Guarded, NEW d \in Device, PatchFile(d)
  PROVE  /\ Guarded'
         /\ \A e \in Entry : CloudItem(cloud', e).ts >= CloudItem(cloud, e).ts
<1>1. /\ pc[d] = "patch" /\ pc'[d] = "sent" /\ got' = got
      /\ cloud' = [there |-> TRUE, row |-> out[d].row, mark |-> out[d].mark]
      /\ \A c \in Device : fresh'[c] = FALSE /\ (c # d => pc'[c] = pc[c])
  BY DEF PatchFile, Replace, TypeOK
<1>2. Guarded'
  BY <1>1 DEF Guarded
<1>3. \A e \in Entry : CloudItem(cloud', e) = CloudItem(out[d], e)
  BY <1>1 DEF CloudItem
<1> QED
  BY <1>1, <1>2, <1>3 DEF Guarded

LEMMA InitGuarded == ASSUME CloudExists PROVE Init => Guarded
BY DEF Init, Guarded

LEMMA NextGuarded ==
  ASSUME ~LateWrites, OwnTitles
  PROVE  TypeOK /\ EitherOr /\ Guarded /\ [Next]_vars
           => /\ Guarded'
              /\ cloud' = cloud
                 \/ \A e \in Entry : CloudItem(cloud', e).ts >= CloudItem(cloud, e).ts
<1> SUFFICES ASSUME TypeOK, EitherOr, Guarded, [Next]_vars
             PROVE  /\ Guarded'
                    /\ cloud' = cloud
                       \/ \A e \in Entry : CloudItem(cloud', e).ts >= CloudItem(cloud, e).ts
  OBVIOUS
<1>1. ASSUME NEW d \in Device, NEW e \in Entry, UserStep(d, e)
      PROVE  Guarded' /\ cloud' = cloud
  <2>1. PICK row \in Row, mark \in Nat : Writes(d, e, row, mark)
    BY <1>1, UserWrites
  <2>2. UNCHANGED <<cloud, fresh, pc, got, out>>
    BY <2>1 DEF Writes, Write, job
  <2> QED
    BY <2>2 DEF Guarded, CloudItem
<1>2. ASSUME NEW d \in Device, RunStep(d)
      PROVE  /\ Guarded'
             /\ cloud' = cloud
                \/ \A e \in Entry : CloudItem(cloud', e).ts >= CloudItem(cloud, e).ts
  <2>1. CASE ReadBackup(d)
    BY <2>1, ReadGuarded DEF ReadBackup
  <2>2. CASE Merge(d)
    BY <2>2, MergeGuarded DEF Merge, Conclude
  <2>3. CASE CheckVersion(d)
    BY <2>3, CheckGuarded DEF CheckVersion
  <2>4. CASE VersionMismatch(d)
    BY <2>4, StartGuarded, EndGuarded DEF VersionMismatch
  <2>5. CASE PatchFile(d)
    BY <2>5, PatchGuarded
  <2>6. CASE UploadBackup(d)
    BY <2>6 DEF UploadBackup, Guarded
  <2>7. CASE Finish(d)
    BY <2>7, EndGuarded DEF Finish, CleanUp
  <2> QED
    BY <1>2, <2>1, <2>2, <2>3, <2>4, <2>5, <2>6, <2>7 DEF RunStep
<1>3. ASSUME NEW d \in Device, FailStep(d)
      PROVE  Guarded' /\ cloud' = cloud
  BY <1>3, EndGuarded DEF FailStep, OnTimeoutLocked, MergeFails, NetworkFails, Restart
<1>4. ASSUME NEW d \in Device, OnTimeout(d)
      PROVE  Guarded' /\ cloud' = cloud
  BY <1>4, StartGuarded DEF OnTimeout
<1>5. ASSUME NEW d \in Device, SyncImmediately(d)
      PROVE  Guarded' /\ cloud' = cloud
  <2>1. CASE pc[d] = "idle"
    BY <1>5, <2>1, StartGuarded DEF SyncImmediately
  <2>2. CASE pc[d] # "idle"
    <3>1. UNCHANGED <<cloud, fresh, pc, got, out>>
      BY <1>5, <2>2 DEF SyncImmediately
    <3> QED
      BY <3>1 DEF Guarded, CloudItem
  <2> QED
    BY <2>1, <2>2
<1>6. CASE UNCHANGED vars
  BY <1>6 DEF vars, job, Guarded, CloudItem
<1> QED
  BY <1>1, <1>2, <1>3, <1>4, <1>5, <1>6 DEF Next

\* Where the file exists, nobody writes between another's check and its PATCH,
\* nobody imports what was deleted and no two entries share title and username,
\* the backup never loses an entry or goes back to an older version, whatever the
\* clocks, retries, losses and expired deletions: what UploadBackupIfMatch sends
\* contains the file whose version it has confirmed. SyncDuplicates.cfg shows what
\* two entries with one title do.
THEOREM CloudOnlyGrows ==
  ASSUME CloudExists, ~LateWrites, ~ReimportsDeleted, OwnTitles
  PROVE  Spec => CloudNeverGoesBack
<1>1. Init => EitherOr /\ Guarded
  BY InitApart, InitGuarded
<1>2. TypeOK /\ EitherOr /\ [Next]_vars => EitherOr'
  BY NextApart
<1>3. TypeOK /\ EitherOr /\ Guarded /\ [Next]_vars
        => /\ Guarded'
           /\ [\A e \in Entry : CloudItem(cloud', e).ts >= CloudItem(cloud, e).ts]_cloud
  BY NextGuarded
<1>4. Spec => []TypeOK
  BY TypeCorrect
<1> QED
  BY <1>1, <1>2, <1>3, <1>4, PTL DEF Spec, CloudNeverGoesBack

-----------------------------------------------------------------------------
(* Deletions that expire. What a device forgets, the backup still holds:     *)
(* only what is older than the run is forgotten, and that was in what the    *)
(* run read or has sent.                                                     *)

\* A device offers the best it has held, or nothing where the backup holds it.
HeldOrBacked ==
  \A d \in Device, e \in Entry :
    \/ LocalItem(store[d], e).ts = seen[d][e]
    \/ /\ LocalItem(store[d], e) = NoVersion
       /\ CloudItem(cloud, e).ts >= seen[d][e]
       /\ pc[d] = "merge" => CloudItem(got[d], e).ts >= seen[d][e]

\* The backup has only grown since a run has read it.
ReadBefore ==
  \A d \in Device, e \in Entry :
    pc[d] = "merge" => CloudItem(cloud, e).ts >= CloudItem(got[d], e).ts

\* What is not younger than the run was in its snapshot, is in what it uploads
\* and, once that is sent, in the backup.
Covered ==
  \A d \in Device, e \in Entry :
    LET t == LocalItem(store[d], e).ts
    IN t <= began[d] =>
         /\ pc[d] \in {"read", "merge"} => LocalItem(snap[d], e).ts >= t
         /\ pc[d] \in {"check", "patch"} => CloudItem(out[d], e).ts >= t
         /\ pc[d] = "sent" => CloudItem(cloud, e).ts >= t
Begun == \A d \in Device : began[d] <= clock

\* What the last user action made is on a device or in the backup.
OwnedOrBacked ==
  \A e \in Entry :
    \/ newest[e] = NoVersion
    \/ CloudItem(cloud, e) = newest[e]
    \/ \E d \in Device : LocalItem(store[d], e) = newest[e]

\* The store s that a step of d makes before it forgets anything.
Advanced(d, s) ==
  \A e \in Entry :
    /\ s.mark[e] = 0 \/ ~IsRow(s.row[e])
    /\ s.row[e].kind = "none" => s.row[e] = NoVersion
    /\ LocalItem(s, e).ts >= LocalItem(store[d], e).ts
    /\ \/ LocalItem(s, e).ts >= seen[d][e]
       \/ LocalItem(s, e) = LocalItem(store[d], e)
    /\ seen'[d][e] = Larger(seen[d][e], LocalItem(s, e).ts)

\* A row or a marker: what is offered to the merge is offered to the backup.
LEMMA OneOffer ==
  ASSUME NEW s \in Vault, NEW e \in Entry, s.mark[e] = 0 \/ ~IsRow(s.row[e]),
         s.row[e].kind = "none" => s.row[e] = NoVersion
  PROVE  /\ LocalItem(s, e) = CloudItem(s, e)
         /\ s.mark[e] # 0 => s.row[e] = NoVersion /\ LocalItem(s, e) = Gone(s.mark[e])
         /\ s.mark[e] = 0 => LocalItem(s, e) = s.row[e]
<1>1. s.row[e] \in Row /\ s.mark[e] \in Nat
  BY ItemTyped
<1>2. IsRow(s.row[e]) \/ s.row[e] = NoVersion
  BY <1>1 DEF Row, Version, Kind, IsRow
<1>3. s.mark[e] # 0 => s.row[e] = NoVersion
  BY <1>2
<1> QED
  BY <1>1, <1>3 DEF LocalItem, CloudItem, NoVersion

\* What the clean-up forgets is not younger than the run.
LEMMA ForgetsTheOld ==
  ASSUME TypeOK, NEW d \in Device, NEW cutoff \in Cutoffs(d), NEW s \in Vault, NEW e \in Entry,
         s.mark[e] = 0 \/ ~IsRow(s.row[e]), s.row[e].kind = "none" => s.row[e] = NoVersion
  PROVE  \/ LocalItem(Expired(s, cutoff), e) = LocalItem(s, e)
         \/ /\ LocalItem(Expired(s, cutoff), e) = NoVersion
            /\ LocalItem(s, e).ts <= began[d]
<1> DEFINE x == Expired(s, cutoff)
<1>1. s.row[e] \in Row /\ s.mark[e] \in Nat /\ s.row[e].ts \in Nat /\ began[d] \in Nat
  BY ItemTyped DEF Row, Version, TypeOK
<1>2. \A t \in Nat : t < cutoff => t <= began[d]
  <2>1. cutoff = 0 \/ cutoff \in 1..(began[d] + 1)
    BY DEF Cutoffs
  <2> QED
    BY <1>1, <2>1
<1>3. /\ x.row[e] = IF s.row[e].kind = "trash" /\ s.row[e].ts < cutoff THEN NoVersion ELSE s.row[e]
      /\ x.mark[e] = IF s.mark[e] < cutoff THEN 0 ELSE s.mark[e]
  BY DEF Expired
<1>4. /\ s.mark[e] # 0 => s.row[e] = NoVersion /\ LocalItem(s, e) = Gone(s.mark[e])
      /\ s.mark[e] = 0 => LocalItem(s, e) = s.row[e]
  BY OneOffer
<1> HIDE DEF x
<1>5. CASE s.mark[e] = 0
  <2>1. x.mark[e] = 0
    BY <1>3, <1>5
  <2>2. LocalItem(x, e) = x.row[e] /\ LocalItem(s, e) = s.row[e]
    BY <1>4, <1>5, <2>1 DEF LocalItem
  <2> QED
    BY <1>1, <1>2, <1>3, <2>2 DEF x
<1>6. CASE s.mark[e] # 0
  <2>1. x.row[e] = NoVersion
    BY <1>3, <1>4, <1>6
  <2>2. CASE s.mark[e] < cutoff
    BY <1>1, <1>2, <1>3, <1>4, <1>6, <2>1, <2>2 DEF x, LocalItem, Gone
  <2>3. CASE ~(s.mark[e] < cutoff)
    BY <1>1, <1>3, <1>4, <1>6, <2>1, <2>3 DEF x, LocalItem, NoVersion
  <2> QED
    BY <2>2, <2>3
<1> QED
  BY <1>5, <1>6

LEMMA OfferTyped ==
  ASSUME TypeOK, NEW d \in Device, NEW e \in Entry
  PROVE  /\ LocalItem(store[d], e).ts \in Nat /\ LocalItem(snap[d], e).ts \in Nat
         /\ CloudItem(got[d], e).ts \in Nat /\ CloudItem(out[d], e).ts \in Nat
         /\ CloudItem(cloud, e).ts \in Nat /\ seen[d][e] \in Nat /\ began[d] \in Nat
<1>1. /\ store[d] \in Vault /\ snap[d] \in Vault /\ out[d] \in Vault
      /\ got[d] \in Backup /\ cloud \in Backup
  BY DEF TypeOK
<1>2. /\ LocalItem(store[d], e) \in Version /\ LocalItem(snap[d], e) \in Version
      /\ CloudItem(got[d], e) \in Version /\ CloudItem(out[d], e) \in Version
      /\ CloudItem(cloud, e) \in Version
  BY <1>1, ItemTyped
<1> QED
  BY <1>2 DEF Version, TypeOK

LEMMA MergeAdvances ==
  ASSUME TypeOK, EitherOr, NothingNewer, HeldOrBacked, NEW d \in Device, pc[d] = "merge", NEW on,
         Remember(d, Apply(store[d], Merged(d), on))
  PROVE  /\ Apply(store[d], Merged(d), on) \in Vault
         /\ Advanced(d, Apply(store[d], Merged(d), on))
<1> DEFINE s == Apply(store[d], Merged(d), on)
<1>1. store[d] \in Vault /\ Merged(d) \in [Entry -> Version]
  BY MergedTyped DEF TypeOK
<1>2. /\ s \in Vault
      /\ \A e \in Entry :
           \/ /\ e \in on
              /\ s.row[e] = ApplyItem(store[d].row[e], store[d].mark[e], Merged(d)[e]).row
              /\ s.mark[e] = ApplyItem(store[d].row[e], store[d].mark[e], Merged(d)[e]).mark
           \/ /\ e \notin on
              /\ s.row[e] = store[d].row[e] /\ s.mark[e] = store[d].mark[e]
  BY <1>1, ApplyTyped
<1>3. \A e \in Entry : LocalItem(s, e).ts >= LocalItem(store[d], e).ts
  BY MergeRises
<1>4. \A e \in Entry : e \in on => CloudItem(s, e).ts >= CloudItem(got[d], e).ts
  BY MergeCovers
<1>5. \A e \in Entry : seen'[d][e] = Larger(seen[d][e], LocalItem(s, e).ts)
  BY DEF Remember, TypeOK
<1> HIDE DEF s
<1>6. ASSUME NEW e \in Entry
      PROVE  /\ s.mark[e] = 0 \/ ~IsRow(s.row[e])
             /\ s.row[e].kind = "none" => s.row[e] = NoVersion
             /\ \/ LocalItem(s, e).ts >= seen[d][e]
                \/ LocalItem(s, e) = LocalItem(store[d], e)
  <2>1. Apart(store[d], e)
    BY DEF EitherOr, Copies
  <2>2. s.mark[e] = 0 \/ ~IsRow(s.row[e])
    BY <1>2, <2>1 DEF Apart, ApplyItem, IsRow, NoVersion
  <2>3. s.row[e].kind = "none" => s.row[e] = NoVersion
    BY <1>2, <2>1 DEF Apart, ApplyItem
  <2>4. CASE e \in on
    <3>1. LocalItem(s, e).ts >= CloudItem(got[d], e).ts /\ LocalItem(s, e).ts \in Nat
      BY <1>2, <1>4, <2>2, <2>3, <2>4, OneOffer, ItemTyped DEF Version
    <3>2. \/ LocalItem(store[d], e).ts = seen[d][e]
          \/ CloudItem(got[d], e).ts >= seen[d][e]
      BY DEF HeldOrBacked
    <3> QED
      BY <1>3, <2>2, <2>3, <3>1, <3>2, OfferTyped
  <2>5. CASE e \notin on
    <3>1. s.row[e] = store[d].row[e] /\ s.mark[e] = store[d].mark[e]
      BY <1>2, <2>5
    <3>2. LocalItem(s, e) = LocalItem(store[d], e)
      BY <3>1 DEF LocalItem
    <3> QED
      BY <2>2, <2>3, <3>2
  <2> QED
    BY <2>4, <2>5
<1>7. Advanced(d, s)
  BY <1>3, <1>5, <1>6 DEF Advanced
<1> QED
  BY <1>2, <1>7 DEF s

LEMMA StillAdvanced ==
  ASSUME TypeOK, EitherOr, HeldOrBacked, NEW d \in Device, seen' = seen
  PROVE  store[d] \in Vault /\ Advanced(d, store[d])
<1>1. ASSUME NEW e \in Entry
      PROVE  seen[d][e] = Larger(seen[d][e], LocalItem(store[d], e).ts)
  <2>1. LocalItem(store[d], e).ts <= seen[d][e]
    <3>1. LocalItem(store[d], e).ts = seen[d][e] \/ LocalItem(store[d], e).ts = 0
      BY DEF HeldOrBacked, NoVersion
    <3> QED
      BY <3>1, OfferTyped
  <2> QED
    BY <2>1, OfferTyped DEF Larger
<1>2. \A e \in Entry : Apart(store[d], e) /\ LocalItem(store[d], e).ts \in Nat
  BY OfferTyped DEF EitherOr, Copies
<1> QED
  BY <1>1, <1>2 DEF Advanced, Apart, TypeOK

\* A run that uploads nothing holds nothing the backup lacks, but what came after
\* its snapshot.
LEMMA NothingToUpload ==
  ASSUME TypeOK, EitherOr, NothingNewer, ReadBefore, Covered, NEW d \in Device, pc[d] = "merge",
         NEW on, NEW e \in Entry,
         ~NeedUpload(d, Apply(store[d], Merged(d), on)),
         Advanced(d, Apply(store[d], Merged(d), on)),
         LocalItem(Apply(store[d], Merged(d), on), e).ts <= began[d]
  PROVE  CloudItem(cloud, e).ts >= LocalItem(Apply(store[d], Merged(d), on), e).ts
<1> DEFINE s == Apply(store[d], Merged(d), on)  item == Merged(d)[e]
<1>1. store[d] \in Vault /\ Merged(d) \in [Entry -> Version] /\ snap[d] \in Vault /\ got[d] \in Backup
  BY MergedTyped DEF TypeOK
<1>2. /\ s \in Vault
      /\ \/ /\ s.row[e] = ApplyItem(store[d].row[e], store[d].mark[e], item).row
            /\ s.mark[e] = ApplyItem(store[d].row[e], store[d].mark[e], item).mark
         \/ s.row[e] = store[d].row[e] /\ s.mark[e] = store[d].mark[e]
  BY <1>1, ApplyTyped
<1>3. item \in {LocalItem(snap[d], e), CloudItem(got[d], e)}
  BY DEF Merged, MergeItem
<1>4. item.kind = "gone" => item.ts > 0
  <2>1. KnownIn(snap[d], e) /\ KnownIn(got[d], e)
    BY DEF NothingNewer, Copies
  <2> QED
    BY <1>1, <1>3, <2>1, KnownItem
<1>5. /\ s.mark[e] = 0 \/ ~IsRow(s.row[e])
      /\ s.row[e].kind = "none" => s.row[e] = NoVersion
      /\ LocalItem(s, e).ts <= began[d]
      /\ LocalItem(s, e).ts >= LocalItem(store[d], e).ts
  BY DEF Advanced
<1>6. /\ ~(LocalItem(snap[d], e).ts > CloudItem(got[d], e).ts)
      /\ s.mark[e] = 0 \/ CloudItem(got[d], e) = Gone(s.mark[e])
  BY DEF NeedUpload, HasLocalChanges, MarkersChanged
<1>7. CloudItem(cloud, e).ts >= CloudItem(got[d], e).ts
  BY DEF ReadBefore
<1> HIDE DEF s, item
<1>8. CloudItem(cloud, e).ts >= LocalItem(s, e).ts
  <2>1. CASE s.mark[e] # 0
    <3>1. LocalItem(s, e) = Gone(s.mark[e])
      BY <1>2, <1>5, <2>1, OneOffer
    <3> QED
      BY <1>6, <1>7, <2>1, <3>1
  <2>2. CASE s.mark[e] = 0
    <3>1. LocalItem(s, e) = s.row[e]
      BY <1>2, <1>5, <2>2, OneOffer
    <3>2. \/ s.row[e] = item
          \/ s.row[e] = store[d].row[e] /\ store[d].mark[e] = 0
      <4>1. store[d].mark[e] \in Nat /\ item.ts \in Nat
        BY <1>1, ItemTyped DEF item, Version
      <4>2. item.kind = "gone" => Larger(store[d].mark[e], item.ts) > 0
        BY <1>4, <4>1 DEF Larger
      <4> QED
        BY <1>2, <2>2, <4>2 DEF ApplyItem
    <3>3. CASE s.row[e] = item
      BY <1>3, <1>6, <1>7, <3>1, <3>3, OfferTyped
    <3>4. CASE s.row[e] = store[d].row[e] /\ store[d].mark[e] = 0
      <4>1. LocalItem(store[d], e) = LocalItem(s, e)
        BY <3>1, <3>4 DEF LocalItem
      <4>2. LocalItem(snap[d], e).ts >= LocalItem(s, e).ts
        BY <1>5, <4>1 DEF Covered
      <4> QED
        BY <1>6, <1>7, <4>1, <4>2, OfferTyped
    <3> QED
      BY <3>2, <3>3, <3>4
  <2> QED
    BY <2>1, <2>2
<1> QED
  BY <1>8 DEF s

\* What is on device d afterwards is what its step made of it, or nothing.
ForgetsWhatIsBacked(d, s) ==
  \A e \in Entry :
    \/ LocalItem(store'[d], e) = LocalItem(s, e)
    \/ /\ LocalItem(store'[d], e) = NoVersion /\ pc'[d] = "idle" /\ cloud' = cloud
       /\ CloudItem(cloud, e).ts >= LocalItem(s, e).ts

LEMMA CleanUpForgets ==
  ASSUME TypeOK, NEW d \in Device, NEW s \in Vault, Advanced(d, s), CleanUp(d, s), cloud' = cloud,
         \A e \in Entry : LocalItem(s, e).ts <= began[d]
                            => CloudItem(cloud, e).ts >= LocalItem(s, e).ts
  PROVE  ForgetsWhatIsBacked(d, s)
<1>1. PICK cutoff \in Cutoffs(d) : store' = [store EXCEPT ![d] = Expired(s, cutoff)]
  BY DEF CleanUp
<1>2. store'[d] = Expired(s, cutoff)
  BY <1>1 DEF TypeOK
<1>3. pc'[d] = "idle"
  BY DEF CleanUp, EndRun, TypeOK
<1>4. \A e \in Entry : \/ LocalItem(Expired(s, cutoff), e) = LocalItem(s, e)
                       \/ /\ LocalItem(Expired(s, cutoff), e) = NoVersion
                          /\ LocalItem(s, e).ts <= began[d]
  BY ForgetsTheOld DEF Advanced
<1> QED
  BY <1>2, <1>3, <1>4 DEF ForgetsWhatIsBacked

LEMMA RunForgets ==
  ASSUME TypeOK, EitherOr, NothingNewer, HeldOrBacked, ReadBefore, Covered, NEW d \in Device,
         RunStep(d) \/ FailStep(d) \/ SyncImmediately(d) \/ OnTimeout(d)
  PROVE  \E s \in Vault : Advanced(d, s) /\ ForgetsWhatIsBacked(d, s)
<1>1. CASE UNCHANGED <<store, seen>>
  <2>1. store[d] \in Vault /\ Advanced(d, store[d])
    BY <1>1, StillAdvanced
  <2> QED
    BY <1>1, <2>1 DEF ForgetsWhatIsBacked
<1>2. CASE Merge(d)
  <2>1. PICK on \in WrittenSets(store[d], Merged(d)) :
          LET s == Apply(store[d], Merged(d), on) IN Conclude(d, s, s)
    BY <1>2 DEF Merge
  <2> DEFINE s == Apply(store[d], Merged(d), on)
  <2>2. pc[d] = "merge" /\ Conclude(d, s, s) /\ Remember(d, s)
    BY <1>2, <2>1 DEF Merge, Conclude
  <2>3. s \in Vault /\ Advanced(d, s)
    BY <2>2, MergeAdvances
  <2>4. ~NeedUpload(d, s) => \A e \in Entry : LocalItem(s, e).ts <= began[d]
                               => CloudItem(cloud, e).ts >= LocalItem(s, e).ts
    BY <2>2, <2>3, NothingToUpload
  <2> HIDE DEF s
  <2>5. CASE NeedUpload(d, s)
    <3>1. store'[d] = s
      BY <2>2, <2>5 DEF Conclude, TypeOK
    <3> QED
      BY <2>3, <3>1 DEF ForgetsWhatIsBacked
  <2>6. CASE ~NeedUpload(d, s)
    <3>1. CleanUp(d, s) /\ cloud' = cloud
      BY <2>2, <2>6 DEF Conclude
    <3> QED
      BY <2>3, <2>4, <2>6, <3>1, CleanUpForgets
  <2> QED
    BY <2>5, <2>6
<1>3. CASE MergeFails(d)
  <2>1. PICK on \in SUBSET Entry :
          LET s == Apply(store[d], Merged(d), on)
          IN store' = [store EXCEPT ![d] = s] /\ Remember(d, s)
    BY <1>3 DEF MergeFails
  <2> DEFINE s == Apply(store[d], Merged(d), on)
  <2>2. s \in Vault /\ Advanced(d, s)
    BY <1>3, <2>1, MergeAdvances DEF MergeFails
  <2>3. store' = [store EXCEPT ![d] = s]
    BY <2>1
  <2> HIDE DEF s
  <2>4. store'[d] = s
    BY <2>3 DEF TypeOK
  <2> QED
    BY <2>2, <2>4 DEF ForgetsWhatIsBacked
<1>4. CASE Finish(d)
  <2>1. pc[d] = "sent" /\ CleanUp(d, store[d]) /\ cloud' = cloud /\ seen' = seen
    BY <1>4 DEF Finish
  <2>2. store[d] \in Vault /\ Advanced(d, store[d])
    BY <2>1, StillAdvanced
  <2>3. \A e \in Entry : LocalItem(store[d], e).ts <= began[d]
                           => CloudItem(cloud, e).ts >= LocalItem(store[d], e).ts
    BY <2>1 DEF Covered
  <2>4. ForgetsWhatIsBacked(d, store[d])
    BY <2>1, <2>2, <2>3, CleanUpForgets
  <2> QED
    BY <2>2, <2>4
<1>5. CASE ReadBackup(d) \/ CheckVersion(d) \/ VersionMismatch(d) \/ PatchFile(d) \/ UploadBackup(d)
  BY <1>1, <1>5 DEF ReadBackup, CheckVersion, VersionMismatch, PatchFile, UploadBackup, Replace
<1>6. CASE OnTimeoutLocked(d) \/ NetworkFails(d) \/ Restart(d) \/ SyncImmediately(d) \/ OnTimeout(d)
  BY <1>1, <1>6 DEF OnTimeoutLocked, NetworkFails, Restart, SyncImmediately, OnTimeout
<1> QED
  BY <1>2, <1>3, <1>4, <1>5, <1>6 DEF RunStep, FailStep

\* The other devices' runs stay where they are.
Alone(d) ==
  \A c \in Device \ {d} :
    /\ store'[c] = store[c] /\ seen'[c] = seen[c]
    /\ pc'[c] = pc[c] /\ snap'[c] = snap[c] /\ got'[c] = got[c] /\ out'[c] = out[c]
    /\ began'[c] = began[c]

LEMMA RunAlone ==
  ASSUME TypeOK, NEW d \in Device,
         RunStep(d) \/ FailStep(d) \/ SyncImmediately(d) \/ OnTimeout(d)
  PROVE  Alone(d)
<1>1. ASSUME NEW result, EndRun(d, result)
      PROVE  \A c \in Device \ {d} : /\ pc'[c] = pc[c] /\ snap'[c] = snap[c] /\ got'[c] = got[c]
                                     /\ out'[c] = out[c] /\ began'[c] = began[c]
  BY <1>1 DEF EndRun, Forget, TypeOK
<1>2. ASSUME NEW n, StartRun(d, n)
      PROVE  \A c \in Device \ {d} : pc'[c] = pc[c] /\ snap'[c] = snap[c] /\ began'[c] = began[c]
  BY <1>2 DEF StartRun, TypeOK
<1>3. ASSUME NEW s, Remember(d, s)
      PROVE  \A c \in Device \ {d} : seen'[c] = seen[c]
  BY <1>3 DEF Remember, TypeOK
<1>4. ASSUME NEW s, CleanUp(d, s)
      PROVE  \A c \in Device \ {d} :
               /\ store'[c] = store[c]
               /\ pc'[c] = pc[c] /\ snap'[c] = snap[c] /\ got'[c] = got[c]
               /\ out'[c] = out[c] /\ began'[c] = began[c]
  <2>1. \A c \in Device \ {d} : store'[c] = store[c]
    BY <1>4 DEF CleanUp, TypeOK
  <2> QED
    BY <1>1, <1>4, <2>1 DEF CleanUp
<1>5. CASE Merge(d)
  <2>1. PICK s : Conclude(d, s, s)
    BY <1>5 DEF Merge
  <2>2. CASE NeedUpload(d, s)
    BY <1>3, <2>1, <2>2 DEF Conclude, Alone, TypeOK
  <2>3. CASE ~NeedUpload(d, s)
    BY <1>3, <1>4, <2>1, <2>3 DEF Conclude, Alone
  <2> QED
    BY <2>2, <2>3
<1>6. CASE MergeFails(d)
  <2>1. PICK s : store' = [store EXCEPT ![d] = s] /\ Remember(d, s)
    BY <1>6 DEF MergeFails
  <2>2. \A c \in Device \ {d} : store'[c] = store[c]
    BY <2>1 DEF TypeOK
  <2> QED
    BY <1>1, <1>3, <1>6, <2>1, <2>2 DEF MergeFails, Alone
<1>7. CASE Finish(d)
  BY <1>4, <1>7 DEF Finish, Alone
<1>8. CASE VersionMismatch(d)
  <2>1. CASE attempt[d] < MaxRetries
    <3>1. StartRun(d, attempt[d] + 1) /\ Forget(d) /\ UNCHANGED <<store, seen>>
      BY <1>8, <2>1 DEF VersionMismatch
    <3>2. \A c \in Device \ {d} : got'[c] = got[c] /\ out'[c] = out[c]
      BY <3>1 DEF Forget, TypeOK
    <3> QED
      BY <1>2, <3>1, <3>2 DEF Alone
  <2>2. CASE ~(attempt[d] < MaxRetries)
    BY <1>1, <1>8, <2>2 DEF VersionMismatch, Alone
  <2> QED
    BY <2>1, <2>2
<1>9. CASE ReadBackup(d) \/ CheckVersion(d)
  BY <1>9 DEF ReadBackup, CheckVersion, Alone, TypeOK
<1>10. CASE PatchFile(d) \/ UploadBackup(d)
  BY <1>10 DEF PatchFile, UploadBackup, Replace, Alone, TypeOK
<1>11. CASE OnTimeoutLocked(d) \/ NetworkFails(d) \/ Restart(d)
  BY <1>1, <1>11 DEF OnTimeoutLocked, NetworkFails, Restart, Alone
<1>12. CASE SyncImmediately(d) \/ OnTimeout(d)
  BY <1>2, <1>12 DEF SyncImmediately, OnTimeout, Alone
<1> QED
  BY <1>5, <1>6, <1>7, <1>8, <1>9, <1>10, <1>11, <1>12 DEF RunStep, FailStep

\* What a run has read is the file as it was then.
LEMMA RunReads ==
  ASSUME TypeOK, NEW d \in Device, pc'[d] = "merge",
         RunStep(d) \/ FailStep(d) \/ SyncImmediately(d) \/ OnTimeout(d)
  PROVE  \/ got'[d] = cloud /\ cloud' = cloud
         \/ pc[d] = "merge" /\ got'[d] = got[d]
<1>1. ASSUME NEW result, EndRun(d, result) PROVE FALSE
  BY <1>1 DEF EndRun, TypeOK
<1>2. ASSUME NEW n, StartRun(d, n) PROVE FALSE
  BY <1>2 DEF StartRun, TypeOK
<1>3. CASE ReadBackup(d)
  BY <1>3 DEF ReadBackup, TypeOK
<1>4. CASE Merge(d)
  BY <1>1, <1>4 DEF Merge, Conclude, CleanUp, TypeOK
<1>5. CASE CheckVersion(d)
  BY <1>5 DEF CheckVersion, TypeOK
<1>6. CASE PatchFile(d) \/ UploadBackup(d)
  BY <1>6 DEF PatchFile, UploadBackup, Replace, TypeOK
<1>7. CASE VersionMismatch(d) \/ Finish(d)
  BY <1>1, <1>2, <1>7 DEF VersionMismatch, Finish, CleanUp
<1>8. CASE FailStep(d)
  BY <1>1, <1>8 DEF FailStep, OnTimeoutLocked, MergeFails, NetworkFails, Restart
<1>9. CASE SyncImmediately(d) \/ OnTimeout(d)
  BY <1>2, <1>9 DEF SyncImmediately, OnTimeout
<1> QED
  BY <1>3, <1>4, <1>5, <1>6, <1>7, <1>8, <1>9 DEF RunStep

LEMMA RunCovers ==
  ASSUME TypeOK, EitherOr, NothingNewer, HeldOrBacked, Guarded, Covered, Begun, NEW d \in Device,
         RunStep(d) \/ FailStep(d) \/ SyncImmediately(d) \/ OnTimeout(d)
  PROVE  /\ began'[d] <= clock
         /\ \A e \in Entry :
              LET t == LocalItem(store'[d], e).ts
              IN t <= began'[d] =>
                   /\ pc'[d] \in {"read", "merge"} => LocalItem(snap'[d], e).ts >= t
                   /\ pc'[d] \in {"check", "patch"} => CloudItem(out'[d], e).ts >= t
                   /\ pc'[d] = "sent" => CloudItem(cloud', e).ts >= t
<1> DEFINE Fine == /\ began'[d] <= clock
                   /\ \A e \in Entry :
                        LET t == LocalItem(store'[d], e).ts
                        IN t <= began'[d] =>
                             /\ pc'[d] \in {"read", "merge"} => LocalItem(snap'[d], e).ts >= t
                             /\ pc'[d] \in {"check", "patch"} => CloudItem(out'[d], e).ts >= t
                             /\ pc'[d] = "sent" => CloudItem(cloud', e).ts >= t
<1>1. clock \in Nat /\ began[d] \in Nat /\ began[d] <= clock
  BY NowTyped DEF TypeOK, Begun
<1>2. \A e \in Entry : LocalItem(store[d], e).ts >= LocalItem(store[d], e).ts
  BY OfferTyped
<1>3. ASSUME NEW result, EndRun(d, result) PROVE Fine
  <2>1. pc'[d] = "idle" /\ began'[d] = 0
    BY <1>3 DEF EndRun, TypeOK
  <2> QED
    BY <1>1, <2>1
<1>4. ASSUME NEW n, StartRun(d, n), store' = store PROVE Fine
  <2>1. pc'[d] = "read" /\ began'[d] = clock /\ snap'[d] = store[d]
    BY <1>4 DEF StartRun, TypeOK
  <2> QED
    BY <1>1, <1>2, <1>4, <2>1
<1>5. ASSUME NEW s, CleanUp(d, s) PROVE Fine
  BY <1>3, <1>5 DEF CleanUp
<1>6. CASE ReadBackup(d)
  <2>1. /\ pc[d] = "read" /\ pc'[d] = "merge" /\ store' = store /\ snap' = snap /\ began' = began
    BY <1>6 DEF ReadBackup, TypeOK
  <2> QED
    BY <1>1, <2>1 DEF Covered
<1>7. CASE Merge(d)
  <2>1. PICK on \in WrittenSets(store[d], Merged(d)) :
          LET s == Apply(store[d], Merged(d), on) IN Conclude(d, s, s)
    BY <1>7 DEF Merge
  <2> DEFINE s == Apply(store[d], Merged(d), on)
  <2>2. pc[d] = "merge" /\ Conclude(d, s, s) /\ Remember(d, s)
    BY <1>7, <2>1 DEF Merge, Conclude
  <2>3. s \in Vault /\ Advanced(d, s)
    BY <2>2, MergeAdvances
  <2> HIDE DEF s
  <2>4. CASE NeedUpload(d, s)
    <3>1. /\ pc'[d] \in {"check", "create"} /\ store'[d] = s /\ out'[d] = s /\ began' = began
      BY <2>2, <2>4 DEF Conclude, TypeOK
    <3>2. \A e \in Entry : LocalItem(s, e) = CloudItem(s, e) /\ LocalItem(s, e).ts \in Nat
      BY <2>3, OneOffer, ItemTyped DEF Advanced, Version
    <3> QED
      BY <1>1, <3>1, <3>2
  <2>5. CASE ~NeedUpload(d, s)
    BY <1>5, <2>2, <2>5 DEF Conclude
  <2> QED
    BY <2>4, <2>5
<1>8. CASE CheckVersion(d)
  <2>1. pc[d] = "check" /\ pc'[d] = "patch" /\ store' = store /\ out' = out /\ began' = began
    BY <1>8 DEF CheckVersion, TypeOK
  <2> QED
    BY <1>1, <2>1 DEF Covered
<1>9. CASE PatchFile(d)
  <2>1. /\ pc[d] = "patch" /\ pc'[d] = "sent" /\ store' = store /\ began' = began
        /\ cloud'.row = out[d].row /\ cloud'.mark = out[d].mark
    BY <1>9 DEF PatchFile, Replace, TypeOK
  <2>2. \A e \in Entry : CloudItem(cloud', e) = CloudItem(out[d], e)
    BY <2>1 DEF CloudItem
  <2> QED
    BY <1>1, <2>1, <2>2 DEF Covered
<1>10. CASE UploadBackup(d)
  BY <1>10 DEF UploadBackup, Guarded
<1>11. CASE VersionMismatch(d)
  BY <1>3, <1>4, <1>11 DEF VersionMismatch
<1>12. CASE Finish(d)
  BY <1>5, <1>12 DEF Finish
<1>13. CASE FailStep(d)
  BY <1>3, <1>13 DEF FailStep, OnTimeoutLocked, MergeFails, NetworkFails, Restart
<1>14. CASE OnTimeout(d)
  BY <1>4, <1>14 DEF OnTimeout
<1>15. CASE SyncImmediately(d)
  <2>1. CASE pc[d] = "idle"
    BY <1>4, <1>15, <2>1 DEF SyncImmediately
  <2>2. CASE pc[d] # "idle"
    <3>1. UNCHANGED <<store, cloud, pc, snap, out, began>>
      BY <1>15, <2>2 DEF SyncImmediately
    <3> QED
      BY <1>1, <3>1 DEF Covered
  <2> QED
    BY <2>1, <2>2
<1> QED
  BY <1>6, <1>7, <1>8, <1>9, <1>10, <1>11, <1>12, <1>13, <1>14, <1>15 DEF RunStep

BackedUp == HeldOrBacked /\ ReadBefore /\ Covered /\ Begun /\ OwnedOrBacked

LEMMA RunKeepsBackedUp ==
  ASSUME TypeOK, TypeOK', EitherOr, NothingNewer, NothingNewer', Guarded, BackedUp,
         NEW d \in Device, RunStep(d) \/ FailStep(d) \/ SyncImmediately(d) \/ OnTimeout(d),
         newest' = newest, clock' = clock,
         cloud' = cloud \/ \A e \in Entry : CloudItem(cloud', e).ts >= CloudItem(cloud, e).ts
  PROVE  BackedUp'
<1>1. PICK s \in Vault : Advanced(d, s) /\ ForgetsWhatIsBacked(d, s)
  BY RunForgets DEF BackedUp
<1>2. Alone(d)
  BY RunAlone
<1>3. \A e \in Entry : /\ CloudItem(cloud', e).ts \in Nat
                       /\ CloudItem(cloud', e).ts >= CloudItem(cloud, e).ts
  <2>1. cloud' \in Backup
    BY DEF TypeOK
  <2>2. \A e \in Entry : CloudItem(cloud', e).ts \in Nat
    BY <2>1, ItemTyped DEF Version
  <2> QED
    BY <2>2, OfferTyped
<1>4. \A e \in Entry : LocalItem(s, e).ts \in Nat
  BY <1>1, ItemTyped DEF Version
<1>5. pc'[d] = "merge" => \/ got'[d] = cloud /\ cloud' = cloud
                          \/ pc[d] = "merge" /\ got'[d] = got[d]
  BY RunReads
<1>6. HeldOrBacked'
  <2>1. ASSUME NEW c \in Device, NEW e \in Entry
        PROVE  \/ LocalItem(store'[c], e).ts = seen'[c][e]
               \/ /\ LocalItem(store'[c], e) = NoVersion
                  /\ CloudItem(cloud', e).ts >= seen'[c][e]
                  /\ pc'[c] = "merge" => CloudItem(got'[c], e).ts >= seen'[c][e]
    <3>1. \/ LocalItem(store[c], e).ts = seen[c][e]
          \/ /\ LocalItem(store[c], e) = NoVersion
             /\ CloudItem(cloud, e).ts >= seen[c][e]
             /\ pc[c] = "merge" => CloudItem(got[c], e).ts >= seen[c][e]
      BY DEF BackedUp, HeldOrBacked
    <3>2. /\ LocalItem(store[c], e).ts \in Nat /\ seen[c][e] \in Nat
          /\ CloudItem(cloud, e).ts \in Nat /\ CloudItem(got[c], e).ts \in Nat
      BY OfferTyped
    <3>3. CASE c # d
      <4>1. /\ store'[c] = store[c] /\ seen'[c] = seen[c] /\ pc'[c] = pc[c] /\ got'[c] = got[c]
        BY <1>2, <3>3 DEF Alone
      <4> QED
        BY <1>3, <3>1, <3>2, <4>1
    <3>4. CASE c = d
      <4>1. seen'[d][e] = Larger(seen[d][e], LocalItem(s, e).ts)
        BY <1>1 DEF Advanced
      <4>2. LocalItem(s, e).ts >= seen[d][e] => seen'[d][e] = LocalItem(s, e).ts
        BY <1>4, <3>2, <3>4, <4>1 DEF Larger
      <4>3. \/ LocalItem(s, e).ts >= seen[d][e]
            \/ LocalItem(s, e) = LocalItem(store[d], e)
        BY <1>1 DEF Advanced
      <4>4. LocalItem(s, e) = NoVersion => seen'[d][e] = seen[d][e]
        BY <3>2, <3>4, <4>1 DEF Larger, NoVersion
      <4>5. CASE LocalItem(store'[d], e) = LocalItem(s, e)
        <5>1. CASE LocalItem(s, e).ts >= seen[d][e]
          BY <3>4, <4>2, <4>5, <5>1
        <5>2. CASE /\ ~(LocalItem(s, e).ts >= seen[d][e])
                   /\ LocalItem(s, e) = LocalItem(store[d], e)
          <6>1. /\ LocalItem(s, e) = NoVersion
                /\ CloudItem(cloud, e).ts >= seen[d][e]
                /\ pc[d] = "merge" => CloudItem(got[d], e).ts >= seen[d][e]
            BY <3>1, <3>2, <3>4, <5>2
          <6>2. seen'[d][e] = seen[d][e]
            BY <4>4, <6>1
          <6>3. CloudItem(cloud', e).ts >= seen'[d][e]
            BY <1>3, <3>2, <3>4, <6>1, <6>2
          <6>4. pc'[d] = "merge" => CloudItem(got'[d], e).ts >= seen'[d][e]
            BY <1>5, <6>1, <6>2
          <6> QED
            BY <3>4, <4>5, <6>1, <6>3, <6>4
        <5> QED
          BY <4>3, <5>1, <5>2
      <4>6. CASE /\ LocalItem(store'[d], e) = NoVersion /\ pc'[d] = "idle" /\ cloud' = cloud
                 /\ CloudItem(cloud, e).ts >= LocalItem(s, e).ts
        <5>1. CloudItem(cloud, e).ts >= seen'[d][e]
          <6>1. CASE LocalItem(s, e).ts >= seen[d][e]
            BY <4>2, <4>6, <6>1
          <6>2. CASE /\ ~(LocalItem(s, e).ts >= seen[d][e])
                     /\ LocalItem(s, e) = LocalItem(store[d], e)
            BY <3>1, <3>2, <3>4, <4>4, <6>2
          <6> QED
            BY <4>3, <6>1, <6>2
        <5> QED
          BY <3>4, <4>6, <5>1
      <4> QED
        BY <1>1, <4>5, <4>6 DEF ForgetsWhatIsBacked
    <3> QED
      BY <3>3, <3>4
  <2> QED
    BY <2>1 DEF HeldOrBacked, LocalItem, CloudItem
<1>7. ReadBefore'
  <2>1. ASSUME NEW c \in Device, NEW e \in Entry, pc'[c] = "merge"
        PROVE  CloudItem(cloud', e).ts >= CloudItem(got'[c], e).ts
    <3>1. /\ CloudItem(cloud, e).ts \in Nat /\ CloudItem(got[c], e).ts \in Nat
          /\ pc[c] = "merge" => CloudItem(cloud, e).ts >= CloudItem(got[c], e).ts
      BY OfferTyped DEF BackedUp, ReadBefore
    <3>2. \/ got'[c] = cloud /\ cloud' = cloud
          \/ pc[c] = "merge" /\ got'[c] = got[c]
      BY <1>2, <1>5, <2>1 DEF Alone
    <3> QED
      BY <1>3, <3>1, <3>2
  <2> QED
    BY <2>1 DEF ReadBefore, CloudItem
<1>8. Covered' /\ Begun'
  <2>1. /\ began'[d] <= clock
        /\ \A e \in Entry :
              LET t == LocalItem(store'[d], e).ts
              IN t <= began'[d] =>
                   /\ pc'[d] \in {"read", "merge"} => LocalItem(snap'[d], e).ts >= t
                   /\ pc'[d] \in {"check", "patch"} => CloudItem(out'[d], e).ts >= t
                   /\ pc'[d] = "sent" => CloudItem(cloud', e).ts >= t
    BY RunCovers DEF BackedUp
  <2>2. ASSUME NEW c \in Device, c # d
        PROVE  /\ began'[c] <= clock
               /\ \A e \in Entry :
                    LET t == LocalItem(store'[c], e).ts
                    IN t <= began'[c] =>
                         /\ pc'[c] \in {"read", "merge"} => LocalItem(snap'[c], e).ts >= t
                         /\ pc'[c] \in {"check", "patch"} => CloudItem(out'[c], e).ts >= t
                         /\ pc'[c] = "sent" => CloudItem(cloud', e).ts >= t
    <3>1. /\ store'[c] = store[c] /\ began'[c] = began[c] /\ pc'[c] = pc[c]
          /\ snap'[c] = snap[c] /\ out'[c] = out[c]
      BY <1>2, <2>2 DEF Alone
    <3>2. began[c] <= clock
      BY DEF BackedUp, Begun
    <3>3. ASSUME NEW e \in Entry, LocalItem(store[c], e).ts <= began[c]
          PROVE  LET t == LocalItem(store[c], e).ts
                 IN /\ pc[c] \in {"read", "merge"} => LocalItem(snap[c], e).ts >= t
                    /\ pc[c] \in {"check", "patch"} => CloudItem(out[c], e).ts >= t
                    /\ pc[c] = "sent" => CloudItem(cloud', e).ts >= t
      BY <1>3, <3>3, OfferTyped DEF BackedUp, Covered
    <3> QED
      BY <3>1, <3>2, <3>3
  <2>3. \A c \in Device : c = d \/ c # d
    OBVIOUS
  <2> QED
    BY <2>1, <2>2, <2>3 DEF Covered, Begun, LocalItem, CloudItem
<1>9. OwnedOrBacked'
  <2>1. ASSUME NEW e \in Entry, newest[e] # NoVersion
        PROVE  \/ CloudItem(cloud', e) = newest[e]
               \/ \E c \in Device : LocalItem(store'[c], e) = newest[e]
    <3>1. newest[e].ts \in Nat
      BY DEF TypeOK, Version
    <3>2. Known(e, CloudItem(cloud', e))
      <4>1. cloud' \in Copies' /\ cloud' \in Backup
        BY DEF Copies, TypeOK
      <4>2. KnownIn(cloud', e)
        BY <4>1 DEF NothingNewer, KnownIn, Known
      <4> QED
        BY <4>1, <4>2, KnownItem
    <3>3. CloudItem(cloud', e).ts >= newest[e].ts => CloudItem(cloud', e) = newest[e]
      BY <1>3, <3>1, <3>2 DEF Known
    <3>4. CASE CloudItem(cloud, e) = newest[e]
      BY <1>3, <3>3, <3>4
    <3>5. ASSUME NEW c \in Device, LocalItem(store[c], e) = newest[e], c # d
          PROVE  LocalItem(store'[c], e) = newest[e]
      BY <1>2, <3>5 DEF Alone
    <3>6. CASE LocalItem(store[d], e) = newest[e]
      <4>1. LocalItem(s, e).ts >= newest[e].ts
        BY <1>1, <3>6 DEF Advanced
      <4>2. CASE LocalItem(store'[d], e) = LocalItem(s, e)
        <5>1. store'[d] \in Copies' /\ store'[d] \in Vault
          BY DEF Copies, TypeOK
        <5>2. KnownIn(store'[d], e)
          BY <5>1 DEF NothingNewer, KnownIn, Known
        <5>3. Known(e, LocalItem(store'[d], e))
          BY <5>1, <5>2, KnownItem
        <5>4. LocalItem(store'[d], e) = newest[e]
          BY <1>4, <3>1, <4>1, <4>2, <5>3 DEF Known
        <5> QED
          BY <5>4
      <4>3. CASE cloud' = cloud /\ CloudItem(cloud, e).ts >= LocalItem(s, e).ts
        BY <1>3, <1>4, <3>1, <3>3, <4>1, <4>3
      <4> QED
        BY <1>1, <4>2, <4>3 DEF ForgetsWhatIsBacked
    <3> QED
      BY <2>1, <3>4, <3>5, <3>6 DEF BackedUp, OwnedOrBacked
  <2> QED
    BY <2>1 DEF OwnedOrBacked, LocalItem, CloudItem
<1> QED
  BY <1>6, <1>7, <1>8, <1>9 DEF BackedUp

LEMMA WriteKeepsBackedUp ==
  ASSUME TypeOK, TypeOK', NothingNewer, Stamped, BackedUp,
         NEW d \in Device, NEW e \in Entry, NEW row \in Row, NEW mark \in Nat,
         Writes(d, e, row, mark)
  PROVE  BackedUp'
<1> DEFINE now == Now(d)
<1>1. /\ LocalItem(store'[d], e) = newest'[e] /\ newest'[e].ts = now
      /\ newest[e].ts < now /\ newest[e].ts \in Nat
  BY WrittenItem, WrittenNow DEF TypeOK, Version
<1>2. now \in Nat /\ clock \in Nat /\ now > clock
  <2>1. Ahead[d] \in Nat
    BY AheadAssumption
  <2> QED
    BY <2>1, NowTyped DEF Now
<1>3. /\ UNCHANGED <<cloud, pc, snap, got, out, began>> /\ clock' = clock + 1
      /\ \A f \in Entry : f # e => newest'[f] = newest[f]
  BY DEF Writes, Write, job, TypeOK
<1>4. /\ \A c \in Device : c # d => store'[c] = store[c]
      /\ \A f \in Entry : f # e => LocalItem(store'[d], f) = LocalItem(store[d], f)
  BY WrittenCopies DEF Writes, LocalItem
<1>5. /\ \A c \in Device : c # d => seen'[c] = seen[c]
      /\ \A f \in Entry : seen'[d][f] = Larger(seen[d][f], LocalItem(store'[d], f).ts)
  <2>1. store' = [store EXCEPT ![d] = store'[d]] /\ Remember(d, store'[d])
    BY DEF Writes, Write, TypeOK
  <2> QED
    BY <2>1 DEF Remember, TypeOK
<1>6. HeldOrBacked'
  <2>1. ASSUME NEW c \in Device, NEW f \in Entry
        PROVE  \/ LocalItem(store'[c], f).ts = seen'[c][f]
               \/ /\ LocalItem(store'[c], f) = NoVersion
                  /\ CloudItem(cloud, f).ts >= seen'[c][f]
                  /\ pc[c] = "merge" => CloudItem(got[c], f).ts >= seen'[c][f]
    <3>1. \/ LocalItem(store[c], f).ts = seen[c][f]
          \/ /\ LocalItem(store[c], f) = NoVersion
             /\ CloudItem(cloud, f).ts >= seen[c][f]
             /\ pc[c] = "merge" => CloudItem(got[c], f).ts >= seen[c][f]
      BY DEF BackedUp, HeldOrBacked
    <3>2. LocalItem(store[c], f).ts \in Nat /\ seen[c][f] \in Nat /\ CloudItem(cloud, f).ts \in Nat
      BY OfferTyped
    <3>3. CASE c = d /\ f = e
      <4>1. LocalItem(store[d], e).ts <= newest[e].ts /\ CloudItem(cloud, e).ts <= newest[e].ts
        <5>1. /\ KnownIn(store[d], e) /\ store[d] \in Vault
              /\ KnownIn(cloud, e) /\ cloud \in Backup
          BY DEF NothingNewer, Copies, TypeOK
        <5> QED
          BY <5>1, KnownItem DEF Known
      <4>2. seen[d][e] < now
        BY <1>1, <1>2, <3>1, <3>2, <3>3, <4>1
      <4>3. seen'[d][e] = now
        BY <1>1, <1>2, <1>5, <3>2, <3>3, <4>2 DEF Larger
      <4> QED
        BY <1>1, <3>3, <4>3
    <3>4. CASE c = d /\ f # e
      <4>1. LocalItem(store'[d], f) = LocalItem(store[d], f)
        BY <1>4, <3>4
      <4>2. seen'[d][f] = seen[d][f]
        <5>1. LocalItem(store[d], f).ts <= seen[d][f]
          BY <3>1, <3>2, <3>4 DEF NoVersion
        <5> QED
          BY <1>5, <3>2, <3>4, <4>1, <5>1 DEF Larger
      <4> QED
        BY <3>1, <3>4, <4>1, <4>2
    <3>5. CASE c # d
      BY <1>4, <1>5, <3>1, <3>5
    <3> QED
      BY <3>3, <3>4, <3>5
  <2> QED
    BY <1>3, <2>1 DEF HeldOrBacked, LocalItem, CloudItem
<1>7. Covered'
  <2>1. ASSUME NEW c \in Device, NEW f \in Entry
        PROVE  LET t == LocalItem(store'[c], f).ts
               IN t <= began[c] =>
                    /\ pc[c] \in {"read", "merge"} => LocalItem(snap[c], f).ts >= t
                    /\ pc[c] \in {"check", "patch"} => CloudItem(out[c], f).ts >= t
                    /\ pc[c] = "sent" => CloudItem(cloud, f).ts >= t
    <3>1. CASE c = d /\ f = e
      <4>1. began[d] <= clock /\ began[d] \in Nat
        BY OfferTyped DEF BackedUp, Begun
      <4>2. ~(LocalItem(store'[d], e).ts <= began[d])
        BY <1>1, <1>2, <4>1
      <4> QED
        BY <3>1, <4>2
    <3>2. CASE ~(c = d /\ f = e)
      <4>1. LocalItem(store'[c], f) = LocalItem(store[c], f)
        BY <1>4, <3>2
      <4> QED
        BY <4>1 DEF BackedUp, Covered
    <3> QED
      BY <3>1, <3>2
  <2> QED
    BY <1>3, <2>1 DEF Covered, LocalItem, CloudItem
<1>8. ReadBefore'
  BY <1>3 DEF BackedUp, ReadBefore, CloudItem
<1>9. Begun'
  <2>1. \A c \in Device : began[c] \in Nat /\ began[c] <= clock
    BY DEF TypeOK, BackedUp, Begun
  <2> QED
    BY <1>2, <1>3, <2>1 DEF Begun
<1>10. OwnedOrBacked'
  <2>1. ASSUME NEW f \in Entry, newest'[f] # NoVersion
        PROVE  \/ CloudItem(cloud, f) = newest'[f]
               \/ \E c \in Device : LocalItem(store'[c], f) = newest'[f]
    <3>1. CASE f = e
      BY <1>1, <3>1
    <3>2. CASE f # e
      BY <1>3, <1>4, <2>1, <3>2 DEF BackedUp, OwnedOrBacked
    <3> QED
      BY <3>1, <3>2
  <2> QED
    BY <1>3, <2>1 DEF OwnedOrBacked, LocalItem, CloudItem
<1> QED
  BY <1>6, <1>7, <1>8, <1>9, <1>10 DEF BackedUp

\* The inductive invariant.
NewestBackedUp == EitherOr /\ Guarded /\ NothingNewer /\ Stamped /\ BackedUp

LEMMA InitBackedUp == ASSUME CloudExists PROVE Init => NewestBackedUp
<1> SUFFICES ASSUME Init PROVE NewestBackedUp
  OBVIOUS
<1>1. EitherOr /\ Guarded /\ NothingNewer /\ Stamped /\ Best /\ Owned
  BY InitApart, InitGuarded, InitNewest DEF NewestWins
<1>2. HeldOrBacked /\ OwnedOrBacked
  BY <1>1 DEF Best, HeldOrBacked, Owned, OwnedOrBacked
<1>3. ReadBefore /\ Covered
  BY DEF Init, ReadBefore, Covered
<1>4. Begun
  BY DEF Init, Begun
<1> QED
  BY <1>1, <1>2, <1>3, <1>4 DEF NewestBackedUp, BackedUp

LEMMA NextBackedUp ==
  ASSUME InStep, ~LateWrites, ~ReimportsDeleted, OwnTitles
  PROVE  TypeOK /\ NewestBackedUp /\ [Next]_vars => NewestBackedUp'
<1> SUFFICES ASSUME TypeOK, NewestBackedUp, [Next]_vars PROVE NewestBackedUp'
  OBVIOUS
<1>1. TypeOK'
  BY NextTyped
<1>2. /\ EitherOr' /\ Guarded' /\ NothingNewer' /\ Stamped'
      /\ \/ cloud' = cloud
         \/ \A e \in Entry : CloudItem(cloud', e).ts >= CloudItem(cloud, e).ts
  BY NextApart, NextGuarded, NextKnown DEF NewestBackedUp
<1>3. ASSUME NEW d \in Device, NEW e \in Entry, UserStep(d, e)
      PROVE  BackedUp'
  <2>1. PICK row \in Row, mark \in Nat : Writes(d, e, row, mark)
    BY <1>3, UserWrites
  <2> QED
    BY <1>1, <2>1, WriteKeepsBackedUp DEF NewestBackedUp
<1>4. ASSUME NEW d \in Device, RunStep(d) \/ FailStep(d) \/ SyncImmediately(d) \/ OnTimeout(d)
      PROVE  BackedUp'
  BY <1>1, <1>2, <1>4, NewestStays, RunKeepsBackedUp DEF NewestBackedUp
<1>5. ASSUME UNCHANGED vars
      PROVE  BackedUp'
  <2>1. HeldOrBacked' /\ ReadBefore' /\ Covered' /\ Begun' /\ OwnedOrBacked'
    BY <1>5 DEF vars, job, NewestBackedUp, BackedUp, HeldOrBacked, ReadBefore, Covered, Begun,
                OwnedOrBacked, LocalItem, CloudItem
  <2> QED
    BY <2>1 DEF BackedUp
<1> QED
  BY <1>2, <1>3, <1>4, <1>5 DEF Next, NewestBackedUp

LEMMA BackedUpAlways ==
  ASSUME InStep, CloudExists, ~LateWrites, ~ReimportsDeleted, OwnTitles
  PROVE  Spec => []NewestBackedUp
<1>1. Init => NewestBackedUp
  BY InitBackedUp
<1>2. TypeOK /\ NewestBackedUp /\ [Next]_vars => NewestBackedUp'
  BY NextBackedUp
<1>3. Spec => []TypeOK
  BY TypeCorrect
<1> QED
  BY <1>1, <1>2, <1>3, PTL DEF Spec

\* Also where deletions expire (DeleteOldTombstones), if the backup only grows:
\* once a device has forgotten a deletion or a trashed entry, no merge brings the
\* entry back in an older version. What it forgets was older than the run, so the
\* run has read it in the backup or has sent it there before it cleaned up.
THEOREM ForgottenStaysForgotten ==
  ASSUME InStep, CloudExists, ~LateWrites, ~ReimportsDeleted, OwnTitles
  PROVE  Spec => []NeverGoesBack
<1>1. NewestBackedUp => NeverGoesBack
  BY DEF NewestBackedUp, BackedUp, HeldOrBacked, NeverGoesBack, NoVersion
<1> QED
  BY <1>1, BackedUpAlways, PTL

\* And what the last user action made of an entry, a deletion too, is still on a
\* device or in the backup after every device has forgotten it.
THEOREM ForgettingLosesNothing ==
  ASSUME InStep, CloudExists, ~LateWrites, ~ReimportsDeleted, OwnTitles
  PROVE  Spec => []NewestSurvives
<1>1. NewestBackedUp => NewestSurvives
  BY DEF NewestBackedUp, BackedUp, OwnedOrBacked, NewestSurvives, NoVersion
<1> QED
  BY <1>1, BackedUpAlways, PTL
=============================================================================
