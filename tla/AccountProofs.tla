---------------------------- MODULE AccountProofs ----------------------------
(***************************************************************************)
(* For any number of writes and of attempts: the version an upload checks   *)
(* is that of the content the merge has used, and no late answer stores     *)
(* credentials.                                                             *)
(*                                                                         *)
(* ReadBackup asks for the version, the content and the version again.      *)
(* Versions only grow, so that the content's lies between the two it asked  *)
(* for (Bracketed): when they are equal, so is the content's.               *)
(*                                                                         *)
(* And credentials are stored only by an authorization the wizard waits     *)
(* for: an answer that nobody waits for any more is stale (OnlyAsked).      *)
(*                                                                         *)
(* And the page tells the truth, although clicks, a wizard and a run work   *)
(* in each other's event loops: there are at most two loops (Nested), what  *)
(* the client, the wizard or a request says it waits for is under way       *)
(* (Waits), and the page shows what the client has (Shown).                 *)
(***************************************************************************)
EXTENDS Account, SequenceTheorems, TLAPS

Job == [op : {"none", "read", "match", "blind"},
        at : {"none", "folder", "file", "found", "noFolder", "noFile", "before", "media", "after", "read",
              "check", "checked", "patch", "post", "create", "hint", "done", "failed"},
        file : File \cup {0}, before : Nat, body : Nat, expect : Nat, tries : Nat]

Drive == [folder : BOOLEAN, file : [File -> Nat], writes : Nat]

\* How far the answers of ReadBackup's three requests pin the content down.
Bracketed ==
  /\ job.at \in {"folder", "file", "found", "create"} => job.op # "none"
  /\ job.at \in {"found", "before", "media", "after", "read", "check", "checked", "patch"} => job.file \in File
  /\ job.at \in {"before", "media", "after", "read"} => job.op = "read"
  /\ job.op = "read" =>
       /\ job.at = "media" => job.before <= drive.file[job.file]
       /\ job.at = "after" => job.before <= job.body /\ job.body <= drive.file[job.file]
       /\ job.at = "read" => job.before <= job.body /\ job.body <= job.expect

IInv ==
  /\ job \in Job /\ drive \in Drive
  /\ \A f \in File : drive.file[f] <= drive.writes
  /\ Bracketed
  /\ MergesWhatItChecks

\* The state before the first request.
LEMMA InitiallyBracketed == Init => IInv
  BY DEF Init, IInv, Job, Drive, Bracketed, MergesWhatItChecks, NoJob, File

\* Steps that leave the provider and the server alone.
LEMMA ElsewhereBracketed == IInv /\ UNCHANGED <<job, drive>> => IInv'
  BY DEF IInv, Bracketed, MergesWhatItChecks

\* Between two runs there is nothing to bracket.
LEMMA NoJobBracketed == IInv /\ job' = NoJob /\ UNCHANGED drive => IInv'
  BY DEF IInv, Job, Drive, Bracketed, MergesWhatItChecks, NoJob, File

\* A write, by whomever, gives a file a version above every version so far.
LEMMA VersionsGrow ==
  ASSUME IInv, NEW f \in File, drive' = Writes(f)
  PROVE  /\ drive' \in Drive
         /\ \A g \in File : drive'.file[g] <= drive'.writes /\ drive.file[g] <= drive'.file[g]
<1>1. drive \in Drive /\ \A g \in File : drive.file[g] <= drive.writes
  BY DEF IInv
<1>2. drive' = [folder |-> drive.folder, file |-> [drive.file EXCEPT ![f] = drive.writes + 1],
                writes |-> drive.writes + 1]
  BY <1>1 DEF Drive, Writes
<1> QED
  BY <1>1, <1>2 DEF Drive

\* What a write does to a job that is not touched by it.
LEMMA WriteBracketed ==
  ASSUME IInv, NEW f \in File, drive' = Writes(f), UNCHANGED job
  PROVE  IInv'
<1>1. /\ drive' \in Drive
      /\ \A g \in File : drive'.file[g] <= drive'.writes /\ drive.file[g] <= drive'.file[g]
  BY VersionsGrow
<1>2. Bracketed'
  BY <1>1, SMTT(20) DEF IInv, Bracketed, Job, Drive
<1> QED
  BY <1>1, <1>2 DEF IInv, MergesWhatItChecks

\* A request's answer, from the server as it is at that moment.
LEMMA FindsBracketed == IInv /\ DriveFinds => IInv'
<1> SUFFICES ASSUME IInv, DriveFinds PROVE IInv'
  OBVIOUS
<1>0. drive' = drive /\ job \in Job /\ drive \in Drive
  BY DEF IInv, DriveFinds
<1>1. CASE job.at = "folder"
  <2>1. \E at \in {"file", "noFolder"} : job' = [job EXCEPT !.at = at]
    BY <1>1, Zenon DEF DriveFinds
  <2> QED
    BY <1>0, <1>1, <2>1 DEF IInv, Bracketed, Job, Drive, MergesWhatItChecks
<1>2. CASE job.at = "file"
  <2>1. \/ \E f \in File : job' = [job EXCEPT !.at = "found", !.file = f]
        \/ job' = [job EXCEPT !.at = "noFile"]
    BY <1>2, Zenon DEF DriveFinds
  <2>2. ASSUME NEW f \in File, job' = [job EXCEPT !.at = "found", !.file = f] PROVE IInv'
    BY <1>0, <1>2, <2>2 DEF IInv, Bracketed, Job, Drive, MergesWhatItChecks
  <2>3. CASE job' = [job EXCEPT !.at = "noFile"]
    BY <1>0, <1>2, <2>3 DEF IInv, Bracketed, Job, Drive, MergesWhatItChecks
  <2> QED
    BY <2>1, <2>2, <2>3
<1>3. CASE job.at \in {"before", "check"}
  <2>1. \E at \in {"checked", "media"} :
          /\ at = "media" <=> job.at = "before"
          /\ job' = [job EXCEPT !.at = at, !.before = drive.file[job.file]]
    BY <1>3, Zenon DEF DriveFinds
  <2>2. drive.file[job.file] \in Nat
    BY <1>0, <1>3 DEF IInv, Bracketed, Drive
  <2>3. job' \in Job
    BY <1>0, <2>1, <2>2 DEF Job
  <2>4. Bracketed' /\ MergesWhatItChecks'
    BY <1>0, <1>3, <2>1, <2>2 DEF IInv, Bracketed, Job, Drive, MergesWhatItChecks
  <2> QED
    BY <1>0, <2>3, <2>4 DEF IInv
<1>4. CASE job.at = "media"
  <2>1. job' = [job EXCEPT !.at = "after", !.body = drive.file[job.file]]
    BY <1>4, Zenon DEF DriveFinds
  <2>2. drive.file[job.file] \in Nat
    BY <1>0, <1>4 DEF IInv, Bracketed, Drive
  <2>3. job' \in Job
    BY <1>0, <2>1, <2>2 DEF Job
  <2>4. Bracketed' /\ MergesWhatItChecks'
    BY <1>0, <1>4, <2>1, <2>2 DEF IInv, Bracketed, Job, Drive, MergesWhatItChecks
  <2> QED
    BY <1>0, <2>3, <2>4 DEF IInv
<1>5. CASE job.at = "after"
  <2>1. job' = [job EXCEPT !.at = "read", !.expect = drive.file[job.file]]
    BY <1>5, Zenon DEF DriveFinds
  <2>2. drive.file[job.file] \in Nat
    BY <1>0, <1>5 DEF IInv, Bracketed, Drive
  <2>3. job' \in Job
    BY <1>0, <2>1, <2>2 DEF Job
  <2>4. Bracketed' /\ MergesWhatItChecks'
    BY <1>0, <1>5, <2>1, <2>2 DEF IInv, Bracketed, Job, Drive, MergesWhatItChecks
  <2> QED
    BY <1>0, <2>3, <2>4 DEF IInv
<1>6. CASE job.at = "hint"
  <2>1. job' = [job EXCEPT !.at = "done"]
    BY <1>6, Zenon DEF DriveFinds
  <2> QED
    BY <1>0, <1>6, <2>1 DEF IInv, Bracketed, Job, Drive, MergesWhatItChecks
<1> QED
  BY <1>1, <1>2, <1>3, <1>4, <1>5, <1>6 DEF DriveFinds

\* A request that writes: the job goes on to a position that brackets nothing.
LEMMA WritesBracketed == IInv /\ DriveWrites => IInv'
<1> SUFFICES ASSUME IInv, DriveWrites PROVE IInv'
  OBVIOUS
<1>1. \/ drive' = [drive EXCEPT !.folder = TRUE]
      \/ \E f \in File : drive' = Writes(f)
  <2>1. job.at = "patch" => job.file \in File
    BY DEF IInv, Bracketed
  <2> QED
    BY <2>1, Zenon DEF DriveWrites
<1>2. drive' \in Drive /\ \A g \in File : drive'.file[g] <= drive'.writes
  <2>1. CASE drive' = [drive EXCEPT !.folder = TRUE]
    BY <2>1 DEF IInv, Drive
  <2>2. CASE \E f \in File : drive' = Writes(f)
    BY <2>2, VersionsGrow
  <2> QED
    BY <1>1, <2>1, <2>2
<1>3. \E at \in {"file", "done", "hint", "failed"} :
        (at = "file" => job.at = "create") /\ job' = [job EXCEPT !.at = at]
  BY Zenon DEF DriveWrites
<1>4. job' \in Job /\ Bracketed' /\ MergesWhatItChecks'
  BY <1>3 DEF IInv, Bracketed, Job, Drive, MergesWhatItChecks
<1> QED
  BY <1>2, <1>4 DEF IInv

LEMMA FailsBracketed == IInv /\ DriveFails => IInv'
<1> SUFFICES ASSUME IInv, DriveFails PROVE IInv'
  OBVIOUS
<1>1. drive' = drive /\ \E at \in {"done", "failed"} : job' = [job EXCEPT !.at = at]
  BY Zenon DEF DriveFails
<1> QED
  BY <1>1 DEF IInv, Bracketed, Job, Drive, MergesWhatItChecks

\* Other devices write whenever they like.
LEMMA OthersBracketed == IInv /\ (OtherDeviceWrites \/ OtherDeviceCreatesFolder) => IInv'
<1>1. IInv /\ OtherDeviceWrites => IInv'
  BY WriteBracketed DEF OtherDeviceWrites, work
<1>2. IInv /\ OtherDeviceCreatesFolder => IInv'
  <2> SUFFICES ASSUME IInv, OtherDeviceCreatesFolder PROVE IInv'
    OBVIOUS
  <2>1. job' = job /\ drive' = [drive EXCEPT !.folder = TRUE]
    BY DEF OtherDeviceCreatesFolder, work
  <2>2. drive' \in Drive /\ drive'.file = drive.file /\ drive'.writes = drive.writes
    BY <2>1 DEF IInv, Drive
  <2> QED
    BY <2>1, <2>2 DEF IInv, Bracketed, MergesWhatItChecks
<1> QED
  BY <1>1, <1>2

\* A run begins, or begins again, with nothing read.
LEMMA BeginsBracketed ==
  ASSUME IInv, UNCHANGED drive, NEW n \in Nat,
         \E op \in {"read", "blind"} : job' = [At(op, "folder") EXCEPT !.tries = n]
  PROVE  IInv'
<1>1. \E op \in {"read", "blind"} :
        job' = [op |-> op, at |-> "folder", file |-> 0, before |-> 0, body |-> 0, expect |-> 0, tries |-> n]
  BY DEF At, NoJob
<1> QED
  BY <1>1 DEF IInv, Job, Bracketed, MergesWhatItChecks, File

\* The position after an answer brackets what that answer brought.
LEMMA GoesOnBracketed == IInv /\ GoesOn => IInv'
<1> SUFFICES ASSUME IInv, GoesOn PROVE IInv'
  OBVIOUS
<1>1. CASE job.at = "found"
  <2>1. drive' = drive /\ \E at \in {"before", "check", "patch"} :
          (at = "before" => job.op = "read") /\ job' = [job EXCEPT !.at = at]
    <3>1. job.op \in {"read", "match", "blind"}
      BY <1>1 DEF IInv, Bracketed, Job
    <3>2. CASE job.op = "read"
      BY <1>1, <3>2, Zenon DEF GoesOn, NextRequest
    <3>3. CASE job.op = "match"
      BY <1>1, <3>3, Zenon DEF GoesOn, NextRequest
    <3>4. CASE job.op = "blind"
      BY <1>1, <3>4, Zenon DEF GoesOn, NextRequest
    <3> QED
      BY <3>1, <3>2, <3>3, <3>4
  <2> QED
    BY <1>1, <2>1 DEF IInv, Bracketed, Job, Drive, MergesWhatItChecks
<1>2. CASE job.at = "checked"
  <2>1. drive' = drive /\ job' = [job EXCEPT !.at = "patch"]
    BY <1>2, Zenon DEF GoesOn, NextRequest
  <2> QED
    BY <1>2, <2>1 DEF IInv, Bracketed, Job, Drive, MergesWhatItChecks
<1>3. CASE job.at \in {"noFolder", "noFile"}
  <2>1. drive' = drive /\ job.op = "blind" /\ \E at \in {"create", "post"} : job' = [job EXCEPT !.at = at]
    BY <1>3, Zenon DEF GoesOn, NextRequest
  <2> QED
    BY <1>3, <2>1 DEF IInv, Bracketed, Job, Drive, MergesWhatItChecks
<1>4. CASE job.at \in {"file", "media", "after", "hint"}
  <2>1. drive' = drive /\ job' = [job EXCEPT !.at = job.at]
    BY <1>4, Zenon DEF GoesOn, NextRequest
  <2>2. job' = job
    BY <2>1 DEF IInv, Job
  <2> QED
    BY <2>1, <2>2, ElsewhereBracketed
<1> QED
  BY <1>1, <1>2, <1>3, <1>4 DEF GoesOn

\* ReadBackup's two versions are equal, and so the content has that version.
LEMMA ReadBracketed == IInv /\ ReadReturns => IInv'
<1> SUFFICES ASSUME IInv, ReadReturns PROVE IInv'
  OBVIOUS
<1>1. CASE /\ job.at = "read" /\ FinishesRead
           /\ job' = [job EXCEPT !.op = "match", !.at = "folder"]
           /\ UNCHANGED drive
  <2>1. job.body = job.expect
    BY <1>1 DEF FinishesRead, IInv, Bracketed, Job
  <2> QED
    BY <1>1, <2>1 DEF IInv, Bracketed, Job, Drive, MergesWhatItChecks
<1>2. CASE /\ job' = [At("blind", "folder") EXCEPT !.tries = job.tries]
           /\ UNCHANGED drive
  BY <1>2, BeginsBracketed DEF IInv, Job
<1>3. CASE job' = NoJob /\ UNCHANGED drive
  BY <1>3, NoJobBracketed
<1> QED
  BY <1>1, <1>2, <1>3, Zenon DEF ReadReturns, EndsSync, Restart, Started, FinishesRead

\* A conflict starts over with another reading, or gives up.
LEMMA MismatchBracketed == IInv /\ VersionMismatch => IInv'
<1> SUFFICES ASSUME IInv, VersionMismatch PROVE IInv'
  OBVIOUS
<1>1. \/ job' = NoJob /\ UNCHANGED drive
      \/ job' = [At("read", "folder") EXCEPT !.tries = job.tries + 1] /\ UNCHANGED drive
  BY Zenon DEF VersionMismatch, EndsSync
<1>2. job.tries + 1 \in Nat
  BY DEF IInv, Job
<1> QED
  BY <1>1, <1>2, NoJobBracketed, BeginsBracketed

\* A run that starts has read nothing; the account's steps leave its job alone.
LEMMA RestBracketed ==
  ASSUME IInv,
         \/ SyncStarts \/ SyncSucceeds \/ SyncFails \/ RequestBegins \/ TokenGranted \/ WaitExpires
         \/ LookupRuns \/ RetryAccount \/ EmailReturns \/ RefreshReturns \/ AccessExpires
         \/ ConnectClick \/ WizardStart \/ CallbackReceived \/ ExchangeReturns
         \/ WizardReject \/ WizardReturns \/ AuthorizeCancelled \/ Disconnect \/ RevokeReturns
         \/ ResetConfirms \/ ResetDeclined \/ ResetForgets \/ Restart
  PROVE  IInv'
<1>1. CASE SyncStarts
  <2>1. job' = [At("read", "folder") EXCEPT !.tries = 1] /\ UNCHANGED drive
    BY <1>1 DEF SyncStarts
  <2> QED
    BY <2>1, BeginsBracketed
<1>2. CASE SyncSucceeds \/ SyncFails \/ ResetForgets \/ Restart
  <2>1. job' = NoJob /\ UNCHANGED drive
    BY <1>2, Zenon DEF SyncSucceeds, SyncFails, EndsSync, ResetForgets, Restart, Started
  <2> QED
    BY <2>1, NoJobBracketed
<1>3. CASE RequestBegins \/ TokenGranted \/ WaitExpires
  BY <1>3, ElsewhereBracketed, Zenon DEF RequestBegins, TokenGranted, WaitExpires
<1>4. CASE LookupRuns \/ RetryAccount \/ EmailReturns \/ RefreshReturns \/ AccessExpires
  BY <1>4, ElsewhereBracketed, Zenon
  DEF LookupRuns, RetryAccount, EmailReturns, RefreshReturns, AccessExpires, work
<1>5. CASE \/ ConnectClick \/ WizardStart \/ CallbackReceived \/ ExchangeReturns \/ WizardReject
           \/ WizardReturns \/ AuthorizeCancelled \/ Disconnect \/ RevokeReturns
  BY <1>5, ElsewhereBracketed, Zenon
  DEF ConnectClick, WizardStart, CallbackReceived, ExchangeReturns, WizardReject, WizardReturns,
      AuthorizeCancelled, Disconnect, RevokeReturns, work
<1>6. CASE ResetConfirms \/ ResetDeclined
  BY <1>6, ElsewhereBracketed, Zenon DEF ResetConfirms, ResetDeclined, work
<1> QED
  BY <1>1, <1>2, <1>3, <1>4, <1>5, <1>6

LEMMA StepBracketed == IInv /\ [Next]_vars => IInv'
<1> SUFFICES ASSUME IInv, [Next]_vars PROVE IInv'
  OBVIOUS
<1>1. CASE DriveFinds \/ DriveWrites \/ DriveFails
  BY <1>1, FindsBracketed, WritesBracketed, FailsBracketed
<1>2. CASE GoesOn \/ ReadReturns \/ VersionMismatch
  BY <1>2, GoesOnBracketed, ReadBracketed, MismatchBracketed
<1>3. CASE OtherDeviceWrites \/ OtherDeviceCreatesFolder
  BY <1>3, OthersBracketed
<1>4. CASE UNCHANGED vars
  BY <1>4, ElsewhereBracketed DEF vars, work
<1> QED
  BY <1>1, <1>2, <1>3, <1>4, RestBracketed, Zenon DEF Next, SyncSteps

\* GoogleDriveProvider::ReadBackup and UploadBackupIfMatch: however other devices
\* write between the requests of one reading, and whichever of two files of one
\* name it finds, the version that the upload checks is that of the content that
\* DoSyncOnce merged.
THEOREM UploadsCheckWhatWasMerged == Spec => []MergesWhatItChecks
<1>1. Init => IInv
  BY InitiallyBracketed
<1>2. IInv /\ [Next]_vars => IInv'
  BY StepBracketed
<1>3. IInv => MergesWhatItChecks
  BY DEF IInv
<1> QED
  BY <1>1, <1>2, <1>3, PTL DEF Spec

-----------------------------------------------------------------------------
(* The credentials. Every answer that can store them is one that the user    *)
(* still waits for, or renews what is stored; a request the client withdraws *)
(* leaves it waiting for less.                                               *)

\* A client c, the token on the disk and the wizard: who waits for what.
OnlyAsked(c, t, w) ==
  /\ c \in Client
  /\ "refresh" \in c.replies => "revoke" \notin c.replies
  /\ "refresh" \in c.replies \ c.stale => t
  /\ "exchange" \in c.replies \ c.stale => w = "waiting"
  /\ c.server = "live" => w = "waiting" /\ "exchange" \notin c.replies

Consented == token \in BOOLEAN /\ OnlyAsked(client, token, wizard)

\* d waits for no credentials that c does not wait for.
Withdrawn(d, c) ==
  /\ d \in Client
  /\ d.replies \subseteq c.replies
  /\ d.replies \ d.stale \subseteq (c.replies \ c.stale) \cup {"email"}
  /\ d.server = "live" => c.server = "live"

LEMMA WithdrawnAsked ==
  ASSUME NEW c, NEW d, NEW t, NEW w, OnlyAsked(c, t, w), Withdrawn(d, c)
  PROVE  OnlyAsked(d, t, w)
BY DEF OnlyAsked, Withdrawn

LEMMA ClientFields ==
  ASSUME NEW c \in Client
  PROVE  Withdrawn(c, c)
BY DEF Withdrawn

\* An answer is taken from the client: of two requests neither is added.
LEMMA WithoutWithdrawn ==
  ASSUME NEW c \in Client, NEW r \in Request
  PROVE  /\ Withdrawn(Without(c, r), c)
         /\ r \notin Without(c, r).replies
BY DEF Withdrawn, Without, Client

LEMMA GenerationWithdrawn ==
  ASSUME NEW c \in Client
  PROVE  /\ Withdrawn(NextGeneration(c), c)
         /\ NextGeneration(c).replies \ NextGeneration(c).stale \subseteq {"email"}
         /\ NextGeneration(c).server # "live"
<1> DEFINE d == NextGeneration(c)
<1>1. d.replies = c.replies /\ d.stale = c.replies \ {"email"} /\ d.server # "live"
  BY DEF NextGeneration, Client
<1>2. d \in Client
  BY DEF NextGeneration, Client
<1> HIDE DEF d
<1>3. Withdrawn(d, c)
  BY <1>1, <1>2 DEF Withdrawn
<1> QED
  BY <1>1, <1>3 DEF d

LEMMA CancelWithdrawn ==
  ASSUME NEW c \in Client
  PROVE  Withdrawn(CancelAccountLookup(c), c)
<1> DEFINE a == [Without(c, "refresh") EXCEPT !.shared = FALSE]
           d == IF c.shared THEN NextGeneration(a) ELSE c
<1>1. Without(c, "refresh") \in Client /\ Withdrawn(Without(c, "refresh"), c)
  BY WithoutWithdrawn DEF Withdrawn, Request
<1>2. Withdrawn(a, c)
  BY <1>1 DEF Withdrawn, Client
<1>3. Withdrawn(NextGeneration(a), a)
  BY <1>2, GenerationWithdrawn DEF Withdrawn
<1>4. Withdrawn(d, c)
  BY <1>2, <1>3, ClientFields DEF Withdrawn
<1> HIDE DEF d
<1>5. Withdrawn(Without(d, "email"), d)
  BY <1>4, WithoutWithdrawn DEF Withdrawn, Request
<1>6. Withdrawn([Without(d, "email") EXCEPT !.pending = FALSE], d)
  BY <1>5 DEF Withdrawn, Client
<1> QED
  BY <1>4, <1>6 DEF Withdrawn, CancelAccountLookup, d

LEMMA AuthorizationWithdrawn ==
  ASSUME NEW c \in Client
  PROVE  /\ Withdrawn(CancelAuthorization(c), c)
         /\ CancelAuthorization(c).replies \ CancelAuthorization(c).stale \subseteq {"email"}
         /\ CancelAuthorization(c).server # "live"
<1> DEFINE a == CancelAccountLookup(c)
           d == NextGeneration(a)
<1>1. Withdrawn(a, c)
  BY CancelWithdrawn
<1>2. Withdrawn(d, a) /\ d.replies \ d.stale \subseteq {"email"}
  BY <1>1, GenerationWithdrawn DEF Withdrawn
<1> HIDE DEF a, d
<1>3. Withdrawn(d, c) /\ d \in Client
  BY <1>1, <1>2 DEF Withdrawn
<1>4. CancelAuthorization(c) = [d EXCEPT !.authorizing = FALSE, !.server = "off"]
  BY DEF CancelAuthorization, d, a
<1> QED
  BY <1>2, <1>3, <1>4 DEF Withdrawn, Client

\* A refresh is sent only with a token to renew, and alone.
LEMMA RefreshAsked ==
  ASSUME NEW c, NEW w, OnlyAsked(c, TRUE, w), c.replies = {}
  PROVE  OnlyAsked(SendRefresh(c), TRUE, w)
BY DEF OnlyAsked, SendRefresh, Client, Request

\* A fresh client waits for nothing.
LEMMA StartedAsked ==
  ASSUME NEW t, Started
  PROVE  OnlyAsked(client', t, wizard')
BY DEF Started, NewClient, OnlyAsked, Client, Request

\* A lookup withdraws the one before; a client that is busy with anything else
\* is left as it is.
LEMMA LookupAsked ==
  ASSUME Consented, Lookup(client)
  PROVE  OnlyAsked(client', token, wizard)
<1> DEFINE d == CancelAccountLookup(client)
<1>1. OnlyAsked(d, token, wizard)
  BY CancelWithdrawn, WithdrawnAsked DEF Consented, OnlyAsked
<1>2. \/ client' = d
      \/ d.replies = {} /\ client' = [d EXCEPT !.pending = TRUE, !.replies = {"email"}]
      \/ d.replies = {} /\ token /\ client' = SendRefresh([d EXCEPT !.pending = TRUE])
  BY DEF Lookup, IsBusy
<1> HIDE DEF d
<1>3. CASE d.replies = {} /\ client' = [d EXCEPT !.pending = TRUE, !.replies = {"email"}]
  BY <1>1, <1>3 DEF OnlyAsked, Client, Request
<1>4. CASE d.replies = {} /\ token /\ client' = SendRefresh([d EXCEPT !.pending = TRUE])
  <2> DEFINE e == [d EXCEPT !.pending = TRUE]
  <2>1. token = TRUE
    BY <1>4 DEF Consented
  <2>2. OnlyAsked(e, TRUE, wizard) /\ e.replies = {}
    BY <1>1, <1>4, <2>1 DEF OnlyAsked, Client
  <2> HIDE DEF e
  <2>3. OnlyAsked(SendRefresh(e), TRUE, wizard)
    BY <2>2, RefreshAsked
  <2> QED
    BY <1>4, <2>1, <2>3 DEF e
<1> QED
  BY <1>1, <1>2, <1>3, <1>4

LEMMA LookupsConsented ==
  Consented /\ (LookupRuns \/ RetryAccount \/ EmailReturns) => Consented' /\ token' = token
<1> SUFFICES ASSUME Consented, LookupRuns \/ RetryAccount \/ EmailReturns
             PROVE  Consented' /\ token' = token
  OBVIOUS
<1>1. token' = token /\ wizard' = wizard
  BY DEF LookupRuns, RetryAccount, EmailReturns
<1>2. CASE LookupRuns \/ RetryAccount
  <2>1. Lookup(client) \/ client' = client
    BY <1>2 DEF LookupRuns, RetryAccount
  <2> QED
    BY <1>1, <2>1, LookupAsked DEF Consented
<1>3. CASE EmailReturns
  <2> DEFINE c == Without(client, "email")
  <2>1. OnlyAsked(c, token, wizard)
    BY WithoutWithdrawn, WithdrawnAsked DEF Consented, OnlyAsked, Request
  <2>2. \/ client' = c
        \/ client' = [c EXCEPT !.pending = FALSE]
        \/ client' = [c EXCEPT !.pending = FALSE, !.access = "none"]
    BY <1>3 DEF EmailReturns
  <2> HIDE DEF c
  <2>3. OnlyAsked(client', token, wizard)
    BY <2>1, <2>2 DEF OnlyAsked, Client
  <2> QED
    BY <1>1, <2>3 DEF Consented
<1> QED
  BY <1>1, <1>2, <1>3

\* A refresh whose answer is still wanted was sent for a token that is still there.
LEMMA RefreshConsented ==
  Consented /\ RefreshReturns => Consented' /\ (token' => token)
<1> SUFFICES ASSUME Consented, RefreshReturns PROVE Consented' /\ (token' => token)
  OBVIOUS
<1> DEFINE c == Without(client, "refresh")
<1>1. OnlyAsked(c, token, wizard) /\ wizard' = wizard
  BY WithoutWithdrawn, WithdrawnAsked DEF Consented, OnlyAsked, Request, RefreshReturns
<1>2. "refresh" \notin c.replies
  BY WithoutWithdrawn DEF Consented, OnlyAsked, Request
<1>3. \/ client' = c /\ token' = token
      \/ client' = RefreshFailed(c) /\ token' = token
      \/ /\ Current(client, "refresh")
         /\ token' \in {token, TRUE}
         /\ client' = [c EXCEPT !.access = "fresh", !.shared = FALSE,
                                !.replies = IF client.pending THEN @ \cup {"email"} ELSE @]
  BY Zenon DEF RefreshReturns, Refreshed, Saved
<1> HIDE DEF c
<1>4. token' = token
  BY <1>3 DEF Consented, OnlyAsked, Current
<1> DEFINE asks == IF client.pending THEN c.replies \cup {"email"} ELSE c.replies
<1>5. asks \subseteq c.replies \cup {"email"} /\ asks \in SUBSET Request
  BY <1>1 DEF OnlyAsked, Client, Request
<1>6. \/ client' = c \/ client' = RefreshFailed(c)
      \/ client' = [c EXCEPT !.access = "fresh", !.shared = FALSE, !.replies = asks]
  BY <1>3
<1> HIDE DEF asks
<1>7. /\ client' \in Client /\ client'.replies \subseteq c.replies \cup {"email"}
      /\ client'.stale = c.stale /\ client'.server = c.server
  <2>1. CASE client' = c
    BY <1>1, <2>1 DEF OnlyAsked
  <2>2. CASE client' = RefreshFailed(c)
    BY <1>1, <2>2 DEF OnlyAsked, RefreshFailed, Client
  <2>3. CASE client' = [c EXCEPT !.access = "fresh", !.shared = FALSE, !.replies = asks]
    BY <1>1, <1>5, <2>3 DEF OnlyAsked, Client
  <2> QED
    BY <1>6, <2>1, <2>2, <2>3
<1>8. OnlyAsked(client', token, wizard)
  BY <1>1, <1>2, <1>7 DEF OnlyAsked
<1> QED
  BY <1>1, <1>4, <1>8 DEF Consented

LEMMA ConnectingConsented ==
  Consented /\ (ConnectClick \/ WizardStart \/ CallbackReceived) => Consented' /\ token' = token
<1> SUFFICES ASSUME Consented, ConnectClick \/ WizardStart \/ CallbackReceived
             PROVE  Consented' /\ token' = token
  OBVIOUS
<1> DEFINE d == CancelAccountLookup(client)
<1>1. OnlyAsked(d, token, wizard)
  BY CancelWithdrawn, WithdrawnAsked DEF Consented, OnlyAsked
<1>2. token' = token
  BY DEF ConnectClick, WizardStart, CallbackReceived
<1>3. CASE ConnectClick
  <2>1. client' = d /\ wizard = "closed"
    BY <1>3 DEF ConnectClick
  <2> HIDE DEF d
  <2> QED
    BY <1>1, <1>2, <2>1 DEF Consented, OnlyAsked
<1>4. CASE WizardStart
  <2>1. wizard = "idle"
    BY <1>4 DEF WizardStart
  <2>2. \/ wizard' = "waiting" /\ client' = d
        \/ /\ wizard' = "waiting" /\ d.replies = {}
           /\ client' = [d EXCEPT !.authorizing = TRUE, !.server = "live"]
        \/ wizard' = wizard /\ client' = [d EXCEPT !.server = "off"]
    BY <1>4 DEF WizardStart, Authorize, IsBusy
  <2> HIDE DEF d
  <2>3. d \in Client /\ d.server # "live" /\ "exchange" \notin d.replies \ d.stale
    BY <1>1, <2>1 DEF OnlyAsked
  <2>4. CASE client' = d
    BY <1>1, <1>2, <2>3, <2>4 DEF Consented, OnlyAsked
  <2>5. CASE \/ /\ wizard' = "waiting" /\ d.replies = {}
                /\ client' = [d EXCEPT !.authorizing = TRUE, !.server = "live"]
             \/ wizard' = wizard /\ client' = [d EXCEPT !.server = "off"]
    <3>1. /\ client' \in Client /\ client'.replies = d.replies /\ client'.stale = d.stale
          /\ client'.server = "live" => wizard' = "waiting" /\ d.replies = {}
      BY <2>3, <2>5 DEF Client
    <3> QED
      BY <1>1, <1>2, <2>3, <3>1 DEF Consented, OnlyAsked
  <2> QED
    BY <2>2, <2>4, <2>5
<1>5. CASE CallbackReceived
  <2> DEFINE c == [client EXCEPT !.authorizing = FALSE, !.server = "off"]
  <2>1. client.server = "live"
    BY <1>5 DEF CallbackReceived
  <2>2. \/ client' = [c EXCEPT !.replies = @ \cup {"exchange"}] /\ wizard' = wizard
        \/ client' = c
    BY <1>5, Zenon DEF CallbackReceived
  <2>3. /\ c \in Client /\ c.server = "off"
        /\ c.replies = client.replies /\ c.stale = client.stale
    BY DEF Consented, OnlyAsked, Client
  <2> HIDE DEF c
  <2> QED
    BY <1>2, <2>1, <2>2, <2>3 DEF Consented, OnlyAsked, Client, Request
<1> QED
  BY <1>2, <1>3, <1>4, <1>5

\* An exchange whose answer is still wanted is one the wizard waits for.
LEMMA ExchangeConsented ==
  Consented /\ ExchangeReturns =>
    Consented' /\ (~token /\ token' => wizard = "waiting" /\ wizard' = "accepted")
<1> SUFFICES ASSUME Consented, ExchangeReturns
             PROVE  Consented' /\ (~token /\ token' => wizard = "waiting" /\ wizard' = "accepted")
  OBVIOUS
<1> DEFINE c == Without(client, "exchange")
<1>1. OnlyAsked(c, token, wizard) /\ "exchange" \notin c.replies
  BY WithoutWithdrawn, WithdrawnAsked DEF Consented, OnlyAsked, Request
<1>2. c.server # "live"
  BY WithoutWithdrawn DEF ExchangeReturns, Consented, OnlyAsked, Withdrawn, Request
<1>3. \/ client' = c /\ token' = token
      \/ /\ Current(client, "exchange")
         /\ client' = [c EXCEPT !.access = "fresh"]
         /\ token' \in {token, TRUE}
         /\ wizard' = IF wizard = "waiting" THEN "accepted" ELSE wizard
  BY DEF ExchangeReturns, Saved
<1> HIDE DEF c
<1>4. CASE client' = c /\ token' = token
  BY <1>1, <1>2, <1>4 DEF Consented, OnlyAsked
<1>5. CASE /\ Current(client, "exchange")
           /\ client' = [c EXCEPT !.access = "fresh"]
           /\ token' \in {token, TRUE}
           /\ wizard' = IF wizard = "waiting" THEN "accepted" ELSE wizard
  <2>1. wizard = "waiting" /\ wizard' = "accepted" /\ token' \in BOOLEAN
    BY <1>5 DEF Consented, OnlyAsked, Current
  <2>2. /\ client' \in Client
        /\ client'.replies = c.replies /\ client'.stale = c.stale /\ client'.server = c.server
    BY <1>1, <1>5 DEF OnlyAsked, Client
  <2>3. token => token'
    BY <1>5
  <2>4. OnlyAsked(client', token', wizard')
    BY <1>1, <1>2, <2>2, <2>3 DEF OnlyAsked
  <2> QED
    BY <2>1, <2>4 DEF Consented
<1> QED
  BY <1>3, <1>4, <1>5

\* What leaves the wizard or the account withdraws what was asked.
LEMMA LeavingConsented ==
  Consented /\ (WizardReject \/ AuthorizeCancelled) => Consented' /\ token' = token
<1> SUFFICES ASSUME Consented, WizardReject \/ AuthorizeCancelled PROVE Consented' /\ token' = token
  OBVIOUS
<1> DEFINE d == CancelAuthorization(client)
<1>1. OnlyAsked(d, token, wizard) /\ d.replies \ d.stale \subseteq {"email"} /\ d.server # "live"
  BY AuthorizationWithdrawn, WithdrawnAsked DEF Consented, OnlyAsked
<1>2. client' = d /\ token' = token
  BY DEF WizardReject, AuthorizeCancelled
<1> HIDE DEF d
<1>3. OnlyAsked(d, token, wizard')
  BY <1>1 DEF OnlyAsked
<1> QED
  BY <1>2, <1>3 DEF Consented

LEMMA WizardReturnsConsented == Consented /\ WizardReturns => Consented' /\ token' = token
<1> SUFFICES ASSUME Consented, WizardReturns PROVE Consented' /\ token' = token
  OBVIOUS
<1>1. token' = token /\ wizard # "waiting" /\ (client' = client \/ Lookup(client))
  BY DEF WizardReturns
<1>2. OnlyAsked(client', token, wizard)
  BY <1>1, LookupAsked DEF Consented
<1>3. OnlyAsked(client', token, wizard')
  BY <1>1, <1>2 DEF OnlyAsked
<1> QED
  BY <1>1, <1>3 DEF Consented

\* While a revocation is under way no refresh is, whose token it could take away.
LEMMA RevokingConsented ==
  Consented /\ (Disconnect \/ RevokeReturns) => Consented' /\ (token' => token)
<1> SUFFICES ASSUME Consented, Disconnect \/ RevokeReturns PROVE Consented' /\ (token' => token)
  OBVIOUS
<1>1. CASE Disconnect
  <2> DEFINE b == CancelAccountLookup(client)
             d == CancelAccountLookup(b)
  <2>1. OnlyAsked(b, token, wizard)
    BY CancelWithdrawn, WithdrawnAsked DEF Consented, OnlyAsked
  <2> HIDE DEF b
  <2>2. OnlyAsked(d, token, wizard)
    BY <2>1, CancelWithdrawn, WithdrawnAsked DEF OnlyAsked
  <2>3. /\ token' = token /\ wizard' = wizard
        /\ \/ client' = d
           \/ d.replies = {} /\ client' = [d EXCEPT !.replies = @ \cup {"revoke"}]
    BY <1>1 DEF Disconnect, RevokeTokens, IsBusy, b
  <2> HIDE DEF d
  <2>4. CASE d.replies = {} /\ client' = [d EXCEPT !.replies = @ \cup {"revoke"}]
    <3>1. /\ client' \in Client /\ client'.replies = {"revoke"} /\ client'.server = d.server
      BY <2>2, <2>4 DEF OnlyAsked, Client, Request
    <3> QED
      BY <2>2, <2>3, <3>1 DEF Consented, OnlyAsked
  <2> QED
    BY <2>2, <2>3, <2>4 DEF Consented
<1>2. CASE RevokeReturns
  <2> DEFINE c == Without(client, "revoke")
  <2>1. OnlyAsked(c, token, wizard)
    BY WithoutWithdrawn, WithdrawnAsked DEF Consented, OnlyAsked, Request
  <2>2. c.replies \subseteq client.replies
    BY WithoutWithdrawn DEF Consented, OnlyAsked, Withdrawn, Request
  <2>3. "refresh" \notin c.replies
    BY <1>2, <2>2 DEF RevokeReturns, Consented, OnlyAsked
  <2>4. /\ wizard' = wizard /\ token' \in {token, FALSE}
        /\ client' = c \/ client' = [c EXCEPT !.access = "none"]
    BY <1>2 DEF RevokeReturns, Cleared, screen
  <2> HIDE DEF c
  <2>5. /\ client' \in Client
        /\ client'.replies = c.replies /\ client'.stale = c.stale /\ client'.server = c.server
    BY <2>1, <2>4 DEF OnlyAsked, Client
  <2>6. token' \in BOOLEAN /\ (token' => token)
    <3>1. CASE token' = token
      BY <3>1 DEF Consented
    <3>2. CASE token' = FALSE
      BY <3>2
    <3> QED
      BY <2>4, <3>1, <3>2
  <2>7. OnlyAsked(client', token', wizard')
    BY <2>1, <2>3, <2>4, <2>5 DEF OnlyAsked
  <2> QED
    BY <2>6, <2>7 DEF Consented
<1> QED
  BY <1>1, <1>2

LEMMA ResetConsented ==
  Consented /\ (ResetConfirms \/ ResetDeclined \/ ResetForgets \/ Restart) =>
    Consented' /\ (token' => token)
<1> SUFFICES ASSUME Consented, ResetConfirms \/ ResetDeclined \/ ResetForgets \/ Restart
             PROVE  Consented' /\ (token' => token)
  OBVIOUS
<1>1. CASE ResetForgets \/ Restart
  <2>1. Started /\ (token' = token \/ token' = FALSE)
    BY <1>1 DEF ResetForgets, Restart
  <2>2. token' \in BOOLEAN /\ (token' => token)
    <3>1. CASE token' = token
      BY <3>1 DEF Consented
    <3>2. CASE token' = FALSE
      BY <3>2
    <3> QED
      BY <2>1, <3>1, <3>2
  <2> QED
    BY <2>1, <2>2, StartedAsked DEF Consented
<1>2. CASE ResetConfirms \/ ResetDeclined
  <2> DEFINE d == CancelAccountLookup(client)
  <2>1. OnlyAsked(d, token, wizard)
    BY CancelWithdrawn, WithdrawnAsked DEF Consented, OnlyAsked
  <2>2. token' = token /\ wizard' = wizard
    BY <1>2, Zenon DEF ResetConfirms, ResetDeclined, screen
  <2>3. client' = [d EXCEPT !.paused = TRUE] \/ client' = [client EXCEPT !.paused = FALSE]
    BY <1>2 DEF ResetConfirms, ResetDeclined, SetPaused
  <2> HIDE DEF d
  <2>4. OnlyAsked(client', token, wizard)
    <3>1. CASE client' = [d EXCEPT !.paused = TRUE]
      BY <2>1, <3>1 DEF OnlyAsked, Client
    <3>2. CASE client' = [client EXCEPT !.paused = FALSE]
      BY <3>2 DEF Consented, OnlyAsked, Client
    <3> QED
      BY <2>3, <3>1, <3>2
  <2> QED
    BY <2>2, <2>4 DEF Consented
<1> QED
  BY <1>1, <1>2

\* A synchronisation asks for a refresh only when nothing else is under way.
LEMMA WaitingConsented ==
  Consented /\ (RequestBegins \/ TokenGranted \/ WaitExpires \/ AccessExpires) =>
    Consented' /\ token' = token
<1> SUFFICES ASSUME Consented, RequestBegins \/ TokenGranted \/ WaitExpires \/ AccessExpires
             PROVE  Consented' /\ token' = token
  OBVIOUS
<1>1. token' = token /\ wizard' = wizard
  BY Zenon DEF RequestBegins, TokenGranted, WaitExpires, AccessExpires, screen
<1>2. CASE RequestBegins
  <2> DEFINE e == SendRefresh(client)
  <2>1. \/ client' = client
        \/ client' = [client EXCEPT !.waiting = TRUE]
        \/ client.replies = {} /\ token /\ client' = [e EXCEPT !.waiting = TRUE]
        \/ client' = RefreshFailed(client)
    BY <1>2, Zenon DEF RequestBegins, CanRefresh
  <2>2. CASE client' = client
    BY <1>1, <2>2 DEF Consented
  <2>3. CASE client.replies = {} /\ token /\ client' = [e EXCEPT !.waiting = TRUE]
    <3>1. token = TRUE
      BY <2>3 DEF Consented
    <3>2. OnlyAsked(e, TRUE, wizard)
      BY <2>3, <3>1, RefreshAsked DEF Consented
    <3> HIDE DEF e
    <3> QED
      BY <1>1, <2>3, <3>1, <3>2 DEF Consented, OnlyAsked, Client
  <2>4. CASE client' = RefreshFailed(client)
    BY <1>1, <2>4 DEF Consented, OnlyAsked, Client, RefreshFailed
  <2>5. CASE client' = [client EXCEPT !.waiting = TRUE]
    BY <1>1, <2>5 DEF Consented, OnlyAsked, Client
  <2> QED
    BY <2>1, <2>2, <2>3, <2>4, <2>5
<1>3. CASE TokenGranted \/ AccessExpires
  <2>1. client' = [client EXCEPT !.waiting = FALSE] \/ client' = [client EXCEPT !.access = "stale"]
    BY <1>3 DEF TokenGranted, AccessExpires
  <2>2. CASE client' = [client EXCEPT !.waiting = FALSE]
    BY <1>1, <2>2 DEF Consented, OnlyAsked, Client
  <2>3. CASE client' = [client EXCEPT !.access = "stale"]
    BY <1>1, <2>3 DEF Consented, OnlyAsked, Client
  <2> QED
    BY <2>1, <2>2, <2>3
<1>4. CASE WaitExpires
  <2> DEFINE c == [client EXCEPT !.waiting = FALSE]
  <2>1. OnlyAsked(c, token, wizard)
    BY DEF Consented, OnlyAsked, Client
  <2> HIDE DEF c
  <2>2. OnlyAsked(NextGeneration(c), token, wizard)
    BY <2>1, GenerationWithdrawn, WithdrawnAsked DEF OnlyAsked
  <2> QED
    BY <1>1, <1>4, <2>2 DEF WaitExpires, Consented, c
<1> QED
  BY <1>2, <1>3, <1>4

\* The rest of a synchronisation leaves the credentials alone.
LEMMA SyncConsented ==
  ASSUME Consented,
         \/ SyncStarts \/ DriveFinds \/ DriveWrites \/ DriveFails \/ GoesOn \/ ReadReturns
         \/ VersionMismatch \/ SyncSucceeds \/ SyncFails \/ OtherDeviceWrites
         \/ OtherDeviceCreatesFolder \/ UNCHANGED vars
  PROVE  Consented' /\ token' = token
<1>1. CASE SyncStarts \/ OtherDeviceWrites \/ OtherDeviceCreatesFolder \/ UNCHANGED vars
  <2>1. UNCHANGED <<token, client, wizard>>
    BY <1>1, Zenon DEF SyncStarts, OtherDeviceWrites, OtherDeviceCreatesFolder, vars, screen
  <2> QED
    BY <2>1 DEF Consented
<1>2. CASE DriveFinds \/ DriveWrites \/ DriveFails \/ GoesOn
  <2>1. UNCHANGED <<token, client, wizard>>
    BY <1>2, Zenon DEF DriveFinds, DriveWrites, DriveFails, GoesOn, NextRequest, Answered, screen
  <2> QED
    BY <2>1 DEF Consented
<1>3. CASE ReadReturns \/ VersionMismatch \/ SyncSucceeds \/ SyncFails
  <2>1. \/ UNCHANGED <<token, client, wizard>>
        \/ UNCHANGED <<token, wizard>> /\ client' = [client EXCEPT !.waiting = FALSE]
        \/ Restart
    BY <1>3, Zenon DEF ReadReturns, VersionMismatch, SyncSucceeds, SyncFails, EndsSync, screen
  <2>2. CASE UNCHANGED <<token, client, wizard>>
    BY <2>2 DEF Consented
  <2>3. CASE UNCHANGED <<token, wizard>> /\ client' = [client EXCEPT !.waiting = FALSE]
    BY <2>3 DEF Consented, OnlyAsked, Client
  <2>4. CASE Restart
    BY <2>4, ResetConsented DEF Restart
  <2> QED
    BY <2>1, <2>2, <2>3, <2>4
<1> QED
  BY <1>1, <1>2, <1>3

LEMMA StepConsented ==
  Consented /\ [Next]_vars =>
    Consented' /\ (~token /\ token' => wizard = "waiting" /\ wizard' = "accepted")
<1> SUFFICES ASSUME Consented, [Next]_vars
             PROVE  Consented' /\ (~token /\ token' => wizard = "waiting" /\ wizard' = "accepted")
  OBVIOUS
<1>1. CASE ExchangeReturns
  BY <1>1, ExchangeConsented
<1>2. CASE ~ExchangeReturns
  <2>1. \/ Consented' /\ token' = token
        \/ Consented' /\ (token' => token)
    BY <1>2, LookupsConsented, RefreshConsented, ConnectingConsented, LeavingConsented,
       WizardReturnsConsented, RevokingConsented, ResetConsented, WaitingConsented, SyncConsented, Zenon
    DEF Next, SyncSteps
  <2>2. token' = token => (token' => token)
    OBVIOUS
  <2> QED
    BY <2>1, <2>2
<1> QED
  BY <1>1, <1>2

\* GoogleOAuthClient's generations and SetPaused: whatever is cancelled, answered
\* late or refreshed meanwhile, only an authorization the wizard still waits for
\* puts a token where there was none.
THEOREM CredentialsOnlyByConsent == Spec => TokenOnlyByConsent
<1>1. Init => Consented
  BY DEF Init, Consented, OnlyAsked, NewClient, Client, Request
<1>2. Consented /\ [Next]_vars => Consented'
  BY StepConsented
<1>3. Consented /\ [Next]_vars =>
        [~token /\ token' => wizard = "waiting" /\ wizard' = "accepted"]_vars
  BY StepConsented
<1> QED
  BY <1>1, <1>2, <1>3, PTL DEF Spec, TokenOnlyByConsent

-----------------------------------------------------------------------------
(* The page. What it shows follows from the flags of three parts: the event  *)
(* loops nest as the wizard and the run say (Nested), a client c that waits   *)
(* does so for a request that is under way and current, with the wizard w and *)
(* the request k of the provider (Waits), and the page tells which lookup,    *)
(* wizard or run it stands for (Shown).                                      *)
Nested ==
  /\ stack \in {<<>>, <<"sync">>, <<"wizard">>, <<"sync", "wizard">>, <<"wizard", "sync">>}
  /\ wizard \in {"closed", "idle", "waiting", "accepted", "rejected"}
  /\ wizard = "closed" <=> stack \in {<<>>, <<"sync">>}
  /\ job.op = "none" <=> stack \in {<<>>, <<"wizard">>}
  /\ job.op = "none" => job = NoJob /\ call = "none"
  /\ job.tries \in 0..MaxTries
  /\ call \in {"none", "token", "granted", "refused", "flying", "arrived"}

Waits(c, w, k) ==
  /\ c.stale \subseteq c.replies
  /\ c.waiting => k \in {"token", "granted", "refused"}
  /\ k = "token" => c.waiting
  /\ c.authorizing => c.server = "live" /\ w = "waiting" /\ (k = "token" => Current(c, "refresh"))
  /\ c.shared => c.pending /\ Current(c, "refresh") /\ "email" \notin c.replies
  /\ c.pending => c.shared \/ "email" \in c.replies

Shown ==
  /\ page \in Pages /\ ready \in BOOLEAN /\ starting \in BOOLEAN /\ provider \in BOOLEAN
  /\ client.pending => page = "connecting" /\ provider /\ ~starting
  /\ starting => page = "connecting" /\ provider /\ token /\ "revoke" \notin client.replies
  /\ page = "connecting" => ~ready /\ (starting \/ client.pending)
  /\ wizard # "closed" => page \in {"authorizing", "disconnected"} /\ ~ready
  /\ ready => provider
  /\ page \in Retries => provider
  /\ page \in {"connected", "syncing", "success", "conflict", "error"} => ready
  /\ page = "syncing" => job.op # "none"

Truthful == Nested /\ Waits(client, wizard, call) /\ Shown

AccountInv == IInv /\ Consented /\ Truthful

\* An event loop that is entered or left, with at most one other.
LEMMA Loops ==
  ASSUME NEW a, NEW b
  PROVE  /\ Append(<<>>, a) = <<a>> /\ Append(<<a>>, b) = <<a, b>>
         /\ SubSeq(<<a>>, 1, Len(<<a>>) - 1) = <<>>
         /\ SubSeq(<<a, b>>, 1, Len(<<a, b>>) - 1) = <<a>>
         /\ <<a>>[Len(<<a>>)] = a /\ <<a, b>>[Len(<<a, b>>)] = b /\ <<a>> # <<>> /\ <<a, b>> # <<>>
<1> DEFINE S == {a, b}
           s == <<a, b>>
           e == Append(<<a>>, b)
           u == SubSeq(s, 1, Len(s) - 1)
<1>1. /\ <<a>> \in Seq(S) /\ Len(<<a>>) = 1 /\ <<a>>[1] = a
      /\ s \in Seq(S) /\ Len(s) = 2 /\ s[1] = a /\ s[2] = b
  OBVIOUS
<1>2. Append(<<>>, a) = <<a>> /\ SubSeq(<<a>>, 1, Len(<<a>>) - 1) = <<>> /\ <<a>> # <<>> /\ <<a, b>> # <<>>
  OBVIOUS
<1>3. e = s
  <2>1. e \in Seq(S) /\ Len(e) = 2 /\ e[1] = a /\ e[2] = b
    BY <1>1
  <2> HIDE DEF e, s
  <2>2. \A i \in 1..Len(e) : e[i] = s[i]
    BY <1>1, <2>1
  <2> QED
    BY <1>1, <2>1, <2>2, SeqEqual
<1>4. u = <<a>>
  <2> HIDE DEF s
  <2>1. u \in Seq(S) /\ Len(u) = 1 /\ u[1] = a
    BY <1>1
  <2> HIDE DEF u
  <2>2. \A i \in 1..Len(u) : u[i] = <<a>>[i]
    BY <1>1, <2>1
  <2> QED
    BY <1>1, <2>1, <2>2, SeqEqual
<1> QED
  BY <1>1, <1>2, <1>3, <1>4

LEMMA LoopsDiffer ==
  /\ <<"sync", "wizard">> \notin {<<>>, <<"sync">>, <<"wizard">>}
  /\ <<"wizard", "sync">> \notin {<<>>, <<"sync">>, <<"wizard">>}
  /\ <<"sync">> \notin {<<>>, <<"wizard">>} /\ <<"wizard">> # <<>>
<1>1. /\ Len(<<"sync", "wizard">>) = 2 /\ Len(<<"wizard", "sync">>) = 2
      /\ Len(<<"sync">>) = 1 /\ Len(<<"wizard">>) = 1 /\ Len(<<>>) = 0
      /\ <<"sync">>[1] = "sync" /\ <<"wizard">>[1] = "wizard"
  OBVIOUS
<1> QED
  BY <1>1

LEMMA AccountParts ==
  ASSUME AccountInv
  PROVE  TypeOK /\ PageShowsConnection /\ PageNeverStuck
<1>1. client \in Client /\ token \in BOOLEAN
  BY DEF AccountInv, Truthful, Consented, OnlyAsked
<1>2. TypeOK
  BY <1>1 DEF AccountInv, Truthful, Nested, Waits, Shown, TypeOK
<1>3. PageShowsConnection
  BY DEF AccountInv, Truthful, Shown, PageShowsConnection
<1>4. job.op # "none" => job # NoJob
  BY DEF NoJob
<1>5. PageNeverStuck
  BY <1>4 DEF AccountInv, Truthful, Waits, Shown, PageNeverStuck
<1> QED
  BY <1>2, <1>3, <1>5

\* What withdrawing a lookup leaves of a client: no lookup, and the rest as it
\* was but for the refresh the lookup had sent.
LEMMA CancelFields ==
  ASSUME NEW c \in Client
  PROVE  LET d == CancelAccountLookup(c)
         IN  /\ d \in Client
             /\ d.authorizing = c.authorizing /\ d.waiting = c.waiting /\ d.paused = c.paused
             /\ ~d.pending /\ ~d.shared /\ "email" \notin d.replies
             /\ d.replies \subseteq c.replies
             /\ c.stale \subseteq c.replies => d.stale \subseteq d.replies
             /\ ~c.shared => d.server = c.server
<1> DEFINE a == [Without(c, "refresh") EXCEPT !.shared = FALSE]
           g == NextGeneration(a)
           d == CancelAccountLookup(c)
<1>1. /\ a \in Client /\ a.replies = c.replies \ {"refresh"} /\ a.shared = FALSE
      /\ a.authorizing = c.authorizing /\ a.waiting = c.waiting /\ a.paused = c.paused
  BY DEF Without, Client
<1> HIDE DEF a
<1>2. /\ g \in Client /\ g.replies = a.replies /\ g.stale \subseteq g.replies /\ g.shared = a.shared
      /\ g.authorizing = a.authorizing /\ g.waiting = a.waiting /\ g.paused = a.paused
  BY <1>1 DEF NextGeneration, Client
<1> HIDE DEF g
<1>3. CASE c.shared
  <2>1. d = [Without(g, "email") EXCEPT !.pending = FALSE]
    BY <1>3 DEF CancelAccountLookup, g, a
  <2> HIDE DEF d
  <2>2. /\ d \in Client /\ d.replies = g.replies \ {"email"} /\ d.stale = g.stale \ {"email"}
        /\ d.pending = FALSE /\ d.shared = g.shared
        /\ d.authorizing = g.authorizing /\ d.waiting = g.waiting /\ d.paused = g.paused
    BY <1>2, <2>1 DEF Without, Client
  <2> QED
    BY <1>1, <1>2, <1>3, <2>2 DEF d
<1>4. CASE ~c.shared
  <2>1. d = [Without(c, "email") EXCEPT !.pending = FALSE]
    BY <1>4 DEF CancelAccountLookup
  <2> QED
    BY <1>4, <2>1 DEF Without, Client
<1> QED
  BY <1>3, <1>4 DEF Client

\* A client that does not wait for the browser may have its lookup withdrawn,
\* whoever else waits.
LEMMA CancelWaits ==
  ASSUME NEW c \in Client, NEW w, NEW k, Waits(c, w, k), ~c.authorizing
  PROVE  LET d == CancelAccountLookup(c)
         IN  d \in Client /\ Waits(d, w, k) /\ ~d.authorizing /\ ~d.pending /\ ~d.shared /\ d.paused = c.paused
BY CancelFields DEF Waits

\* The answer r is taken from a client; only its refresh is waited for.
LEMMA WithoutWaits ==
  ASSUME NEW c \in Client, NEW w, NEW k, Waits(c, w, k), NEW r \in Request,
         r = "refresh" => ~Current(c, "refresh"), r = "email" => ~c.pending
  PROVE  LET d == Without(c, r)
         IN  /\ d \in Client /\ Waits(d, w, k) /\ d.replies = c.replies \ {r}
             /\ d.authorizing = c.authorizing /\ d.pending = c.pending /\ d.shared = c.shared
             /\ d.paused = c.paused /\ d.server = c.server /\ d.stale = c.stale \ {r}
BY DEF Waits, Without, Client, Current, Request

\* A lookup that was sent waits for its refresh or for the account, and the page
\* for the lookup.
LEMMA LookupWaits ==
  ASSUME client \in Client, NEW w, Waits(client, w, call), ~client.authorizing, Lookup(client)
  PROVE  /\ client' \in Client /\ Waits(client', w, call) /\ ~client'.authorizing
         /\ \/ page' \in {"connectionError", "needsAuthorization"} /\ ~client'.pending
            \/ page' = "connecting" /\ client'.pending
         /\ ready' = FALSE
<1> DEFINE d == CancelAccountLookup(client)
<1>1. /\ d \in Client /\ Waits(d, w, call) /\ ~d.authorizing /\ ~d.pending /\ ~d.shared
      /\ d.paused = client.paused
  BY CancelWaits
<1>2. \/ client' = d /\ Finished("connectionError")
      \/ client' = d /\ Finished("needsAuthorization")
      \/ /\ ~d.paused /\ d.replies = {} /\ page' = "connecting" /\ ready' = FALSE
         /\ \/ client' = [d EXCEPT !.pending = TRUE, !.replies = {"email"}]
            \/ client' = SendRefresh([d EXCEPT !.pending = TRUE])
  BY DEF Lookup, IsBusy
<1> HIDE DEF d
<1>3. CASE client' = d /\ (Finished("connectionError") \/ Finished("needsAuthorization"))
  BY <1>1, <1>3 DEF Finished
<1>4. CASE /\ ~d.paused /\ d.replies = {} /\ page' = "connecting" /\ ready' = FALSE
           /\ client' = [d EXCEPT !.pending = TRUE, !.replies = {"email"}]
  <2>1. /\ client' \in Client /\ client'.replies = {"email"} /\ client'.stale = d.stale
        /\ client'.pending /\ ~client'.shared /\ ~client'.authorizing /\ client'.waiting = d.waiting
    BY <1>1, <1>4 DEF Client, Request
  <2> QED
    BY <1>1, <1>4, <2>1 DEF Waits
<1>5. CASE /\ ~d.paused /\ d.replies = {} /\ page' = "connecting" /\ ready' = FALSE
           /\ client' = SendRefresh([d EXCEPT !.pending = TRUE])
  <2>1. /\ client' \in Client /\ client'.replies = {"refresh"} /\ client'.stale = d.stale
        /\ client'.pending /\ client'.shared /\ ~client'.authorizing /\ client'.waiting = d.waiting
        /\ ~client'.paused
    BY <1>1, <1>5 DEF SendRefresh, Client, Request
  <2>2. d.stale = {}
    BY <1>1, <1>5 DEF Waits
  <2> QED
    BY <1>1, <1>5, <2>1, <2>2 DEF Waits, Current
<1> QED
  BY <1>2, <1>3, <1>4, <1>5

\* An authorization waits in an open wizard, and a wizard without a lookup.
LEMMA OpenWizard ==
  ASSUME AccountInv
  PROVE  /\ client \in Client /\ token \in BOOLEAN
         /\ client.authorizing => wizard = "waiting"
         /\ wizard # "closed" => ~client.pending /\ ~client.shared /\ ~starting
  BY DEF AccountInv, Truthful, Consented, OnlyAsked, Waits, Shown

LEMMA LookupsShown ==
  AccountInv /\ (LookupRuns \/ RetryAccount) => Truthful'
<1> SUFFICES ASSUME AccountInv, LookupRuns \/ RetryAccount
             PROVE  Truthful'
  OBVIOUS
<1>1. wizard = "closed" /\ provider /\ ~client.authorizing
  <2>1. provider /\ (page = "connecting" \/ page \in Retries)
    BY DEF LookupRuns, RetryAccount, AccountInv, Truthful, Shown
  <2> QED
    BY <2>1, OpenWizard DEF AccountInv, Truthful, Shown, Retries
<1>2. UNCHANGED <<token, provider, wizard, stack, job, call>> /\ starting' = FALSE
  BY DEF LookupRuns, RetryAccount, work
<1>3. Lookup(client)
  BY DEF LookupRuns, RetryAccount, AccountInv, Truthful, Shown
<1>4. /\ client' \in Client /\ Waits(client', wizard, call) /\ ~client'.authorizing
      /\ \/ page' \in {"connectionError", "needsAuthorization"} /\ ~client'.pending
         \/ page' = "connecting" /\ client'.pending
      /\ ready' = FALSE
  BY <1>1, <1>3, OpenWizard, LookupWaits DEF AccountInv, Truthful
<1>5. Nested'
  BY <1>2 DEF AccountInv, Truthful, Nested
<1>6. Shown'
  BY <1>1, <1>2, <1>4 DEF Shown, Pages, Retries
<1> QED
  BY <1>2, <1>4, <1>5, <1>6 DEF Truthful

LEMMA EmailShown == AccountInv /\ EmailReturns => Truthful'
<1> SUFFICES ASSUME AccountInv, EmailReturns PROVE Truthful'
  OBVIOUS
<1> DEFINE c == Without(client, "email")
<1>1. UNCHANGED <<token, starting, provider, wizard, stack, job, call>>
  BY DEF EmailReturns, work
<1>2. client \in Client /\ Waits(client, wizard, call) /\ Shown /\ Nested
  BY OpenWizard DEF AccountInv, Truthful
<1>3. /\ c \in Client /\ c.replies = client.replies \ {"email"} /\ c.stale = client.stale \ {"email"}
      /\ c.authorizing = client.authorizing /\ c.waiting = client.waiting /\ c.paused = client.paused
      /\ c.server = client.server /\ c.pending = client.pending /\ c.shared = client.shared
  BY <1>2 DEF Without, Client
<1>4. Nested'
  BY <1>1, <1>2 DEF Nested
<1>5. CASE ~client.pending
  <2>1. client' = c /\ UNCHANGED <<page, ready>>
    BY <1>5 DEF EmailReturns
  <2> HIDE DEF c
  <2>2. Waits(client', wizard, call)
    BY <1>2, <1>3, <1>5, <2>1 DEF Waits, Current
  <2>3. Shown'
    BY <1>1, <1>2, <1>3, <2>1 DEF Shown
  <2> QED
    BY <1>1, <1>4, <2>2, <2>3 DEF Truthful
<1>6. CASE client.pending
  <2>1. /\ \/ client' = [c EXCEPT !.pending = FALSE]
           \/ client' = [c EXCEPT !.pending = FALSE, !.access = "none"]
        /\ page' \in {"connectionError", "missingEmail", "connected", "needsAuthorization"}
        /\ ready' = (page' = "connected")
    BY <1>6, Zenon DEF EmailReturns, Finished
  <2> HIDE DEF c
  <2>2. ~client.shared /\ ~client.authorizing
    BY <1>2, <1>6, OpenWizard DEF EmailReturns, Waits
  <2>3. /\ ~client'.pending /\ ~client'.shared /\ ~client'.authorizing /\ client'.waiting = c.waiting
        /\ client'.replies = c.replies /\ client'.stale = c.stale
    BY <1>3, <2>1, <2>2 DEF Client
  <2>4. Waits(client', wizard, call)
    BY <1>2, <1>3, <2>3 DEF Waits
  <2>5. Shown'
    BY <1>1, <1>2, <1>3, <1>6, <2>1, <2>3 DEF Shown, Pages, Retries
  <2> QED
    BY <1>1, <1>4, <2>4, <2>5 DEF Truthful
<1> QED
  BY <1>5, <1>6

\* A step of the client that is not about the page.
LEMMA PageStays ==
  ASSUME AccountInv, UNCHANGED <<token, page, ready, starting, provider, wizard, stack, job>>,
         client'.pending <=> client.pending, "revoke" \in client'.replies => "revoke" \in client.replies
  PROVE  Shown'
BY DEF AccountInv, Truthful, Shown

LEMMA LoopsStay ==
  ASSUME AccountInv, UNCHANGED <<wizard, stack, job>>,
         call' = call \/ (job.op # "none" /\ call' \in {"none", "token", "granted", "refused", "flying", "arrived"})
  PROVE  Nested'
BY DEF AccountInv, Truthful, Nested

\* The refresh's answer wakes whoever waits for it, the lookup and the run.
LEMMA RefreshShown == AccountInv /\ RefreshReturns => Truthful'
<1> SUFFICES ASSUME AccountInv, RefreshReturns PROVE Truthful'
  OBVIOUS
<1> DEFINE c == Without(client, "refresh")
<1>1. UNCHANGED <<starting, provider, wizard, stack, job>>
  BY DEF RefreshReturns
<1>2. client \in Client /\ Waits(client, wizard, call) /\ Shown /\ Nested /\ Consented
  BY OpenWizard DEF AccountInv, Truthful
<1>3. /\ c \in Client /\ c.replies = client.replies \ {"refresh"} /\ c.stale = client.stale \ {"refresh"}
      /\ c.authorizing = client.authorizing /\ c.waiting = client.waiting /\ c.paused = client.paused
      /\ c.server = client.server /\ c.pending = client.pending /\ c.shared = client.shared
  BY <1>2 DEF Without, Client
<1>4. call' = call \/ (call = "token" /\ call' \in {"granted", "refused"})
  BY Zenon DEF RefreshReturns
<1>5. Nested'
  BY <1>1, <1>2, <1>4 DEF Nested
<1>6. CASE ~Current(client, "refresh")
  <2>1. client' = c /\ UNCHANGED <<token, page, ready, call>>
    BY <1>6 DEF RefreshReturns
  <2> HIDE DEF c
  <2>2. Waits(client', wizard, call)
    BY <1>2, <1>3, <1>6, <2>1 DEF Waits, Current
  <2>3. Shown'
    BY <1>1, <1>3, <2>1, PageStays
  <2> QED
    BY <1>1, <1>5, <2>1, <2>2, <2>3 DEF Truthful
<1>7. CASE /\ Current(client, "refresh") /\ client' = Refreshed(client) /\ Saved
           /\ call' = IF call = "token" THEN "granted" ELSE call
           /\ UNCHANGED <<page, ready>>
  <2>1. token' = token
    BY <1>2, <1>7 DEF Consented, OnlyAsked, Current, Saved
  <2>2. client' = [c EXCEPT !.access = "fresh", !.shared = FALSE,
                            !.replies = IF client.pending THEN @ \cup {"email"} ELSE @]
    BY <1>7 DEF Refreshed
  <2> HIDE DEF c
  <2>3. /\ client'.replies = IF client.pending THEN c.replies \cup {"email"} ELSE c.replies
        /\ client'.stale = c.stale /\ ~client'.shared /\ client'.pending = c.pending
        /\ client'.authorizing = c.authorizing /\ client'.waiting = c.waiting /\ client'.server = c.server
    BY <1>3, <2>2 DEF Client
  <2>4. Waits(client', wizard, call')
    BY <1>2, <1>3, <1>7, <2>3 DEF Waits
  <2>5. Shown'
    BY <1>1, <1>3, <1>7, <2>1, <2>3, PageStays
  <2> QED
    BY <1>1, <1>5, <2>4, <2>5 DEF Truthful
<1>8. CASE /\ Current(client, "refresh") /\ client' = RefreshFailed(c) /\ token' = token
           /\ IF client.pending
              THEN \E state \in {"connectionError", "needsAuthorization"} : Finished(state)
              ELSE UNCHANGED <<page, ready>>
           /\ call' = IF call = "token" THEN "refused" ELSE call
  <2>1. client' = [c EXCEPT !.pending = FALSE, !.shared = FALSE]
    BY <1>8 DEF RefreshFailed
  <2> HIDE DEF c
  <2>2. /\ client'.replies = c.replies /\ client'.stale = c.stale /\ ~client'.shared /\ ~client'.pending
        /\ client'.authorizing = c.authorizing /\ client'.waiting = c.waiting /\ client'.server = c.server
    BY <1>3, <2>1 DEF Client
  <2>3. Waits(client', wizard, call')
    BY <1>2, <1>3, <1>8, <2>2 DEF Waits
  <2>4. CASE client.pending
    <3>1. page' \in {"connectionError", "needsAuthorization"} /\ ready' = FALSE
      BY <1>8, <2>4, Zenon DEF Finished
    <3> QED
      BY <1>1, <1>2, <1>3, <1>5, <1>8, <2>2, <2>3, <2>4, <3>1 DEF Shown, Truthful, Pages, Retries
  <2>5. CASE ~client.pending
    <3>1. Shown'
      BY <1>1, <1>3, <1>8, <2>2, <2>5, PageStays DEF Client
    <3> QED
      BY <1>1, <1>5, <2>3, <3>1 DEF Truthful
  <2> QED
    BY <2>4, <2>5
<1> QED
  BY <1>6, <1>7, <1>8, Zenon DEF RefreshReturns

LEMMA ExpiresShown == AccountInv /\ AccessExpires => Truthful'
<1> SUFFICES ASSUME AccountInv, AccessExpires PROVE Truthful'
  OBVIOUS
<1>1. UNCHANGED <<token, page, ready, starting, provider, wizard, stack, job, call>>
  BY DEF AccessExpires, screen, work
<1>2. client \in Client /\ Waits(client, wizard, call)
  BY OpenWizard DEF AccountInv, Truthful
<1>3. client' = [client EXCEPT !.access = "stale"]
  BY DEF AccessExpires
<1>4. Waits(client', wizard, call) /\ client'.pending = client.pending /\ client'.replies = client.replies
  BY <1>2, <1>3 DEF Waits, Current, Client
<1> QED
  BY <1>1, <1>4, PageStays, LoopsStay DEF Truthful

\* An open wizard shows the page it was opened from, and the user has to leave it.
LEMMA ConnectShown == AccountInv /\ ConnectClick => Truthful'
<1> SUFFICES ASSUME AccountInv, ConnectClick PROVE Truthful'
  OBVIOUS
<1> DEFINE d == CancelAccountLookup(client)
<1>1. /\ wizard = "closed" /\ wizard' = "idle" /\ client' = d /\ page' = "authorizing"
      /\ ready' = FALSE /\ starting' = FALSE /\ stack' = Append(stack, "wizard")
      /\ UNCHANGED <<token, provider, job, call>>
  BY DEF ConnectClick
<1>2. /\ client \in Client /\ Waits(client, wizard, call) /\ Nested /\ Shown
      /\ ~client.authorizing
  BY <1>1, OpenWizard DEF AccountInv, Truthful
<1>3. d \in Client /\ Waits(d, wizard, call) /\ ~d.authorizing /\ ~d.pending /\ ~d.shared
  BY <1>2, CancelWaits
<1> HIDE DEF d
<1>4. Waits(client', wizard', call')
  BY <1>1, <1>3 DEF Waits
<1>5. Nested'
  <2>1. stack = <<>> \/ stack = <<"sync">>
    BY <1>1, <1>2 DEF Nested
  <2>2. Append(<<>>, "wizard") = <<"wizard">> /\ Append(<<"sync">>, "wizard") = <<"sync", "wizard">>
    BY Loops
  <2>3. CASE stack = <<>>
    BY <1>1, <1>2, <2>2, <2>3 DEF Nested
  <2>4. CASE stack = <<"sync">>
    BY <1>1, <1>2, <2>2, <2>4 DEF Nested
  <2> QED
    BY <2>1, <2>3, <2>4
<1>6. Shown'
  BY <1>1, <1>2, <1>3 DEF Shown, Pages, Retries
<1> QED
  BY <1>4, <1>5, <1>6 DEF Truthful

LEMMA StartShown == AccountInv /\ WizardStart => Truthful'
<1> SUFFICES ASSUME AccountInv, WizardStart PROVE Truthful'
  OBVIOUS
<1> DEFINE d == CancelAccountLookup(client)
<1>1. wizard = "idle" /\ UNCHANGED <<token, page, ready, starting, provider, stack, job, call>>
  BY DEF WizardStart, work
<1>2. /\ client \in Client /\ Waits(client, wizard, call) /\ Nested /\ Shown
      /\ ~client.authorizing /\ ~client.pending
  BY <1>1, OpenWizard DEF AccountInv, Truthful
<1>3. /\ d \in Client /\ Waits(d, wizard, call) /\ ~d.authorizing /\ ~d.pending /\ ~d.shared
      /\ d.replies \subseteq client.replies
  BY <1>2, CancelWaits, CancelFields
<1>4. \/ wizard' = "waiting" /\ client' = d
      \/ /\ wizard' = "waiting" /\ ~d.waiting
         /\ client' = [d EXCEPT !.authorizing = TRUE, !.server = "live"]
      \/ wizard' = wizard /\ client' = [d EXCEPT !.server = "off"]
  BY DEF WizardStart, Authorize, IsBusy
<1> HIDE DEF d
<1>5. /\ client'.replies = d.replies /\ client'.stale = d.stale /\ ~client'.pending /\ ~client'.shared
      /\ client'.waiting = d.waiting
      /\ client'.authorizing => client'.server = "live" /\ wizard' = "waiting" /\ ~client'.waiting
  BY <1>3, <1>4 DEF Client
<1>6. Waits(client', wizard', call')
  BY <1>1, <1>3, <1>5 DEF Waits
<1>7. wizard' \in {"idle", "waiting"}
  BY <1>1, <1>4
<1>8. Nested'
  BY <1>1, <1>2, <1>7 DEF Nested
<1>9. Shown'
  BY <1>1, <1>2, <1>3, <1>5, <1>7 DEF Shown
<1> QED
  BY <1>6, <1>8, <1>9 DEF Truthful

LEMMA CallbackShown == AccountInv /\ CallbackReceived => Truthful'
<1> SUFFICES ASSUME AccountInv, CallbackReceived PROVE Truthful'
  OBVIOUS
<1> DEFINE c == [client EXCEPT !.authorizing = FALSE, !.server = "off"]
<1>1. UNCHANGED <<token, page, ready, starting, provider, stack, job, call>>
  BY DEF CallbackReceived, work
<1>2. client \in Client /\ Waits(client, wizard, call) /\ Nested /\ Shown /\ client.server = "live"
  BY OpenWizard DEF AccountInv, Truthful, CallbackReceived
<1>3. wizard = "waiting" /\ ~client.pending /\ ~client.shared
  BY <1>2, OpenWizard DEF AccountInv, Consented, OnlyAsked
<1>4. /\ client' = [c EXCEPT !.replies = @ \cup {"exchange"}] \/ client' = c
      /\ wizard' = wizard \/ wizard' = "idle"
  BY <1>3, Zenon DEF CallbackReceived, Failed
<1>5. /\ c.replies = client.replies /\ c.stale = client.stale /\ c.waiting = client.waiting
      /\ ~c.authorizing /\ ~c.pending /\ ~c.shared /\ c \in Client
  BY <1>2, <1>3 DEF Client
<1> HIDE DEF c
<1>6. /\ client'.replies \in {c.replies, c.replies \cup {"exchange"}}
      /\ client'.stale = c.stale /\ client'.waiting = c.waiting
      /\ ~client'.authorizing /\ ~client'.pending /\ ~client'.shared
  BY <1>4, <1>5 DEF Client
<1>7. Waits(client', wizard', call')
  BY <1>1, <1>2, <1>5, <1>6 DEF Waits
<1>8. Nested'
  BY <1>1, <1>2, <1>3, <1>4 DEF Nested
<1>9. Shown'
  BY <1>1, <1>2, <1>3, <1>4, <1>5, <1>6 DEF Shown
<1> QED
  BY <1>7, <1>8, <1>9 DEF Truthful

LEMMA ExchangeShown == AccountInv /\ ExchangeReturns => Truthful'
<1> SUFFICES ASSUME AccountInv, ExchangeReturns PROVE Truthful'
  OBVIOUS
<1> DEFINE c == Without(client, "exchange")
<1>1. UNCHANGED <<page, ready, starting, provider, stack, job, call>>
  BY DEF ExchangeReturns, work
<1>2. client \in Client /\ Waits(client, wizard, call) /\ Nested /\ Shown /\ token \in BOOLEAN
  BY OpenWizard DEF AccountInv, Truthful
<1>3. /\ c \in Client /\ Waits(c, wizard, call) /\ c.replies = client.replies \ {"exchange"}
      /\ c.authorizing = client.authorizing /\ c.pending = client.pending /\ c.shared = client.shared
      /\ c.paused = client.paused /\ c.server = client.server
  BY <1>2, WithoutWaits DEF Request
<1>4. \/ client' = c /\ UNCHANGED <<token, wizard>>
      \/ /\ Current(client, "exchange")
         /\ \/ client' = c /\ token' = token
            \/ client' = [c EXCEPT !.access = "fresh"] /\ Saved
         /\ wizard' \in {"accepted", "idle"}
  BY OpenWizard DEF AccountInv, Consented, OnlyAsked, ExchangeReturns, Current, Failed
<1> HIDE DEF c
<1>5. CASE client' = c /\ UNCHANGED <<token, wizard>>
  <2>1. Shown'
    BY <1>1, <1>3, <1>5, PageStays
  <2>2. Nested'
    BY <1>1, <1>5, LoopsStay
  <2> QED
    BY <1>1, <1>3, <1>5, <2>1, <2>2 DEF Truthful
<1>6. CASE /\ Current(client, "exchange")
           /\ \/ client' = c /\ token' = token
              \/ client' = [c EXCEPT !.access = "fresh"] /\ Saved
           /\ wizard' \in {"accepted", "idle"}
  <2>1. wizard = "waiting" /\ client.server # "live" /\ ~client.pending /\ ~starting
    BY <1>6, OpenWizard DEF AccountInv, Consented, OnlyAsked, Current
  <2>2. ~c.authorizing /\ ~c.pending /\ ~c.shared
    BY <1>2, <1>3, <2>1, OpenWizard DEF Waits
  <2>3. /\ client'.replies = c.replies /\ client'.stale = c.stale /\ client'.waiting = c.waiting
        /\ ~client'.authorizing /\ ~client'.pending /\ ~client'.shared
    BY <1>3, <1>6, <2>2 DEF Client
  <2>4. Waits(client', wizard', call')
    BY <1>1, <1>3, <2>3 DEF Waits
  <2>5. Nested'
    BY <1>1, <1>2, <1>6, <2>1 DEF Nested
  <2>6. Shown'
    BY <1>1, <1>2, <1>6, <2>1, <2>3 DEF Shown
  <2> QED
    BY <2>4, <2>5, <2>6 DEF Truthful
<1> QED
  BY <1>4, <1>5, <1>6

LEMMA LeavingShown == AccountInv /\ (WizardReject \/ AuthorizeCancelled) => Truthful'
<1> SUFFICES ASSUME AccountInv, WizardReject \/ AuthorizeCancelled PROVE Truthful'
  OBVIOUS
<1> DEFINE a == CancelAccountLookup(client)
           g == NextGeneration(a)
<1>1. /\ UNCHANGED <<token, provider, stack, job, call>>
      /\ client' = [g EXCEPT !.authorizing = FALSE, !.server = "off"]
  BY DEF WizardReject, AuthorizeCancelled, work, CancelAuthorization
<1>2. client \in Client /\ Waits(client, wizard, call) /\ Nested /\ Shown
  BY OpenWizard DEF AccountInv, Truthful
<1>3. /\ a \in Client /\ ~a.pending /\ ~a.shared /\ a.waiting = client.waiting
      /\ a.replies \subseteq client.replies
  BY <1>2, CancelFields
<1> HIDE DEF a
<1>4. /\ g \in Client /\ ~g.pending /\ ~g.shared /\ g.waiting = a.waiting
      /\ g.replies = a.replies /\ g.stale \subseteq g.replies
  BY <1>3 DEF NextGeneration, Client
<1> HIDE DEF g
<1>5. /\ ~client'.pending /\ ~client'.shared /\ ~client'.authorizing /\ client'.waiting = g.waiting
      /\ client'.replies = g.replies /\ client'.stale = g.stale
  BY <1>1, <1>4 DEF Client
<1>6. Waits(client', wizard', call')
  BY <1>1, <1>2, <1>3, <1>4, <1>5 DEF Waits
<1>7. CASE WizardReject
  <2>1. /\ wizard \in {"idle", "waiting"} /\ wizard' = "rejected"
        /\ UNCHANGED <<page, ready, starting>>
    BY <1>7 DEF WizardReject
  <2>2. Nested'
    BY <1>1, <1>2, <2>1 DEF Nested
  <2>3. Shown'
    BY <1>1, <1>2, <1>3, <1>4, <1>5, <2>1 DEF Shown
  <2> QED
    BY <1>6, <2>2, <2>3 DEF Truthful
<1>8. CASE AuthorizeCancelled
  <2>1. wizard' = wizard /\ page' = "disconnected" /\ ready' = FALSE /\ starting' = FALSE
    BY <1>8 DEF AuthorizeCancelled
  <2>2. Nested'
    BY <1>1, <2>1, LoopsStay
  <2>3. Shown'
    BY <1>1, <1>2, <1>5, <2>1 DEF Shown, Pages, Retries
  <2> QED
    BY <1>6, <2>2, <2>3 DEF Truthful
<1> QED
  BY <1>7, <1>8

\* The innermost loop has returned: at most the other one is left.
LEMMA LoopLeft ==
  ASSUME Nested, NEW top \in {"sync", "wizard"}, Top = top
  PROVE  /\ stack = <<top>> \/ \E a \in {"sync", "wizard"} \ {top} : stack = <<a, top>>
         /\ stack = <<top>> => Under = <<>>
         /\ \A a : stack = <<a, top>> => Under = <<a>>
<1>1. stack # <<>> /\ top = stack[Len(stack)]
  BY DEF Top
<1>2. stack = <<top>> => Under = <<>>
  BY Loops DEF Under
<1>3. \A a : stack = <<a, top>> => Under = <<a>>
  BY Loops DEF Under
<1>4. CASE stack = <<"sync">> \/ stack = <<"wizard">>
  BY <1>1, <1>2, <1>3, <1>4, Loops
<1>5. CASE stack = <<"sync", "wizard">>
  <2>1. top = "wizard"
    BY <1>1, <1>5, Loops
  <2> QED
    BY <1>2, <1>3, <1>5, <2>1
<1>6. CASE stack = <<"wizard", "sync">>
  <2>1. top = "sync"
    BY <1>1, <1>6, Loops
  <2> QED
    BY <1>2, <1>3, <1>6, <2>1
<1> QED
  BY <1>1, <1>4, <1>5, <1>6 DEF Nested

LEMMA ReturnsShown == AccountInv /\ WizardReturns => Truthful'
<1> SUFFICES ASSUME AccountInv, WizardReturns PROVE Truthful'
  OBVIOUS
<1>1. /\ Top = "wizard" /\ wizard \in {"accepted", "rejected"} /\ wizard' = "closed" /\ stack' = Under
      /\ starting' = FALSE /\ UNCHANGED <<token, job, call>>
  BY DEF WizardReturns
<1>2. /\ client \in Client /\ Waits(client, wizard, call) /\ Nested /\ Shown
      /\ ~client.authorizing /\ ~client.pending
  BY <1>1, OpenWizard DEF AccountInv, Truthful
<1>3. Nested'
  <2>1. \/ stack = <<"wizard">> /\ stack' = <<>>
        \/ stack = <<"sync", "wizard">> /\ stack' = <<"sync">>
    BY <1>1, <1>2, LoopLeft
  <2>2. CASE stack = <<"wizard">> /\ stack' = <<>>
    BY <1>1, <1>2, <2>2 DEF Nested
  <2>3. CASE stack = <<"sync", "wizard">> /\ stack' = <<"sync">>
    BY <1>1, <1>2, <2>3 DEF Nested
  <2> QED
    BY <2>1, <2>2, <2>3
<1>4. CASE UNCHANGED <<client, ready, provider>> /\ page' \in {page, "disconnected"}
  <2>1. Waits(client', wizard', call')
    BY <1>1, <1>2, <1>4 DEF Waits
  <2>2. page' \in {"authorizing", "disconnected"} /\ ready' = FALSE
    BY <1>1, <1>2, <1>4 DEF Shown
  <2>3. Shown'
    BY <1>1, <1>2, <1>4, <2>2 DEF Shown, Pages, Retries
  <2> QED
    BY <1>3, <2>1, <2>3 DEF Truthful
<1>5. CASE provider' = TRUE /\ Lookup(client)
  <2>1. /\ client' \in Client /\ Waits(client', wizard, call) /\ ~client'.authorizing
        /\ \/ page' \in {"connectionError", "needsAuthorization"} /\ ~client'.pending
           \/ page' = "connecting" /\ client'.pending
        /\ ready' = FALSE
    BY <1>2, <1>5, LookupWaits
  <2>2. Waits(client', wizard', call')
    BY <1>1, <2>1 DEF Waits
  <2>3. Shown'
    BY <1>1, <1>2, <1>5, <2>1 DEF Shown, Pages, Retries
  <2> QED
    BY <1>3, <2>2, <2>3 DEF Truthful
<1> QED
  BY <1>4, <1>5 DEF WizardReturns

LEMMA RevokingShown == AccountInv /\ (Disconnect \/ RevokeReturns) => Truthful'
<1> SUFFICES ASSUME AccountInv, Disconnect \/ RevokeReturns PROVE Truthful'
  OBVIOUS
<1>1. client \in Client /\ Waits(client, wizard, call) /\ Nested /\ Shown /\ token \in BOOLEAN
  BY OpenWizard DEF AccountInv, Truthful
<1>2. CASE Disconnect
  <2> DEFINE b == CancelAccountLookup(client)
             d == CancelAccountLookup(b)
  <2>1. /\ provider' = FALSE /\ page' = "disconnected" /\ ready' = FALSE /\ starting' = FALSE
        /\ UNCHANGED <<token, wizard, stack, job, call>>
        /\ wizard \in {"closed", "accepted", "rejected"}
        /\ client' = RevokeTokens(b, token)
    BY <1>2 DEF Disconnect, work, Clickable
  <2>2. b \in Client /\ Waits(b, wizard, call) /\ ~b.authorizing
    BY <1>1, <2>1, OpenWizard, CancelWaits
  <2> HIDE DEF b
  <2>3. d \in Client /\ Waits(d, wizard, call) /\ ~d.authorizing /\ ~d.pending /\ ~d.shared
    BY <2>2, CancelWaits
  <2>4. \/ client' = d
        \/ d.replies = {} /\ client' = [d EXCEPT !.replies = @ \cup {"revoke"}]
    BY <2>1 DEF RevokeTokens, IsBusy
  <2> HIDE DEF d
  <2>5. /\ d.replies \subseteq client'.replies /\ client'.stale = d.stale /\ client'.waiting = d.waiting
        /\ ~client'.authorizing /\ ~client'.pending /\ ~client'.shared
    BY <2>3, <2>4 DEF Client
  <2>6. Waits(client', wizard', call')
    BY <2>1, <2>3, <2>5 DEF Waits
  <2>7. Nested'
    BY <2>1, LoopsStay
  <2>8. Shown'
    BY <1>1, <2>1, <2>5 DEF Shown, Pages, Retries
  <2> QED
    BY <2>6, <2>7, <2>8 DEF Truthful
<1>3. CASE RevokeReturns
  <2> DEFINE c == Without(client, "revoke")
  <2>1. /\ UNCHANGED <<page, ready, starting, provider, wizard, stack, job, call>>
        /\ "revoke" \in client.replies
        /\ client' = c \/ client' = [c EXCEPT !.access = "none"]
    BY <1>3 DEF RevokeReturns, screen, work
  <2>2. c \in Client /\ Waits(c, wizard, call) /\ c.pending = client.pending /\ c.replies \subseteq client.replies
    BY <1>1, WithoutWaits DEF Request
  <2> HIDE DEF c
  <2>3. /\ client'.replies = c.replies /\ client'.stale = c.stale /\ client'.pending = c.pending
        /\ client'.authorizing = c.authorizing /\ client'.waiting = c.waiting /\ client'.paused = c.paused
        /\ client'.server = c.server /\ client'.shared = c.shared
    BY <2>1, <2>2 DEF Client
  <2>4. Waits(client', wizard', call')
    BY <2>1, <2>2, <2>3 DEF Waits, Current
  <2>5. ~starting
    BY <1>1, <2>1 DEF Shown
  <2>6. Shown'
    BY <1>1, <2>1, <2>2, <2>3, <2>5 DEF Shown
  <2> QED
    BY <2>1, <2>4, <2>6, LoopsStay DEF Truthful
<1> QED
  BY <1>2, <1>3

LEMMA ResetShown ==
  AccountInv /\ (ResetConfirms \/ ResetDeclined \/ ResetForgets \/ Restart) => Truthful'
<1> SUFFICES ASSUME AccountInv, ResetConfirms \/ ResetDeclined \/ ResetForgets \/ Restart
             PROVE  Truthful'
  OBVIOUS
<1>1. client \in Client /\ Waits(client, wizard, call) /\ token \in BOOLEAN
  BY OpenWizard DEF AccountInv, Truthful
<1>2. CASE ResetForgets \/ Restart
  <2>1. Started /\ token' \in BOOLEAN
    <3>1. Started /\ (token' = FALSE \/ token' = token)
      BY <1>2 DEF ResetForgets, Restart
    <3>2. CASE token' = FALSE
      BY <3>1, <3>2
    <3>3. CASE token' = token
      BY <1>1, <3>1, <3>3
    <3> QED
      BY <3>1, <3>2, <3>3
  <2>2. Nested'
    BY <2>1, BoundsAssumption DEF Started, Nested, NoJob
  <2>3. Waits(client', wizard', call')
    BY <2>1 DEF Started, Waits, NewClient
  <2>4. Shown'
    <3>1. CASE token'
      <4>1. token' = TRUE
        BY <2>1, <3>1
      <4> QED
        BY <2>1, <4>1 DEF Started, Shown, NewClient, Pages, Retries
    <3>2. CASE ~token'
      <4>1. token' = FALSE
        BY <2>1, <3>2
      <4> QED
        BY <2>1, <4>1 DEF Started, Shown, NewClient, Pages, Retries
    <3> QED
      BY <3>1, <3>2
  <2> QED
    BY <2>2, <2>3, <2>4 DEF Truthful
<1>3. CASE ResetConfirms \/ ResetDeclined
  <2> DEFINE d == CancelAccountLookup(client)
  <2>1. UNCHANGED <<token, page, ready, starting, provider, wizard, stack, job, call>>
    BY <1>3, Zenon DEF ResetConfirms, ResetDeclined, screen, work
  <2>2. CASE ResetConfirms
    <3>1. ~client.authorizing /\ ~starting /\ client' = [d EXCEPT !.paused = TRUE]
      BY <2>2 DEF ResetConfirms, IsBusy, SetPaused
    <3>2. d \in Client /\ Waits(d, wizard, call) /\ ~d.authorizing /\ ~d.pending /\ ~d.shared
      BY <1>1, <3>1, CancelWaits
    <3> HIDE DEF d
    <3>3. /\ client'.replies = d.replies /\ client'.stale = d.stale /\ client'.waiting = d.waiting
          /\ ~client'.authorizing /\ ~client'.pending /\ ~client'.shared
      BY <3>1, <3>2 DEF Client
    <3>4. Waits(client', wizard, call)
      BY <3>2, <3>3 DEF Waits
    <3>5. ~client.pending
      <4>1. IsBusy(client) <=> (client.authorizing \/ client.waiting \/ client.replies # {})
        BY DEF IsBusy
      <4>2. client.replies = {}
        BY <2>2, <4>1 DEF ResetConfirms
      <4> QED
        BY <1>1, <4>2 DEF Waits, Current
    <3>6. Shown'
      BY <2>1, <3>1, <3>3, <3>5 DEF AccountInv, Truthful, Shown
    <3> QED
      BY <2>1, <3>4, <3>6, LoopsStay DEF Truthful
  <2>3. CASE ResetDeclined
    <3>1. client' = [client EXCEPT !.paused = FALSE]
      BY <2>3 DEF ResetDeclined, SetPaused
    <3>2. Waits(client', wizard, call) /\ client'.pending = client.pending /\ client'.replies = client.replies
      BY <1>1, <3>1 DEF Waits, Current, Client
    <3> QED
      BY <2>1, <3>2, PageStays, LoopsStay DEF Truthful
  <2> QED
    BY <1>3, <2>2, <2>3
<1> QED
  BY <1>2, <1>3

LEMMA SyncStartsShown == AccountInv /\ SyncStarts => Truthful'
<1> SUFFICES ASSUME AccountInv, SyncStarts PROVE Truthful'
  OBVIOUS
<1>1. /\ job = NoJob /\ stack' = Append(stack, "sync") /\ page' = IF ready THEN "syncing" ELSE page
      /\ job' = [At("read", "folder") EXCEPT !.tries = 1]
      /\ UNCHANGED <<token, client, ready, starting, provider, wizard, call>>
  BY DEF SyncStarts
<1>2. /\ Waits(client, wizard, call) /\ Nested /\ Shown
      /\ stack \in {<<>>, <<"wizard">>} /\ call = "none"
  BY <1>1 DEF AccountInv, Truthful, Nested, NoJob
<1>3. job'.op = "read" /\ job'.tries = 1
  BY <1>1 DEF At, NoJob
<1>4. 1 \in 0..MaxTries
  BY BoundsAssumption
<1>5. Append(<<>>, "sync") = <<"sync">> /\ Append(<<"wizard">>, "sync") = <<"wizard", "sync">>
  BY Loops
<1>6. Nested'
  <2>1. CASE stack = <<>>
    BY <1>1, <1>2, <1>3, <1>4, <1>5, <2>1 DEF Nested
  <2>2. CASE stack = <<"wizard">>
    <3>1. stack' = <<"wizard", "sync">> /\ wizard' = wizard /\ wizard # "closed"
      BY <1>1, <1>2, <1>5, <2>2, LoopsDiffer DEF Nested
    <3> QED
      BY <1>1, <1>2, <1>3, <1>4, <3>1, LoopsDiffer DEF Nested
  <2> QED
    BY <1>2, <2>1, <2>2
<1>7. Shown'
  BY <1>1, <1>2, <1>3 DEF Shown, Pages, Retries
<1> QED
  BY <1>1, <1>2, <1>6, <1>7 DEF Truthful

\* SyncFinished: a page that did not show the run does not show its end.
LEMMA EndsShown ==
  ASSUME AccountInv, Top = "sync", NEW state \in {"success", "conflict", "error"}, EndsSync(state)
  PROVE  Truthful'
<1>1. /\ job' = NoJob /\ call' = "none" /\ stack' = Under /\ page' = IF ready THEN state ELSE page
      /\ client' = [client EXCEPT !.waiting = FALSE]
      /\ UNCHANGED <<token, ready, starting, provider, wizard>>
  BY DEF EndsSync
<1>2. client \in Client /\ Waits(client, wizard, call) /\ Nested /\ Shown
  BY OpenWizard DEF AccountInv, Truthful
<1>3. /\ client'.replies = client.replies /\ client'.stale = client.stale /\ ~client'.waiting
      /\ client'.authorizing = client.authorizing /\ client'.pending = client.pending
      /\ client'.paused = client.paused /\ client'.server = client.server /\ client'.shared = client.shared
  BY <1>1, <1>2 DEF Client
<1>4. Waits(client', wizard', call')
  BY <1>1, <1>2, <1>3 DEF Waits, Current
<1>5. job'.op = "none" /\ job'.tries = 0 /\ 0 \in 0..MaxTries
  BY <1>1, BoundsAssumption DEF NoJob
<1>6. Nested'
  <2>1. \/ stack = <<"sync">> /\ stack' = <<>>
        \/ stack = <<"wizard", "sync">> /\ stack' = <<"wizard">>
    BY <1>1, <1>2, LoopLeft
  <2>2. CASE stack = <<"sync">> /\ stack' = <<>>
    BY <1>1, <1>2, <1>5, <2>2 DEF Nested
  <2>3. CASE stack = <<"wizard", "sync">> /\ stack' = <<"wizard">>
    BY <1>1, <1>2, <1>5, <2>3 DEF Nested
  <2> QED
    BY <2>1, <2>2, <2>3
<1>7. Shown'
  BY <1>1, <1>2, <1>3, <1>5 DEF Shown, Pages, Retries
<1> QED
  BY <1>4, <1>6, <1>7 DEF Truthful

\* A run that waits does so for a refresh that is under way, or times out.
LEMMA RequestShown == AccountInv /\ RequestBegins => Truthful'
<1> SUFFICES ASSUME AccountInv, RequestBegins PROVE Truthful'
  OBVIOUS
<1>1. /\ UNCHANGED <<token, starting, provider, wizard, stack, job>> /\ call = "none"
      /\ call' \in {"token", "flying", "refused"}
  BY Zenon DEF RequestBegins
<1>2. client \in Client /\ Waits(client, wizard, call) /\ Nested /\ Shown
  BY OpenWizard DEF AccountInv, Truthful
<1>3. job.op # "none"
  BY <1>2, LoopLeft, LoopsDiffer DEF RequestBegins, Nested
<1>4. Nested'
  BY <1>1, <1>3, LoopsStay
<1>5. ~client.waiting
  BY <1>1, <1>2 DEF Waits
<1>6. CASE call' = "flying" /\ UNCHANGED <<client, page, ready>>
  BY <1>1, <1>2, <1>4, <1>5, <1>6, PageStays DEF Waits, Truthful
<1>7. CASE /\ client' = [client EXCEPT !.waiting = TRUE] /\ client.shared
           /\ call' = "token" /\ UNCHANGED <<page, ready>>
  <2>1. /\ client'.replies = client.replies /\ client'.stale = client.stale /\ client'.waiting
        /\ client'.authorizing = client.authorizing /\ client'.pending = client.pending
        /\ client'.paused = client.paused /\ client'.server = client.server /\ client'.shared = client.shared
    BY <1>2, <1>7 DEF Client
  <2>2. Waits(client', wizard', call')
    BY <1>1, <1>2, <1>7, <2>1 DEF Waits, Current
  <2> QED
    BY <1>1, <1>4, <1>7, <2>1, <2>2, PageStays DEF Truthful
<1>8. CASE /\ client' = [SendRefresh(client) EXCEPT !.waiting = TRUE] /\ ~client.shared /\ CanRefresh(client, token)
           /\ call' = "token" /\ UNCHANGED <<page, ready>>
  <2>1. ~client.paused /\ client.replies = {} /\ client.stale = {} /\ ~client.pending
    BY <1>2, <1>8 DEF CanRefresh, Waits
  <2>2. /\ client'.replies = {"refresh"} /\ client'.stale = {} /\ client'.waiting
        /\ client'.authorizing = client.authorizing /\ ~client'.pending
        /\ ~client'.paused /\ client'.server = client.server /\ ~client'.shared
    BY <1>2, <1>8, <2>1 DEF SendRefresh, Client
  <2>3. Waits(client', wizard', call')
    BY <1>1, <1>2, <1>8, <2>2 DEF Waits, Current
  <2> QED
    BY <1>1, <1>4, <1>8, <2>1, <2>2, <2>3, PageStays DEF Truthful
<1>9. CASE /\ client' = RefreshFailed(client) /\ ~client.shared /\ call' = "refused"
           /\ IF client.pending THEN Finished(IF client.replies = {} THEN "needsAuthorization"
                                              ELSE "connectionError")
                                ELSE UNCHANGED <<page, ready>>
  <2>1. /\ client'.replies = client.replies /\ client'.stale = client.stale /\ client'.waiting = client.waiting
        /\ client'.authorizing = client.authorizing /\ ~client'.pending
        /\ client'.paused = client.paused /\ client'.server = client.server /\ ~client'.shared
    BY <1>2, <1>9 DEF RefreshFailed, Client
  <2>2. Waits(client', wizard', call')
    BY <1>1, <1>2, <1>5, <1>9, <2>1 DEF Waits
  <2>3. CASE client.pending
    <3>1. page' \in {"connectionError", "needsAuthorization"} /\ ready' = FALSE
      BY <1>9, <2>3 DEF Finished
    <3>2. Shown'
      BY <1>1, <1>2, <2>1, <2>3, <3>1 DEF Shown, Pages, Retries
    <3> QED
      BY <1>4, <2>2, <3>2 DEF Truthful
  <2>4. CASE ~client.pending
    BY <1>1, <1>4, <1>9, <2>1, <2>2, <2>4, PageStays DEF Truthful
  <2> QED
    BY <2>3, <2>4
<1> QED
  BY <1>6, <1>7, <1>8, <1>9 DEF RequestBegins

LEMMA WaitEndsShown == AccountInv /\ (TokenGranted \/ WaitExpires) => Truthful'
<1> SUFFICES ASSUME AccountInv, TokenGranted \/ WaitExpires PROVE Truthful'
  OBVIOUS
<1> DEFINE c == [client EXCEPT !.waiting = FALSE]
<1>1. /\ UNCHANGED <<token, page, ready, starting, provider, wizard, stack, job>>
      /\ call \in {"token", "granted"} /\ call' \in {"refused", "flying"}
  BY Zenon DEF TokenGranted, WaitExpires, screen
<1>2. client \in Client /\ Waits(client, wizard, call) /\ Nested
  BY OpenWizard DEF AccountInv, Truthful
<1>3. job.op # "none"
  BY <1>1, <1>2 DEF Nested
<1>4. Nested'
  BY <1>1, <1>3, LoopsStay
<1>5. /\ c \in Client /\ c.replies = client.replies /\ c.stale = client.stale /\ ~c.waiting
      /\ c.authorizing = client.authorizing /\ c.pending = client.pending
      /\ c.paused = client.paused /\ c.server = client.server /\ c.shared = client.shared
  BY <1>2 DEF Client
<1>6. CASE TokenGranted
  <2>1. client' = c
    BY <1>6 DEF TokenGranted
  <2> HIDE DEF c
  <2>2. Waits(client', wizard', call')
    BY <1>1, <1>2, <1>5, <2>1 DEF Waits, Current
  <2> QED
    BY <1>1, <1>4, <1>5, <2>1, <2>2, PageStays DEF Truthful
<1>7. CASE WaitExpires
  <2>1. client' = NextGeneration(c) /\ call = "token" /\ ~Current(client, "refresh")
    BY <1>7 DEF WaitExpires
  <2> HIDE DEF c
  <2>2. /\ client'.replies = c.replies /\ client'.stale \subseteq c.replies /\ ~client'.waiting
        /\ client'.authorizing = c.authorizing /\ client'.pending = c.pending /\ client'.shared = c.shared
    BY <1>5, <2>1 DEF NextGeneration, Client
  <2>3. ~client.authorizing /\ ~client.shared
    BY <1>2, <2>1 DEF Waits
  <2>4. Waits(client', wizard', call')
    BY <1>1, <1>2, <1>5, <2>2, <2>3 DEF Waits
  <2> QED
    BY <1>1, <1>4, <1>5, <2>2, <2>4, PageStays DEF Truthful
<1> QED
  BY <1>6, <1>7

\* The provider between its requests.
LEMMA RequestsShown ==
  ASSUME AccountInv, UNCHANGED <<token, client, page, ready, starting, provider, wizard, stack>>,
         call \in {"flying", "arrived"}, call' \in {"none", "arrived"},
         job'.op # "none", job'.tries \in 0..MaxTries
  PROVE  Truthful'
<1>1. /\ Waits(client, wizard, call) /\ Nested /\ Shown /\ job.op # "none"
  BY DEF AccountInv, Truthful, Nested
<1>2. Nested'
  BY <1>1 DEF Nested
<1>3. Waits(client', wizard', call')
  BY <1>1 DEF Waits
<1>4. Shown'
  BY <1>1 DEF Shown
<1> QED
  BY <1>2, <1>3, <1>4 DEF Truthful

LEMMA DriveShown == AccountInv /\ (DriveFinds \/ DriveWrites \/ DriveFails \/ GoesOn) => Truthful'
<1> SUFFICES ASSUME AccountInv, DriveFinds \/ DriveWrites \/ DriveFails \/ GoesOn PROVE Truthful'
  OBVIOUS
<1>1. /\ UNCHANGED <<token, client, page, ready, starting, provider, wizard, stack>>
      /\ call \in {"flying", "arrived"} /\ call' \in {"none", "arrived"}
  BY Zenon DEF DriveFinds, DriveWrites, DriveFails, GoesOn, NextRequest, Answered, screen
<1>2. job \in Job /\ job.op # "none" /\ job.tries \in 0..MaxTries
  BY <1>1 DEF AccountInv, IInv, Truthful, Nested
<1>3. job'.op = job.op /\ job'.tries = job.tries
  <2>1. CASE DriveFinds
    BY <1>2, <2>1 DEF DriveFinds, Job
  <2>2. CASE DriveWrites \/ DriveFails
    BY <1>2, <2>2 DEF DriveWrites, DriveFails, Job
  <2>3. CASE GoesOn
    <3>1. \E step : job' = [job EXCEPT !.at = step]
      BY <2>3, Zenon DEF GoesOn, NextRequest
    <3> QED
      BY <1>2, <3>1 DEF Job
  <2> QED
    BY <1>1, <2>1, <2>2, <2>3
<1> QED
  BY <1>1, <1>2, <1>3, RequestsShown

LEMMA RunsShown ==
  AccountInv /\ (ReadReturns \/ VersionMismatch \/ SyncSucceeds \/ SyncFails) => Truthful'
<1> SUFFICES ASSUME AccountInv, ReadReturns \/ VersionMismatch \/ SyncSucceeds \/ SyncFails
             PROVE  Truthful'
  OBVIOUS
<1>1. Top = "sync"
  BY DEF ReadReturns, VersionMismatch, SyncSucceeds, SyncFails
<1>2. CASE \E state \in {"success", "conflict", "error"} : EndsSync(state)
  BY <1>1, <1>2, EndsShown
<1>3. CASE Restart
  BY <1>3, ResetShown
<1>4. CASE /\ ReadReturns /\ UNCHANGED <<token, client, screen, stack>>
           /\ call' = "none"
           /\ \/ job' = [job EXCEPT !.op = "match", !.at = "folder"]
              \/ job' = [At("blind", "folder") EXCEPT !.tries = job.tries]
  <2>1. call = "arrived" /\ UNCHANGED <<page, ready, starting, provider, wizard>>
    BY <1>4 DEF ReadReturns, screen
  <2>2. job \in Job /\ job.tries \in 0..MaxTries
    BY DEF AccountInv, IInv, Truthful, Nested
  <2>3. job'.op \in {"match", "blind"} /\ job'.tries = job.tries
    BY <1>4, <2>2 DEF At, NoJob, Job
  <2> QED
    BY <1>4, <2>1, <2>2, <2>3, RequestsShown
<1>5. CASE /\ VersionMismatch /\ UNCHANGED <<token, client, screen, stack>>
           /\ call' = "none" /\ job.tries # MaxTries
           /\ job' = [At("read", "folder") EXCEPT !.tries = job.tries + 1]
  <2>1. call = "arrived" /\ UNCHANGED <<page, ready, starting, provider, wizard>>
    BY <1>5 DEF VersionMismatch, screen
  <2>2. job.tries \in 0..MaxTries
    BY DEF AccountInv, Truthful, Nested
  <2>3. job.tries + 1 \in 0..MaxTries
    BY <1>5, <2>2, BoundsAssumption
  <2>4. job'.op = "read" /\ job'.tries = job.tries + 1
    BY <1>5 DEF At, NoJob
  <2> QED
    BY <1>5, <2>1, <2>3, <2>4, RequestsShown
<1> QED
  BY <1>2, <1>3, <1>4, <1>5, Zenon DEF ReadReturns, VersionMismatch, SyncSucceeds, SyncFails

LEMMA StepShown == AccountInv /\ [Next]_vars => AccountInv'
<1> SUFFICES ASSUME AccountInv, [Next]_vars PROVE AccountInv'
  OBVIOUS
<1>1. IInv' /\ Consented'
  BY StepBracketed, StepConsented DEF AccountInv
<1>2. Truthful'
  <2>1. CASE OtherDeviceWrites \/ OtherDeviceCreatesFolder \/ UNCHANGED vars
    <3>1. UNCHANGED <<token, client, page, ready, starting, provider, wizard, stack, job, call>>
      BY <2>1, Zenon DEF OtherDeviceWrites, OtherDeviceCreatesFolder, vars, screen, work
    <3> QED
      BY <3>1 DEF AccountInv, Truthful, Nested, Waits, Shown
  <2> QED
    BY <2>1, LookupsShown, EmailShown, RefreshShown, ExpiresShown, ConnectShown, StartShown, CallbackShown,
       ExchangeShown, LeavingShown, ReturnsShown, RevokingShown, ResetShown, SyncStartsShown, RequestShown,
       WaitEndsShown, DriveShown, RunsShown, Zenon DEF Next, SyncSteps
<1> QED
  BY <1>1, <1>2 DEF AccountInv

LEMMA InitiallyShown == Init => AccountInv
<1> SUFFICES ASSUME Init PROVE AccountInv
  OBVIOUS
<1>1. IInv
  BY InitiallyBracketed
<1>2. Consented
  BY DEF Init, Consented, OnlyAsked, NewClient, Client, Request
<1>3. Nested
  BY BoundsAssumption DEF Init, Nested, NoJob
<1>4. Waits(client, wizard, call)
  BY DEF Init, Waits, NewClient
<1>5. Shown
  <2>1. CASE token = TRUE
    BY <2>1 DEF Init, Shown, NewClient, Pages, Retries
  <2>2. CASE token = FALSE
    BY <2>2 DEF Init, Shown, NewClient, Pages, Retries
  <2> QED
    BY <2>1, <2>2 DEF Init
<1> QED
  BY <1>1, <1>2, <1>3, <1>4, <1>5 DEF AccountInv, Truthful

LEMMA AccountInvariant == Spec => []AccountInv
<1>1. Init => AccountInv
  BY InitiallyShown
<1>2. AccountInv /\ [Next]_vars => AccountInv'
  BY StepShown
<1> QED
  BY <1>1, <1>2, PTL DEF Spec

\* GoogleOAuthClient, OAuthWizardDialog and SyncManager: the account's record stays well
\* typed, a wizard and a run nest in each other and never in themselves, and a
\* run makes at most max_retries attempts.
THEOREM AccountTypes == Spec => []TypeOK
<1>1. AccountInv => TypeOK
  BY AccountParts
<1> QED
  BY <1>1, AccountInvariant, PTL

\* Application::WirePreferencesPage: no late answer and no run that was under way
\* shows an account as connected that has been dropped.
THEOREM PageTellsTheTruth == Spec => []PageShowsConnection
<1>1. AccountInv => PageShowsConnection
  BY AccountParts
<1> QED
  BY <1>1, AccountInvariant, PTL

\* GoogleOAuthClient::LookupGoogleAccount, CancelAccountLookup and Authorize: whatever is
\* withdrawn, a page that waits does so for an answer that is under way and that
\* will be taken, and a wanted callback finds its server.
THEOREM PageWaitsForSomething == Spec => []PageNeverStuck
<1>1. AccountInv => PageNeverStuck
  BY AccountParts
<1> QED
  BY <1>1, AccountInvariant, PTL
=============================================================================
