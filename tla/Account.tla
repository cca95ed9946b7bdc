------------------------------- MODULE Account -------------------------------
(***************************************************************************)
(* The Google account of one running program: the OAuth client with its     *)
(* wizard, the preferences page and the handlers that connect them          *)
(* (Application::WirePreferencesPage), and the requests GoogleDriveProvider *)
(* makes for a synchronisation, one after another, each with an access      *)
(* token it may have to wait for.                                           *)
(*                                                                         *)
(* A synchronisation and the wizard each run an event loop inside the other *)
(* (`stack`): the code below the innermost one goes on only when that one   *)
(* has returned. Answers arrive in any of them.                             *)
(***************************************************************************)
EXTENDS OAuthClient, Naturals, Sequences

CONSTANTS
  MaxVersion,   \* bound: writes of the backup on the server
  MaxTries      \* max_retries of PerformSync

ASSUME BoundsAssumption == MaxVersion \in Nat \ {0} /\ MaxTries \in Nat \ {0}

VARIABLES
  token,     \* google_token.dat exists
  client,    \* GoogleOAuthClient
  page,      \* the state SetSyncState gave the preferences page
  ready,     \* account_connection_ready_
  starting,  \* account_startup_pending_: the first lookup is posted
  provider,  \* SyncManager has a provider
  wizard,    \* OAuthWizardDialog
  stack,     \* the nested event loops, the innermost last
  job,       \* the request of the provider that DoSyncOnce waits for
  call,      \* how far SendRequestSync is with it
  drive      \* the server: the folder, and each backup file's version, 0 for none

screen == <<page, ready, starting, provider, wizard>>
work == <<stack, job, call>>
vars == <<token, client, screen, work, drive>>

File == {1, 2}   \* two devices that both find no file may both create one
Pages == {"disconnected", "connecting", "authorizing", "needsAuthorization", "connectionError",
          "missingEmail", "connected", "syncing", "success", "conflict", "error"}

\* Where ApplySyncState shows the retry button, and the account with its buttons.
Retries == {"connectionError", "missingEmail"}
Authorized == Pages \ {"disconnected", "authorizing", "needsAuthorization"}

\* TokenStore: either may fail, and no caller looks at the result.
Saved == token' \in {token, TRUE}
Cleared == token' \in {token, FALSE}

NoJob == [op |-> "none", at |-> "none", file |-> 0, before |-> 0, body |-> 0, expect |-> 0, tries |-> 0]

Top == IF stack = <<>> THEN "main" ELSE stack[Len(stack)]
Under == SubSeq(stack, 1, Len(stack) - 1)

\* InitializeRuntime and WirePreferencesPage with what the disk holds.
Started ==
  /\ client' = NewClient
  /\ page' = IF token' THEN "connecting" ELSE "disconnected"
  /\ ready' = FALSE /\ starting' = token' /\ provider' = token'
  /\ wizard' = "closed" /\ stack' = <<>> /\ job' = NoJob /\ call' = "none"

Init ==
  /\ token \in BOOLEAN
  /\ client = NewClient
  /\ page = IF token THEN "connecting" ELSE "disconnected"
  /\ ready = FALSE /\ starting = token /\ provider = token
  /\ wizard = "closed" /\ stack = <<>> /\ job = NoJob /\ call = "none"
  /\ drive = [folder |-> FALSE, file |-> [f \in File |-> 0], writes |-> 0]

\* The process ends, at once or in the middle of anything, and starts again.
Restart == token' = token /\ Started /\ UNCHANGED drive

-----------------------------------------------------------------------------
(* The account lookup.                                                      *)

\* AccountLookupFinished
Finished(state) == page' = state /\ ready' = (state = "connected")

\* LookupGoogleAccount with the client c.
Lookup(c) ==
  LET d == CancelAccountLookup(c)
  IN  IF d.paused \/ IsBusy(d)
      THEN client' = d /\ Finished("connectionError")
      ELSE IF d.access = "fresh"
      THEN /\ client' = [d EXCEPT !.pending = TRUE, !.replies = {"email"}]
           /\ page' = "connecting" /\ ready' = FALSE
      ELSE IF token
      THEN /\ client' = SendRefresh([d EXCEPT !.pending = TRUE])
           /\ page' = "connecting" /\ ready' = FALSE
      ELSE client' = d /\ Finished("needsAuthorization")

\* The lookup that the start posts to the event loop.
LookupRuns ==
  /\ starting
  /\ starting' = FALSE
  /\ IF token THEN Lookup(client) ELSE UNCHANGED <<client, page, ready>>
  /\ UNCHANGED <<token, provider, wizard, work, drive>>

\* The page is behind neither dialog.
Clickable == ~client.paused /\ wizard \in {"closed", "accepted", "rejected"}

RetryAccount ==
  /\ Clickable /\ page \in Retries
  /\ Lookup(client)
  /\ starting' = FALSE
  /\ UNCHANGED <<token, provider, wizard, work, drive>>

\* RequestAccountEmail's answer.
EmailReturns ==
  /\ "email" \in client.replies
  /\ LET c == Without(client, "email") IN
     IF ~client.pending THEN client' = c /\ UNCHANGED <<page, ready>>
     ELSE \/ /\ client' = [c EXCEPT !.pending = FALSE]
             /\ \E state \in {"connectionError", "missingEmail", "connected"} : Finished(state)
          \/ /\ client' = [c EXCEPT !.pending = FALSE, !.access = "none"]   \* 401
             /\ Finished("needsAuthorization")
  /\ UNCHANGED <<token, starting, provider, wizard, work, drive>>

\* The answer to a refresh goes to the lookup and to the synchronisation that
\* waits for it.
RefreshReturns ==
  /\ "refresh" \in client.replies
  /\ LET c == Without(client, "refresh") IN
     IF ~Current(client, "refresh")
     THEN client' = c /\ UNCHANGED <<token, page, ready, call>>
     ELSE \/ /\ client' = Refreshed(client)
             /\ Saved
             /\ call' = IF call = "token" THEN "granted" ELSE call
             /\ UNCHANGED <<page, ready>>
          \/ /\ client' = RefreshFailed(c)
             /\ IF client.pending
                THEN \E state \in {"connectionError", "needsAuthorization"} : Finished(state)
                ELSE UNCHANGED <<page, ready>>
             /\ call' = IF call = "token" THEN "refused" ELSE call
             /\ UNCHANGED token
  /\ UNCHANGED <<starting, provider, wizard, stack, job, drive>>

AccessExpires ==
  /\ client.access = "fresh"
  /\ client' = [client EXCEPT !.access = "stale"]
  /\ UNCHANGED <<token, screen, work, drive>>

-----------------------------------------------------------------------------
(* Connecting and disconnecting.                                            *)

ConnectClick ==
  /\ Clickable /\ wizard = "closed"
  /\ client' = CancelAccountLookup(client)
  /\ page' = "authorizing" /\ ready' = FALSE /\ starting' = FALSE
  /\ wizard' = "idle" /\ stack' = Append(stack, "wizard")
  /\ UNCHANGED <<token, provider, job, call, drive>>

\* OnStart waits for a signal, which a busy client never gives.
WizardStart ==
  /\ wizard = "idle"
  /\ \/ wizard' = "waiting" /\ client' = Authorize(client)
     \/ /\ ~client.paused /\ ~IsBusy(CancelAccountLookup(client))   \* no port to bind
        /\ client' = [CancelAccountLookup(client) EXCEPT !.server = "off"]
        /\ UNCHANGED wizard
  /\ UNCHANGED <<token, page, ready, starting, provider, work, drive>>

\* AuthorizationFailed in the wizard.
Failed == wizard' = IF wizard = "waiting" THEN "idle" ELSE wizard

\* The browser's request to /callback: one is answered, then the server stops.
CallbackReceived ==
  /\ client.server = "live" /\ ~client.paused
  /\ LET c == [client EXCEPT !.authorizing = FALSE, !.server = "off"] IN
     \/ client' = [c EXCEPT !.replies = @ \cup {"exchange"}] /\ UNCHANGED wizard
     \/ client' = c /\ Failed       \* an error, another state or no code
  /\ UNCHANGED <<token, page, ready, starting, provider, work, drive>>

\* The refresh token is saved when there is one and the disk allows it; the
\* wizard succeeds in any case.
ExchangeReturns ==
  /\ "exchange" \in client.replies
  /\ LET c == Without(client, "exchange") IN
     IF ~Current(client, "exchange") THEN client' = c /\ UNCHANGED <<token, wizard>>
     ELSE \/ /\ client' = [c EXCEPT !.access = "fresh"]
             /\ Saved
             /\ wizard' = IF wizard = "waiting" THEN "accepted" ELSE wizard
          \/ client' = c /\ Failed /\ UNCHANGED token
  /\ UNCHANGED <<page, ready, starting, provider, work, drive>>

WizardReject ==
  /\ wizard \in {"idle", "waiting"}
  /\ client' = CancelAuthorization(client)
  /\ wizard' = "rejected"
  /\ UNCHANGED <<token, page, ready, starting, provider, work, drive>>

\* Back in the handler of the click: nothing changes but the page when the
\* binding cannot be recorded or the wizard was left.
WizardReturns ==
  /\ Top = "wizard" /\ wizard \in {"accepted", "rejected"}
  /\ wizard' = "closed" /\ stack' = Under
  /\ \/ /\ wizard = "rejected"
        /\ page' = "disconnected"
        /\ UNCHANGED <<client, ready, provider>>
     \/ /\ wizard = "accepted"
        /\ UNCHANGED <<client, page, ready, provider>>
     \/ /\ wizard = "accepted"
        /\ provider' = TRUE
        /\ Lookup(client)
  /\ starting' = FALSE
  /\ UNCHANGED <<token, job, call, drive>>

\* The page's own cancel button, left over by a wizard whose binding failed.
AuthorizeCancelled ==
  /\ Clickable /\ page = "authorizing"
  /\ client' = CancelAuthorization(client)
  /\ page' = "disconnected" /\ ready' = FALSE /\ starting' = FALSE
  /\ UNCHANGED <<token, provider, wizard, work, drive>>

Disconnect ==
  /\ Clickable /\ page \in Authorized \ Retries
  /\ client' = RevokeTokens(CancelAccountLookup(client), token)
  /\ provider' = FALSE
  /\ page' = "disconnected" /\ ready' = FALSE /\ starting' = FALSE
  /\ UNCHANGED <<token, wizard, work, drive>>

\* Whether Google accepts or not, the credentials are forgotten here, unless the
\* disk refuses or a cancelled authorization made the answer stale.
RevokeReturns ==
  /\ "revoke" \in client.replies
  /\ IF Current(client, "revoke")
     THEN /\ client' = [Without(client, "revoke") EXCEPT !.access = "none"]
          /\ Cleared
     ELSE client' = Without(client, "revoke") /\ UNCHANGED token
  /\ UNCHANGED <<screen, work, drive>>

-----------------------------------------------------------------------------
(* The local reset pauses the client, then goes on or forgets the account.  *)

\* Its button is two pages away: the posted lookup has run by then.
ResetConfirms ==
  /\ Clickable /\ ~starting /\ wizard = "closed"
  /\ ~IsBusy(client) /\ job = NoJob
  /\ client' = SetPaused(client, TRUE)
  /\ UNCHANGED <<token, screen, work, drive>>

ResetDeclined ==
  /\ client.paused
  /\ client' = SetPaused(client, FALSE)
  /\ UNCHANGED <<token, screen, work, drive>>

ResetForgets ==
  /\ client.paused
  /\ token' = FALSE
  /\ Started
  /\ UNCHANGED drive

-----------------------------------------------------------------------------
(* GoogleDriveProvider for one synchronisation.                             *)

At(op, step) == [NoJob EXCEPT !.op = op, !.at = step]

\* PerformSync: a failing start without a provider shows nothing.
SyncStarts ==
  /\ job = NoJob /\ provider /\ ~client.paused
  /\ stack' = Append(stack, "sync")
  /\ job' = [At("read", "folder") EXCEPT !.tries = 1]
  /\ page' = IF ready THEN "syncing" ELSE page
  /\ UNCHANGED <<token, client, ready, starting, provider, wizard, call, drive>>

\* SyncFinished
EndsSync(state) ==
  /\ job' = NoJob /\ call' = "none" /\ stack' = Under
  /\ page' = IF ready THEN state ELSE page
  /\ client' = [client EXCEPT !.waiting = FALSE]
  /\ UNCHANGED <<token, ready, starting, provider, wizard, drive>>

\* SendRequestSync asks for a token; EnsureAccessToken refreshes an old one, or
\* waits for the refresh that an account lookup has sent.
RequestBegins ==
  /\ Top = "sync" /\ call = "none"
  /\ IF client.access = "fresh"
     THEN call' = "flying" /\ UNCHANGED <<client, page, ready>>
     ELSE IF client.shared \/ CanRefresh(client, token)
     THEN /\ client' = [IF client.shared THEN client ELSE SendRefresh(client) EXCEPT !.waiting = TRUE]
          /\ call' = "token"
          /\ UNCHANGED <<page, ready>>
     ELSE /\ client' = RefreshFailed(client)
          /\ IF client.pending THEN Finished(IF client.replies = {} THEN "needsAuthorization"
                                             ELSE "connectionError")
                               ELSE UNCHANGED <<page, ready>>
          /\ call' = "refused"
  /\ UNCHANGED <<token, starting, provider, wizard, stack, job, drive>>

\* The wait is over; what is in access_token_ by now is sent.
TokenGranted ==
  /\ Top = "sync" /\ call = "granted"
  /\ client' = [client EXCEPT !.waiting = FALSE]
  /\ call' = IF client.access = "none" THEN "refused" ELSE "flying"
  /\ UNCHANGED <<token, screen, stack, job, drive>>

MutantWaitExpires ==
  /\ Top = "sync" /\ call = "token"
  /\ client' = NextGeneration([client EXCEPT !.waiting = FALSE])
  /\ call' = "refused"
  /\ UNCHANGED <<token, screen, stack, job, drive>>

MutantNeverExpires == FALSE

\* The 30 s are over. A current refresh has been answered by then: its transfer
\* ends after 25 s.
WaitExpires ==
  /\ Top = "sync" /\ call = "token" /\ ~Current(client, "refresh")
  /\ client' = NextGeneration([client EXCEPT !.waiting = FALSE])
  /\ call' = "refused"
  /\ UNCHANGED <<token, screen, stack, job, drive>>

Answered == call' = "arrived" /\ UNCHANGED <<token, client, screen, stack>>

\* The server's part of a request: what it finds is what it has at that moment.
DriveFinds ==
  /\ call = "flying" /\ Answered
  /\ \/ /\ job.at = "folder"
        /\ job' = [job EXCEPT !.at = IF drive.folder THEN "file" ELSE "noFolder"]
     \/ /\ job.at = "file"
        /\ \/ \E f \in File : drive.file[f] > 0 /\ job' = [job EXCEPT !.at = "found", !.file = f]
           \/ (\A f \in File : drive.file[f] = 0) /\ job' = [job EXCEPT !.at = "noFile"]
     \/ /\ job.at \in {"before", "check"}
        /\ job' = [job EXCEPT !.at = IF @ = "check" THEN "checked" ELSE "media",
                              !.before = drive.file[job.file]]
     \/ /\ job.at = "media"
        /\ job' = [job EXCEPT !.at = "after", !.body = drive.file[job.file]]
     \/ /\ job.at = "after"
        /\ job' = [job EXCEPT !.at = "read", !.expect = drive.file[job.file]]
     \/ /\ job.at = "hint"
        /\ job' = [job EXCEPT !.at = "done"]
  /\ UNCHANGED drive

Writes(f) == [drive EXCEPT !.file[f] = drive.writes + 1, !.writes = @ + 1]

\* CreateFolder, UpdateFile and CreateFile; the server may do it and the answer
\* be lost.
DriveWrites ==
  /\ call = "flying" /\ drive.writes < MaxVersion
  /\ \/ job.at = "create" /\ drive' = [drive EXCEPT !.folder = TRUE]
     \/ job.at = "patch" /\ drive' = Writes(job.file)
     \/ job.at = "post" /\ \E f \in File : drive.file[f] = 0 /\ drive' = Writes(f)
  /\ \/ job' = [job EXCEPT !.at = IF @ = "create" THEN "file" ELSE "done"]
     \/ /\ job.at = "patch" /\ job.op = "match"      \* account_hint_ is not known yet
        /\ job' = [job EXCEPT !.at = "hint"]
     \/ job' = [job EXCEPT !.at = "failed"]
  /\ Answered

\* An error, a timeout of the transfer or a malformed answer. FetchAccountHint
\* keeps silent about it.
DriveFails ==
  /\ call = "flying"
  /\ job' = [job EXCEPT !.at = IF @ = "hint" THEN "done" ELSE "failed"]
  /\ Answered /\ UNCHANGED drive

OtherDeviceWrites ==
  /\ drive.writes < MaxVersion
  /\ \E f \in File : /\ drive.file[f] > 0 \/ (drive.folder /\ \A g \in File : drive.file[g] = 0)
                     /\ drive' = Writes(f)
  /\ UNCHANGED <<token, client, screen, work>>

OtherDeviceCreatesFolder ==
  /\ ~drive.folder
  /\ drive' = [drive EXCEPT !.folder = TRUE]
  /\ UNCHANGED <<token, client, screen, work>>

\* The next request of the same call of the provider.
NextRequest(step) ==
  /\ job' = [job EXCEPT !.at = step] /\ call' = "none"
  /\ UNCHANGED <<token, client, screen, stack, drive>>

MutantFinishesRead ==
  \/ job.op = "read" /\ job.at = "read"

\* ReadBackup returns the content it read with the version that held before and
\* after, or fails.
FinishesRead ==
  \/ job.op = "read" /\ job.at = "read" /\ job.before = job.expect

\* DoSyncOnce goes on with what ReadBackup returned and uploads, if there is
\* anything new, through the provider of now; without one the program ends.
ReadReturns ==
  /\ Top = "sync" /\ call = "arrived"
  /\ \/ FinishesRead \/ (job.op = "read" /\ job.at \in {"noFolder", "noFile"})
  /\ \/ /\ provider
        /\ job' = IF job.at = "read" THEN [job EXCEPT !.op = "match", !.at = "folder"]
                  ELSE [At("blind", "folder") EXCEPT !.tries = job.tries]
        /\ call' = "none"
        /\ UNCHANGED <<token, client, screen, stack, drive>>
     \/ job.at = "read" /\ EndsSync("success")
     \/ ~provider /\ Restart

\* The provider's control flow between two requests.
GoesOn ==
  /\ Top = "sync" /\ call = "arrived"
  /\ \/ job.at = "found" /\ NextRequest(CASE job.op = "read" -> "before"
                                          [] job.op = "match" -> "check"
                                          [] job.op = "blind" -> "patch")
     \/ job.op = "blind" /\ job.at = "noFolder" /\ NextRequest("create")
     \/ job.op = "blind" /\ job.at = "noFile" /\ NextRequest("post")
     \/ job.at \in {"file", "media", "after", "hint"} /\ NextRequest(job.at)
     \/ job.at = "checked" /\ job.before = job.expect /\ NextRequest("patch")

\* kVersionMismatch starts over, up to max_retries times.
VersionMismatch ==
  /\ Top = "sync" /\ call = "arrived" /\ job.op = "match"
  /\ job.at \in {"noFolder", "noFile"} \/ (job.at = "checked" /\ job.before # job.expect)
  /\ IF job.tries = MaxTries THEN EndsSync("conflict")
     ELSE IF ~provider THEN EndsSync("error")
     ELSE /\ job' = [At("read", "folder") EXCEPT !.tries = job.tries + 1]
          /\ call' = "none"
          /\ UNCHANGED <<token, client, screen, stack, drive>>

\* The account's address is for display only: a failure to get it is no failure.
SyncSucceeds ==
  /\ Top = "sync"
  /\ \/ call = "arrived" /\ job.at = "done"
     \/ call = "refused" /\ job.at = "hint"
  /\ EndsSync("success")

\* No token, a failed request, or a backup that changed while it was read.
SyncFails ==
  /\ Top = "sync"
  /\ \/ call = "refused" /\ job.at # "hint"
     \/ call = "arrived" /\ job.at = "failed"
     \/ call = "arrived" /\ job.at = "read" /\ ~FinishesRead
  /\ EndsSync("error")

-----------------------------------------------------------------------------
SyncSteps ==
  \/ RequestBegins \/ TokenGranted \/ WaitExpires
  \/ DriveFinds \/ DriveWrites \/ DriveFails
  \/ GoesOn \/ ReadReturns \/ VersionMismatch \/ SyncSucceeds \/ SyncFails

Next ==
  \/ LookupRuns \/ RetryAccount \/ EmailReturns \/ RefreshReturns \/ AccessExpires
  \/ ConnectClick \/ WizardStart \/ CallbackReceived \/ ExchangeReturns
  \/ WizardReject \/ WizardReturns \/ AuthorizeCancelled \/ Disconnect \/ RevokeReturns
  \/ ResetConfirms \/ ResetDeclined \/ ResetForgets
  \/ SyncStarts \/ SyncSteps \/ OtherDeviceWrites \/ OtherDeviceCreatesFolder
  \/ Restart

\* Transfers end by their timeouts and timers fire; the user owes nothing.
Spec == Init /\ [][Next]_vars /\ WF_vars(SyncSteps) /\ WF_vars(RefreshReturns)

-----------------------------------------------------------------------------
TypeOK ==
  /\ token \in BOOLEAN /\ client \in Client
  /\ page \in Pages
  /\ ready \in BOOLEAN /\ starting \in BOOLEAN /\ provider \in BOOLEAN
  /\ wizard \in {"closed", "idle", "waiting", "accepted", "rejected"}
  /\ stack \in {<<>>, <<"sync">>, <<"wizard">>, <<"sync", "wizard">>, <<"wizard", "sync">>}
  /\ job.tries \in 0..MaxTries
  /\ client.stale \subseteq client.replies
  /\ client.waiting => call # "none"
  /\ call \in {"none", "token", "granted", "refused", "flying", "arrived"}

\* Credentials come back to the disk only by a wizard the user has not left:
\* no answer of a cancelled authorization, of a refresh or of a lookup stores a
\* token again after it was revoked or forgotten.
TokenOnlyByConsent ==
  [][~token /\ token' => wizard = "waiting" /\ wizard' = "accepted"]_vars

\* The page shows an account as connected only while synchronisations go to it:
\* an answer or a run that was under way when the user disconnected or began to
\* connect again does not bring the old state back.
PageShowsConnection ==
  page \in {"connected", "syncing", "success", "conflict", "error"} => ready /\ provider

\* The page never waits for something that is not coming, and the callback of an
\* authorization that is still wanted is never refused as an old one.
PageNeverStuck ==
  /\ page = "connecting" =>
       starting \/ (client.pending /\ (Current(client, "refresh") \/ "email" \in client.replies))
  /\ page = "syncing" => job # NoJob
  /\ client.authorizing => client.server = "live"

\* The version an upload will check is that of the content the merge has used,
\* although they come from different requests.
MergesWhatItChecks == job.op = "match" => job.body = job.expect

\* A synchronisation ends, whatever happens to the token it waits for, unless
\* the user leaves the wizard open on top of it.
SyncEnds == job # NoJob ~> job = NoJob \/ Top = "wizard"
=============================================================================
