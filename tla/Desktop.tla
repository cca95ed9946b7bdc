------------------------------- MODULE Desktop -------------------------------
(***************************************************************************)
(* One process of the program from its start to its end: Application        *)
(* (src/app/application.cc) wiring the session, the auto-lock timer, the    *)
(* sync scheduler, the main window, the clipboard, the change of the master *)
(* password and the local reset.                                            *)
(*                                                                         *)
(* Everything runs on one thread, yet nothing is atomic: a dialog and a     *)
(* network request each run an event loop of their own, in which timers     *)
(* fire, the window handles clicks and further loops are entered. `stack`   *)
(* is the stack of those loops. Only the topmost can return; the code below *)
(* it goes on later with whatever it read before.                           *)
(*                                                                         *)
(* A session key is an object: who holds a pointer to it holds "live" until *)
(* the key is destroyed and "freed" from then on.                           *)
(***************************************************************************)
EXTENDS LocalReset, FiniteSets

NoApp == "none"

VARIABLES
  app,      \* the installation whose process runs
  stack,    \* the event loops it is in, the innermost last
  session,  \* SessionManager
  flow,     \* Application's flags
  sched,    \* SyncScheduler and the provider it synchronises with
  held,     \* the session key DoSyncOnce read before its request
  window,   \* MainWindow
  account,  \* GoogleOAuthClient: paused?, the account lookup, the revocation
  armed,    \* the auto-lock timer runs
  clip,     \* a secret of ours is on the clipboard, and its timer runs
  erasing,  \* next step of LocalReset::Resume, 0 when it does not run
  owed      \* an edit was made that no synchronisation has taken up (history)

process == <<app, stack, session, flow, sched, held, window, account, armed, clip, erasing, owed>>
vars == <<durable, process>>

Locked == [open |-> FALSE, changing |-> FALSE, lockReq |-> FALSE]
NoFlow == [migration |-> FALSE, confirming |-> FALSE, resetting |-> FALSE, exit |-> FALSE, posted |-> FALSE]
IdleScheduler == [paused |-> FALSE, dirty |-> FALSE, timer |-> FALSE, provider |-> FALSE]
NoAccount == [paused |-> FALSE, lookup |-> "none", revoking |-> FALSE]
NoWindow == [state |-> "none", enabled |-> TRUE, key |-> "none"]

\* The process ends; the operating system releases instance.lock.
Ended ==
  /\ app' = NoApp /\ stack' = <<>> /\ session' = Locked /\ flow' = NoFlow
  /\ sched' = IdleScheduler /\ held' = "none" /\ window' = NoWindow
  /\ account' = NoAccount
  /\ armed' = FALSE /\ clip' = FALSE /\ erasing' = 0 /\ owed' = FALSE

Init ==
  /\ ResetInit
  /\ app = NoApp /\ stack = <<>> /\ session = Locked /\ flow = NoFlow
  /\ sched = IdleScheduler /\ held = "none" /\ window = NoWindow
  /\ account = NoAccount
  /\ armed = FALSE /\ clip = FALSE /\ erasing = 0 /\ owed = FALSE

-----------------------------------------------------------------------------
(* Frames.                                                                  *)

Syncing == {"read", "upload"}
Frame == Syncing \cup {"setup", "binding", "unlock", "recover", "import", "wizard", "granted",
                       "changeDialog", "changing", "password", "confirm", "retry"}

Running == app # NoApp
Top == IF stack = <<>> THEN "main" ELSE stack[Len(stack)]
Under == SubSeq(stack, 1, Len(stack) - 1)
Entered(f) == Append(stack, f)
InStack(S) == \E k \in DOMAIN stack : stack[k] \in S
Busy == InStack(Syncing)             \* SyncManager::is_busy
Modal == InStack(Frame \ Syncing)    \* a dialog takes the window's input
OAuthBusy == InStack({"wizard"}) \/ account.lookup = "flying" \/ account.revoking
InFlow == flow.confirming \/ flow.resetting \/ flow.migration
Clickable == Running /\ window.state = "shown" /\ window.enabled /\ ~Modal

Freed(k) == IF k = "live" THEN "freed" ELSE k

-----------------------------------------------------------------------------
(* SyncScheduler.                                                           *)

Dirtied(s) == IF s.paused THEN [s EXCEPT !.dirty = TRUE]
              ELSE IF ~s.provider THEN s
              ELSE [s EXCEPT !.dirty = TRUE, !.timer = TRUE]

MutantPaused(s, p) ==
  IF p THEN [s EXCEPT !.paused = TRUE, !.dirty = s.dirty \/ s.timer, !.timer = FALSE]
  ELSE [s EXCEPT !.paused = FALSE]

\* SetPaused
Paused(s, p) ==
  IF p THEN [s EXCEPT !.paused = TRUE, !.dirty = s.dirty \/ s.timer, !.timer = FALSE]
  ELSE IF s.dirty THEN Dirtied([s EXCEPT !.paused = FALSE, !.dirty = FALSE])
  ELSE [s EXCEPT !.paused = FALSE]

\* PerformSync up to its first request; without a provider or a session it
\* fails at once, and the sync button shows it.
StartSync ==
  /\ sched' = [sched EXCEPT !.dirty = FALSE, !.timer = FALSE]
  /\ owed' = FALSE
  /\ IF sched.provider /\ session.open
     THEN stack' = Entered("read") /\ held' = "live"
     ELSE UNCHANGED <<stack, held>>

OnTimeout ==
  /\ Running /\ sched.timer
  /\ IF Busy THEN sched' = Dirtied([sched EXCEPT !.timer = FALSE]) /\ UNCHANGED <<stack, held, owed>>
             ELSE StartSync
  /\ UNCHANGED <<durable, app, session, flow, window, account, armed, clip, erasing>>

SyncImmediately ==
  /\ Clickable /\ ~sched.paused /\ window.key # "none"
  /\ IF Busy THEN sched' = Dirtied([sched EXCEPT !.timer = FALSE]) /\ UNCHANGED <<stack, held, owed>>
             ELSE StartSync
  /\ UNCHANGED <<durable, app, session, flow, window, account, armed, clip, erasing>>

\* The backup is read: what was read is merged and written with the key of the
\* start; the upload goes through the provider of now. A key freed meanwhile is
\* read nevertheless: the program may crash, fail to decrypt, or go on.
ReadReturns ==
  /\ Running /\ Top = "read"
  /\ \/ /\ sched.provider
        /\ stack' = Append(Under, "upload")
        /\ UNCHANGED held
     \/ /\ stack' = Under   \* a failure, or nothing to upload
        /\ held' = "none"
  /\ UNCHANGED <<durable, app, session, flow, sched, window, account, armed, clip, erasing, owed>>

ReadReturnsDangling ==
  /\ Running /\ Top = "read"
  /\ held = "freed" \/ ~sched.provider
  /\ Ended
  /\ UNCHANGED durable

\* Success, an error, or a version mismatch: a retry reads the session again.
UploadReturns ==
  /\ Running /\ Top = "upload"
  /\ \/ stack' = Under /\ held' = "none"
     \/ /\ sched.provider /\ session.open
        /\ stack' = Append(Under, "read")
        /\ held' = "live"
  /\ UNCHANGED <<durable, app, session, flow, sched, window, account, armed, clip, erasing, owed>>

-----------------------------------------------------------------------------
(* Locking.                                                                 *)

\* OnLocked, as far as it goes at once: in a flow its prompt waits for the
\* flow's end, otherwise UnlockVault begins, with the recovery of a password
\* change when there is one to finish.
Prompt(unfinished) == IF unfinished THEN "recover" ELSE "unlock"

WindowLocked == [window EXCEPT !.key = "none",
                               !.state = IF @ = "none" THEN @ ELSE "hidden"]

MutantLocks(f, s, unfinished) ==
  /\ session' = Locked
  /\ held' = Freed(held)
  /\ armed' = FALSE
  /\ window' = WindowLocked
  /\ stack' = IF f.confirming \/ f.resetting \/ f.migration THEN s ELSE Append(s, Prompt(unfinished))
  /\ UNCHANGED clip

\* Lock of an open session while the flags are f and the loops s; is a change of
\* the password unfinished?
Locks(f, s, unfinished) ==
  /\ session' = Locked
  /\ held' = Freed(held)
  /\ armed' = FALSE
  /\ clip' = FALSE
  /\ window' = WindowLocked
  /\ stack' = IF f.confirming \/ f.resetting \/ f.migration THEN s ELSE Append(s, Prompt(unfinished))

\* SessionManager::Lock while a password change runs.
DefersLock ==
  /\ session.changing
  /\ session' = [session EXCEPT !.lockReq = TRUE]
  /\ UNCHANGED <<held, clip, window, stack>>

\* SessionManager::Lock: by the auto-lock timer, or by a key or the minimise
\* button of a window no dialog covers.
Lock ==
  /\ Running /\ session.open
  /\ armed \/ (window.state = "shown" /\ ~Modal) \/ Top = "changing"
  /\ \/ DefersLock /\ armed' \in {FALSE, armed}
     \/ ~session.changing /\ Locks(flow, stack, pending)
  /\ UNCHANGED <<durable, app, flow, sched, account, erasing, owed>>

MutantUnlocked ==
  /\ session' = [session EXCEPT !.open = TRUE]
  /\ window' = [state |-> "shown", enabled |-> window.enabled, key |-> "live"]
  /\ armed' = TRUE
  /\ stack' = Under
  /\ IF window.state = "none"
     THEN /\ sched' = [IdleScheduler EXCEPT !.provider = Exists("token")]
          /\ account' = [NoAccount EXCEPT !.lookup = IF Exists("token") THEN "posted" ELSE "none"]
     ELSE UNCHANGED <<sched, account>>
  /\ UNCHANGED <<app, flow, held, clip, erasing, owed>>

\* What UnlockVault's caller does with an open session: ShowMainWindow at the
\* start, the end of OnLocked later.
Unlocked ==
  /\ session' = [session EXCEPT !.open = TRUE]
  /\ window' = [state |-> "shown", enabled |-> TRUE, key |-> "live"]
  /\ armed' = TRUE
  /\ stack' = Under
  /\ IF window.state = "none"
     THEN /\ sched' = [IdleScheduler EXCEPT !.provider = Exists("token")]
          /\ account' = [NoAccount EXCEPT !.lookup = IF Exists("token") THEN "posted" ELSE "none"]
     ELSE /\ sched' = Paused(sched, FALSE)
          /\ UNCHANGED account
  /\ UNCHANGED <<app, flow, held, clip, erasing, owed>>

\* VerifyLocal accepts the password; a wrong one only asks again.
UnlockAccepted == Running /\ Top = "unlock" /\ Unlocked /\ UNCHANGED durable

\* Closing the prompt quits, as does the first start's failure to save.
PromptClosed == Running /\ Top \in {"unlock", "recover", "setup", "binding"} /\ Ended /\ UNCHANGED durable

\* UnlockAfterPasswordRecovery: Recover until it succeeds, perhaps after a new
\* login to the cloud.
Recovered ==
  /\ Running /\ Top = "recover"
  /\ \/ pending' = FALSE /\ files' = Wrote({"master", "migration"}) /\ stack' = Append(Under, "unlock")
     \/ files' = Wrote({"token"}) /\ UNCHANGED <<pending, stack>>
  /\ UNCHANGED <<marker, era, app, session, flow, sched, held, window, account, armed, clip, erasing, owed>>

-----------------------------------------------------------------------------
(* The start.                                                               *)

\* InitializeRuntime up to its first dialog; it refuses to go on when the
\* binding of a vault with a token cannot be recorded.
Initializes(i) ==
  /\ app' = i
  /\ flow' = NoFlow
  /\ erasing' = 0
  /\ stack' = <<IF ~Exists("master") THEN "setup" ELSE Prompt(pending)>>
  /\ files' = Wrote({"db"} \cup IF Exists("master") /\ Exists("token") THEN {"binding"} ELSE {})
  /\ UNCHANGED <<marker, era, pending, session, sched, held, window, account, armed, clip, owed>>

Start(i) == ~Running /\ Inspect(i) = "absent" /\ Initializes(i)

\* A reset that a crash cut short goes on before anything else is opened; any
\* other installation refuses to start.
StartResumes(i) ==
  /\ ~Running /\ Inspect(i) = "owned"
  /\ app' = i
  /\ flow' = [NoFlow EXCEPT !.resetting = TRUE]
  /\ erasing' = 1
  /\ UNCHANGED <<durable, stack, session, sched, held, window, account, armed, clip, owed>>

\* SetInitial writes the record; then the binding is recorded before the vault opens.
SetupAccepted ==
  /\ Running /\ Top = "setup"
  /\ files' = Wrote({"master"})
  /\ stack' = Append(Under, "binding")
  /\ UNCHANGED <<marker, era, pending, app, session, flow, sched, held, window, account, armed, clip, erasing, owed>>

BindingSaved ==
  /\ Running /\ Top = "binding"
  /\ files' = Wrote({"binding"})
  /\ Unlocked
  /\ UNCHANGED <<marker, era, pending>>

\* The process may die at any moment, also between two writes of the change.
Crash ==
  /\ Running
  /\ Ended
  /\ IF Top = "changing" THEN pending' \in BOOLEAN ELSE UNCHANGED pending
  /\ files' = IF pending' THEN Wrote({"migration"}) ELSE files
  /\ UNCHANGED <<marker, era>>

-----------------------------------------------------------------------------
(* The window's work.                                                       *)

\* Any change of the vault by the window ends in MarkDirty.
Edit ==
  /\ Clickable /\ window.key = "live"
  /\ sched' = Dirtied(sched)
  /\ owed' = (owed \/ sched.provider)
  /\ UNCHANGED <<durable, app, stack, session, flow, held, window, account, armed, clip, erasing>>

\* CopySensitive, the timer's OnTimeout (which clears the text or finds another
\* program's), and CopyPlain.
CopySecret ==
  /\ Clickable /\ window.key = "live"
  /\ clip' = TRUE
  /\ UNCHANGED <<durable, app, stack, session, flow, sched, held, window, account, armed, erasing, owed>>

ClipboardTimeout ==
  /\ Running /\ clip
  /\ clip' = FALSE
  /\ UNCHANGED <<durable, app, stack, session, flow, sched, held, window, account, armed, erasing, owed>>

ChangeSettings ==
  /\ Clickable
  /\ files' = Wrote({"settings"})
  /\ UNCHANGED <<marker, era, pending, process>>

\* ImportCsv: dialogs, then the import with the key of then.
ImportClick ==
  /\ Clickable /\ ~InFlow
  /\ stack' = Entered("import")
  /\ UNCHANGED <<durable, app, session, flow, sched, held, window, account, armed, clip, erasing, owed>>

ImportReturns ==
  /\ Running /\ Top = "import"
  /\ stack' = Under
  /\ \/ UNCHANGED <<sched, owed>>
     \/ /\ ~InFlow /\ session.open
        /\ sched' = Dirtied(sched)
        /\ owed' = (owed \/ sched.provider)
  /\ UNCHANGED <<durable, app, session, flow, held, window, account, armed, clip, erasing>>

-----------------------------------------------------------------------------
(* The Google account, as far as the rest of the process feels it.          *)

\* LookupGoogleAccount, posted by ShowMainWindow.
LookupRuns ==
  /\ Running /\ account.lookup = "posted"
  /\ account' = [account EXCEPT !.lookup = IF InFlow \/ ~Exists("token") THEN "none" ELSE "flying"]
  /\ UNCHANGED <<durable, app, stack, session, flow, sched, held, window, armed, clip, erasing, owed>>

LookupReturns ==
  /\ Running /\ account.lookup = "flying"
  /\ account' = [account EXCEPT !.lookup = "none"]
  /\ UNCHANGED <<durable, app, stack, session, flow, sched, held, window, armed, clip, erasing, owed>>

ConnectClick ==
  /\ Clickable /\ ~InFlow
  /\ account' = [account EXCEPT !.lookup = "none"]
  /\ stack' = Entered("wizard")
  /\ UNCHANGED <<durable, app, session, flow, sched, held, window, armed, clip, erasing, owed>>

\* The code is exchanged, in whatever loop runs by then; not while the answer
\* to a revocation is still awaited.
WizardSucceeds ==
  /\ Running /\ ~account.revoking
  /\ \E k \in DOMAIN stack : stack[k] = "wizard" /\ stack' = [stack EXCEPT ![k] = "granted"]
  /\ files' = Wrote({"token"})
  /\ UNCHANGED <<marker, era, pending, app, session, flow, sched, held, window, account, armed, clip, erasing, owed>>

\* Without a recorded binding nothing is synchronised with the new account.
WizardReturns ==
  /\ Running /\ Top \in {"wizard", "granted"}
  /\ stack' = Under
  /\ \/ /\ Top = "granted"
        /\ files' = Wrote({"binding"})
        /\ sched' = [sched EXCEPT !.provider = TRUE]
        /\ account' = [account EXCEPT !.lookup = "flying"]
     \/ UNCHANGED <<files, sched, account>>
  /\ UNCHANGED <<marker, era, pending, app, session, flow, held, window, armed, clip, erasing, owed>>

\* The revocation is not even sent when a request of a synchronisation keeps
\* the client busy; the provider goes in any case.
Disconnect ==
  /\ Clickable /\ ~InFlow
  /\ sched' = [sched EXCEPT !.provider = FALSE]
  /\ owed' = FALSE
  /\ \E sent \in {Exists("token")} \cup (IF Busy THEN {FALSE} ELSE {}) :
       account' = [account EXCEPT !.lookup = "none", !.revoking = @ \/ sent]
  /\ UNCHANGED <<durable, app, stack, session, flow, held, window, armed, clip, erasing>>

\* The token goes when the answer comes, unless an authorisation that was
\* cancelled meanwhile made it stale.
RevokeReturns ==
  /\ Running /\ account.revoking
  /\ account' = [account EXCEPT !.revoking = FALSE]
  /\ files' \in {files, [files EXCEPT !["token"] = 0]}
  /\ UNCHANGED <<marker, era, pending, app, stack, session, flow, sched, held, window, armed, clip, erasing, owed>>

-----------------------------------------------------------------------------
(* The change of the master password; PasswordChange has what happens in    *)
(* the frame "changing".                                                    *)

ChangeMasterPassword ==
  /\ Clickable /\ ~InFlow /\ ~Busy /\ session.open
  /\ session' = [session EXCEPT !.changing = TRUE, !.lockReq = FALSE]
  /\ flow' = [flow EXCEPT !.migration = TRUE, !.exit = FALSE]
  /\ sched' = Paused(sched, TRUE)
  /\ window' = [window EXCEPT !.enabled = FALSE, !.key = "none"]
  /\ clip' = FALSE
  /\ stack' = Entered("changeDialog")
  /\ UNCHANGED <<durable, app, held, account, armed, erasing, owed>>

MutantEndsChange(mustLock) ==
  IF flow.exit THEN Ended
  ELSE /\ flow' = [flow EXCEPT !.migration = FALSE]
       /\ session' = [session EXCEPT !.changing = FALSE]
       /\ window' = [window EXCEPT !.enabled = TRUE, !.key = "live"]
       /\ sched' = Paused(sched, FALSE)
       /\ stack' = Under
       /\ UNCHANGED <<app, held, account, armed, clip, erasing, owed>>

\* The end of ChangeMasterPassword: EndPasswordChange locks while
\* migration_active_ still silences OnLocked, which is then called directly.
EndsChange(mustLock) ==
  IF flow.exit THEN Ended
  ELSE /\ flow' = [flow EXCEPT !.migration = FALSE]
       /\ IF mustLock \/ session.lockReq
          THEN /\ Locks(NoFlow, Under, pending')
               /\ UNCHANGED sched
          ELSE /\ session' = [session EXCEPT !.changing = FALSE]
               /\ window' = [window EXCEPT !.enabled = TRUE, !.key = "live"]
               /\ sched' = Paused(sched, FALSE)
               /\ stack' = Under
               /\ UNCHANGED <<held, armed, clip>>
       /\ UNCHANGED <<app, account, erasing, owed>>

\* The dialog accepted, ConfirmBinding satisfied.
ChangeBegins ==
  /\ Running /\ Top = "changeDialog" /\ ~session.lockReq /\ ~flow.exit
  /\ files' = IF Exists("binding") THEN files ELSE Wrote({"binding"})
  /\ stack' = Append(Under, "changing")
  /\ UNCHANGED <<marker, era, pending, app, session, flow, sched, held, window, account, armed, clip, erasing, owed>>

ChangeDeclined ==
  /\ Running /\ Top = "changeDialog"
  /\ UNCHANGED durable
  /\ EndsChange(FALSE)

\* Completed, unchanged, or kLocked with the journal perhaps still to recover.
ChangeReturns ==
  /\ Running /\ Top = "changing"
  /\ \/ files' = Wrote({"master", "migration"}) /\ pending' = FALSE /\ EndsChange(FALSE)
     \/ UNCHANGED <<files, pending>> /\ EndsChange(FALSE)
     \/ files' = Wrote({"migration"}) /\ pending' \in BOOLEAN /\ EndsChange(TRUE)
  /\ UNCHANGED <<marker, era>>

\* closeEvent: in a flow it only asks for the exit, and locks.
CloseWindow ==
  /\ Running /\ window.state = "shown"
  /\ IF InFlow
     THEN /\ flow' = [flow EXCEPT !.exit = TRUE]
          /\ \/ session.open /\ DefersLock /\ UNCHANGED armed
             \/ session.open /\ ~session.changing /\ Locks(flow, stack, pending)
          /\ UNCHANGED <<app, sched, account, erasing, owed>>
     ELSE ~Modal /\ Ended
  /\ UNCHANGED durable

-----------------------------------------------------------------------------
(* The local reset.                                                         *)

\* ResetEligibility, without the journal's part, which Eligible adds.
Quiet == session.open /\ ~flow.migration /\ ~session.changing /\ ~Busy /\ ~OAuthBusy

RequestLocalReset ==
  /\ Clickable /\ ~flow.confirming /\ ~flow.resetting
  /\ Eligible(app, Quiet)
  /\ era < MaxVault
  /\ flow' = [flow EXCEPT !.confirming = TRUE, !.exit = FALSE]
  /\ sched' = Paused(sched, TRUE)
  /\ account' = [account EXCEPT !.paused = TRUE]
  /\ window' = [window EXCEPT !.enabled = FALSE]
  /\ stack' = Entered("password")
  /\ UNCHANGED <<durable, app, session, held, armed, clip, erasing, owed>>

PasswordEntered ==
  /\ Running /\ Top = "password" /\ ~flow.exit /\ session.open
  /\ stack' = Append(Under, "confirm")
  /\ UNCHANGED <<durable, app, session, flow, sched, held, window, account, armed, clip, erasing, owed>>

MutantResetBegins ==
  /\ Running /\ Top = "confirm" /\ ~flow.exit
  /\ Begin(app)
  /\ flow' = [flow EXCEPT !.confirming = FALSE, !.resetting = TRUE, !.posted = TRUE]
  /\ stack' = Under
  /\ UNCHANGED <<app, session, sched, held, window, account, armed, clip, erasing, owed>>

\* Yes, the password verified and everything as quiet as before: the marker is
\* written and the rest posted to the event loop.
ResetBegins ==
  /\ Running /\ Top = "confirm" /\ ~flow.exit
  /\ Eligible(app, Quiet)
  /\ Begin(app)
  /\ flow' = [flow EXCEPT !.confirming = FALSE, !.resetting = TRUE, !.posted = TRUE]
  /\ stack' = Under
  /\ UNCHANGED <<app, session, sched, held, window, account, armed, clip, erasing, owed>>

MutantResetNotStarted ==
  /\ Running /\ Top \in {"password", "confirm"}
  /\ IF flow.exit THEN Ended
     ELSE /\ flow' = [flow EXCEPT !.confirming = FALSE]
          /\ account' = [account EXCEPT !.paused = FALSE]
          /\ window' = [window EXCEPT !.enabled = TRUE]
          /\ sched' = Paused(sched, FALSE)
          /\ stack' = Under
          /\ UNCHANGED <<app, session, held, armed, clip, erasing, owed>>
  /\ UNCHANGED durable

\* Declined, a wrong password, no longer eligible or no marker written: what
\* was locked or asked to close meanwhile is caught up with.
ResetNotStarted ==
  /\ Running /\ Top \in {"password", "confirm"}
  /\ IF flow.exit THEN Ended
     ELSE /\ flow' = [flow EXCEPT !.confirming = FALSE]
          /\ account' = [account EXCEPT !.paused = FALSE]
          /\ window' = [window EXCEPT !.enabled = TRUE]
          /\ IF session.open THEN stack' = Under /\ sched' = Paused(sched, FALSE)
             ELSE stack' = Append(Under, Prompt(pending)) /\ UNCHANGED sched
          /\ UNCHANGED <<app, session, held, armed, clip, erasing, owed>>
  /\ UNCHANGED durable

MutantReleased ==
  /\ sched' = IdleScheduler /\ held' = "none"
  /\ account' = NoAccount
  /\ armed' = FALSE /\ clip' = FALSE /\ owed' = FALSE
  /\ UNCHANGED <<session, window>>

\* What ReleaseRuntime leaves of the process.
Released ==
  /\ session' = Locked /\ sched' = IdleScheduler /\ held' = "none"
  /\ window' = NoWindow /\ account' = NoAccount
  /\ armed' = FALSE /\ clip' = FALSE /\ owed' = FALSE

\* ReleaseRuntime, the first of Resume's steps: the credentials or the
\* database may refuse to go.
ReleaseRuntime ==
  /\ Running /\ flow.posted /\ stack = <<>>
  /\ Released
  /\ flow' = [flow EXCEPT !.posted = FALSE]
  /\ \/ files' = [files EXCEPT !["token"] = 0] /\ erasing' = 1 /\ UNCHANGED stack
     \/ files' \in {files, [files EXCEPT !["token"] = 0]} /\ stack' = Entered("retry") /\ UNCHANGED erasing
  /\ UNCHANGED <<marker, era, pending, app>>

MutantErase ==
  /\ Running /\ erasing # 0
  /\ \/ erasing <= Len(Deleted) /\ RemoveFile(erasing)
     \/ erasing > Len(Deleted) /\ RemoveMarker
  /\ erasing' = erasing + 1
  /\ UNCHANGED <<app, stack, session, flow, sched, held, window, account, armed, clip, owed>>

\* Resume: the files one by one, the settings, and the marker last.
Erase ==
  /\ Running /\ erasing # 0
  /\ \/ erasing <= Len(Deleted) /\ RemoveFile(erasing)
     \/ erasing = Len(Deleted) + 1 /\ RemoveMarker
  /\ erasing' = erasing + 1
  /\ UNCHANGED <<app, stack, session, flow, sched, held, window, account, armed, clip, owed>>

EraseFails ==
  /\ Running /\ erasing \in 1..Len(Deleted) + 1
  /\ erasing' = 0
  /\ stack' = Entered("retry")
  /\ UNCHANGED <<durable, app, session, flow, sched, held, window, account, armed, clip, owed>>

RetryReset ==
  /\ Running /\ Top = "retry"
  /\ \/ erasing' = 1 /\ stack' = Under
        /\ UNCHANGED <<app, session, flow, sched, held, window, account, armed, clip, owed>>
     \/ Ended
  /\ UNCHANGED durable

\* The cleared program begins again as a first start, in the same process.
ResetReturns ==
  /\ Running /\ erasing = Len(Deleted) + 2
  /\ Initializes(app)

-----------------------------------------------------------------------------
Next ==
  \/ \E i \in Installation : Start(i) \/ StartResumes(i)
  \/ SetupAccepted \/ BindingSaved \/ UnlockAccepted \/ Recovered \/ PromptClosed \/ Crash
  \/ OnTimeout \/ SyncImmediately \/ ReadReturns \/ ReadReturnsDangling \/ UploadReturns
  \/ Lock \/ CloseWindow \/ Edit \/ CopySecret \/ ClipboardTimeout \/ ChangeSettings
  \/ ImportClick \/ ImportReturns
  \/ LookupRuns \/ LookupReturns \/ ConnectClick \/ WizardSucceeds \/ WizardReturns
  \/ Disconnect \/ RevokeReturns
  \/ ChangeMasterPassword \/ ChangeBegins \/ ChangeDeclined \/ ChangeReturns
  \/ RequestLocalReset \/ PasswordEntered \/ ResetBegins \/ ResetNotStarted
  \/ ReleaseRuntime \/ Erase \/ EraseFails \/ RetryReset \/ ResetReturns

\* The requests of a password change end, each by its answer or its timeout.
Spec == Init /\ [][Next]_vars /\ WF_vars(ChangeReturns)

-----------------------------------------------------------------------------
TypeOK ==
  /\ ResetTypeOK
  /\ app \in Installation \cup {NoApp}
  /\ stack \in Seq(Frame)
  /\ session \in [open : BOOLEAN, changing : BOOLEAN, lockReq : BOOLEAN]
  /\ flow \in [migration : BOOLEAN, confirming : BOOLEAN, resetting : BOOLEAN,
               exit : BOOLEAN, posted : BOOLEAN]
  /\ sched \in [paused : BOOLEAN, dirty : BOOLEAN, timer : BOOLEAN, provider : BOOLEAN]
  /\ held \in {"none", "live", "freed"}
  /\ window \in [state : {"none", "shown", "hidden"}, enabled : BOOLEAN, key : {"none", "live"}]
  /\ account \in [paused : BOOLEAN, lookup : {"none", "posted", "flying"}, revoking : BOOLEAN]
  /\ {armed, clip, owed} \subseteq BOOLEAN
  /\ erasing \in 0..Len(Deleted) + 2

\* Without a marker every file belongs to the current vault, whatever crash,
\* failure or second installation came between two deletions.
OneVault == marker = "absent" => \A f \in File : files[f] \in {0, era}

\* Files are erased only when no session, window, request or unfinished change
\* of the password is left that could write them again, and a program that
\* found or wrote the marker opens nothing.
ErasesAlone ==
  /\ marker # "absent" => ~pending /\ (flow.resetting \/ ~Running)
  /\ erasing # 0 => ~session.open /\ window = NoWindow /\ ~Busy /\ ~OAuthBusy

\* A program that is open, and in no dialog or flow, can be used: nothing that
\* a flow paused or disabled stays so, however the flow ended.
Usable ==
  session.open /\ ~Modal /\ ~InFlow =>
    /\ ~sched.paused /\ ~account.paused /\ armed
    /\ window = [state |-> "shown", enabled |-> TRUE, key |-> "live"]

\* A program that is locked asks for the password; a lock during a flow is not
\* forgotten at the flow's end.
LockedAsks ==
  Running /\ ~session.open /\ ~InFlow => InStack({"setup", "binding", "unlock", "recover"})

\* A locked program shows nothing and leaves no secret behind.
LockedIsSealed ==
  ~session.open => window.state # "shown" /\ window.key = "none" /\ ~clip /\ ~armed

\* An edit no synchronisation has taken up is remembered by the timer or, while
\* the scheduler is paused, by its flag.
EditRemembered == owed => sched.timer \/ (sched.paused /\ sched.dirty)

\* A lock that was asked for while the password is changed comes at its end.
LockHonoured == session.lockReq /\ Top = "changing" ~> ~session.open

Lifetime == INSTANCE VaultLifetime WITH
  made <- IF marker = "absent" /\ ~Exists("master") THEN era - 1 ELSE era,
  held <- IF marker = "absent" THEN files["master"] ELSE 0,
  open <- IF marker = "absent" /\ session.open THEN files["master"] ELSE 0

\* The program keeps what VaultLifetime promises: a reset clears the open vault
\* in one step, the writing of the marker, and no later session opens it.
ImplementsVaultLifetime == Lifetime!Spec
=============================================================================
