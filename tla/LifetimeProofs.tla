--------------------------- MODULE LifetimeProofs ---------------------------
(***************************************************************************)
(* For any number of installations and of vaults: the process, with its     *)
(* loops, crashes and file-by-file reset, implements VaultLifetime.         *)
(*                                                                         *)
(* Beyond DesktopProofs the refinement needs to know when the master record *)
(* exists (Fresh): always, but at the first start's dialog, while files are *)
(* erased, or when no process runs; and that a record is erased only under  *)
(* the marker, when the abstract vault is gone already.                     *)
(***************************************************************************)
EXTENDS DesktopProofs

Session == [open : BOOLEAN, changing : BOOLEAN, lockReq : BOOLEAN]

Fresh ==
  /\ app \in Installation \cup {NoApp}
  /\ session \in Session
  /\ era # 0
  /\ flow.posted \/ InStack({"retry"}) \/ erasing \in 1..Len(Deleted) + 1 => marker # "absent"
  /\ InStack({"setup"}) => /\ stack = <<"setup">> /\ ~session.open /\ window = NoWindow
                           /\ account = NoAccount /\ sched = IdleScheduler /\ ~flow.posted
  /\ Running /\ erasing = 0 /\ ~InStack({"setup", "retry"}) => Exists("master")

Abstract == [Lifetime!Next]_(Lifetime!vars)

\* What a step has to show: the invariant, and a step of VaultLifetime or none.
Lives == Fresh' /\ Abstract

-----------------------------------------------------------------------------
(* The stack and the record.                                                *)

\* Loops other than the first start's and the retry of a reset.
Plain(s) == \A k \in DOMAIN s : s[k] \notin {"setup", "retry"}

LEMMA PlainStacks ==
  ASSUME stack \in Seq(Frame), Plain(stack)
  PROVE  /\ \A f \in Frame \ {"setup", "retry"} : Plain(Append(stack, f))
         /\ stack # <<>> => Plain(Under)
         /\ stack # <<>> => \A f \in Frame \ {"setup", "retry"} : Plain(Append(Under, f))
<1>1. \A f \in Frame \ {"setup", "retry"} : Plain(Append(stack, f))
  BY DEF Plain
<1>2. ASSUME stack # <<>>
      PROVE  Plain(Under) /\ \A f \in Frame \ {"setup", "retry"} : Plain(Append(Under, f))
  <2>1. /\ Under \in Seq(Frame)
        /\ \A k \in DOMAIN Under : k \in DOMAIN stack /\ Under[k] = stack[k]
    BY <1>2, UnderStack
  <2> QED
    BY <2>1 DEF Plain
<1> QED
  BY <1>1, <1>2

\* A process that does anything but the first start or a reset has its record.
LEMMA PastSetup ==
  ASSUME IInv, Fresh,
         \/ session.open \/ window.state = "shown" \/ account.lookup # "none" \/ account.revoking
         \/ sched.timer \/ flow.posted \/ Top \notin {"main", "retry", "setup"}
  PROVE  /\ ~Silent /\ Running /\ erasing = 0 /\ Plain(stack)
         /\ Exists("master") /\ files["master"] = era
<1>1. ~Silent /\ Running /\ erasing = 0 /\ ~InStack({"retry"})
  BY AwakeWhen DEF Silent
<1>2. ~InStack({"setup"})
  <2> SUFFICES ASSUME InStack({"setup"}) PROVE FALSE
    OBVIOUS
  <2>1. /\ stack = <<"setup">> /\ ~session.open /\ window = NoWindow
        /\ account = NoAccount /\ sched = IdleScheduler /\ ~flow.posted
    BY DEF Fresh
  <2> QED
    BY <2>1 DEF NoWindow, NoAccount, IdleScheduler, Top
<1>3. Plain(stack) /\ ~InStack({"setup", "retry"})
  BY <1>1, <1>2 DEF InStack, Plain
<1>4. Exists("master") /\ files \in [File -> {0, era}]
  BY <1>1, <1>3 DEF Fresh, IInv, Files
<1>5. "master" \in File
  BY DEF File, Deleted
<1> QED
  BY <1>1, <1>3, <1>4, <1>5 DEF Exists

\* Where the record exists, writing it again changes nothing.
LEMMA WroteRecord ==
  ASSUME files["master"] = era, NEW S
  PROVE  Wrote(S)["master"] = files["master"]
BY DEF Wrote, File, Deleted

LEMMA WroteOther ==
  ASSUME NEW S, "master" \notin S
  PROVE  Wrote(S)["master"] = files["master"]
BY DEF Wrote, File, Deleted

\* What neither opens a session nor touches the record closes the vault or does
\* nothing to it.
LEMMA KeepsVault ==
  ASSUME IInv, Fresh, UNCHANGED <<marker, era>>, files'["master"] = files["master"],
         session'.open => session.open
  PROVE  Abstract
<1>1. session.open => files["master"] # 0
  BY PastSetup DEF Exists
<1>2. CASE session.open /\ ~session'.open
  BY <1>1, <1>2 DEF Abstract, Lifetime!Next, Lifetime!Close, Lifetime!vars, Exists
<1>3. CASE ~session.open /\ ~session'.open
  BY <1>3 DEF Abstract, Lifetime!vars, Exists
<1>4. CASE session.open /\ session'.open
  BY <1>4 DEF Abstract, Lifetime!vars, Exists
<1> QED
  BY <1>2, <1>3, <1>4

\* An awake process goes on.
LEMMA GoesOnLiving ==
  ASSUME IInv, Fresh, ~Silent, Plain(stack'), session' \in Session,
         UNCHANGED <<app, erasing, marker, era>>, files'["master"] = files["master"],
         Exists("master"),
         flow'.posted => flow.posted
  PROVE  Fresh'
<1>1. ~InStack({"setup"})' /\ ~InStack({"retry"})'
  BY DEF Plain, InStack
<1>2. erasing' = 0
  BY DEF Silent
<1>3. Exists("master")'
  BY DEF Exists
<1>4. flow'.posted \/ InStack({"retry"})' \/ erasing' \in 1..Len(Deleted) + 1 => marker' # "absent"
  BY <1>1, <1>2 DEF Fresh, Deleted
<1> QED
  BY <1>1, <1>3, <1>4 DEF Fresh

LEMMA EndsLiving ==
  ASSUME IInv, Fresh, Ended, UNCHANGED <<marker, era>>, files'["master"] = files["master"]
  PROVE  Lives
<1>1. session' = Locked /\ stack' = <<>> /\ erasing' = 0 /\ flow' = NoFlow /\ app' = NoApp /\ ~Running'
  BY DEF Ended, Running
<1>2. session' \in Session /\ ~session'.open /\ ~flow'.posted
  BY <1>1 DEF Session, Locked, NoFlow
<1>3. \A S : ~InStack(S)'
  BY <1>1 DEF InStack
<1>4. Fresh'
  BY <1>1, <1>2, <1>3 DEF Fresh, Deleted
<1> QED
  BY <1>2, <1>4, KeepsVault DEF Lives

LEMMA InitiallyFresh == Init => Fresh /\ Lifetime!Init
<1> SUFFICES ASSUME Init PROVE Fresh /\ Lifetime!Init
  OBVIOUS
<1>1. Fresh
  BY DEF Init, ResetInit, Fresh, Session, Locked, NoFlow, InStack, Running, Deleted
<1>2. "master" \in File
  BY DEF File, Deleted
<1>3. files["master"] = 0 /\ era = 1 /\ marker = "absent" /\ ~session.open
  BY <1>2 DEF Init, ResetInit, NoFiles, Locked
<1> QED
  BY <1>1, <1>3 DEF Lifetime!Init, Exists

-----------------------------------------------------------------------------
(* The steps.                                                               *)

\* The window's work, the account and the scheduler leave vault and session alone.
LEMMA WorkLives ==
  ASSUME IInv, Fresh,
         \/ Edit \/ ChangeSettings \/ ImportClick \/ ConnectClick \/ Disconnect
         \/ LookupRuns \/ LookupReturns \/ RevokeReturns \/ OnTimeout \/ SyncImmediately
  PROVE  Lives
<1>1. \/ window.state = "shown" \/ account.lookup # "none" \/ account.revoking \/ sched.timer
  BY Zenon DEF Edit, ChangeSettings, ImportClick, ConnectClick, Disconnect, Clickable,
     LookupRuns, LookupReturns, RevokeReturns, OnTimeout, SyncImmediately
<1>2. ~Silent /\ Plain(stack) /\ Exists("master") /\ files["master"] = era
  BY <1>1, PastSetup
<1>3. \E f \in {"import", "wizard", "read"} : stack' = stack \/ stack' = Append(stack, f)
  BY Zenon DEF Edit, ChangeSettings, ImportClick, ConnectClick, Disconnect, LookupRuns, LookupReturns,
     RevokeReturns, OnTimeout, SyncImmediately, StartSync, Entered, process
<1>4. Plain(stack')
  BY <1>2, <1>3, PlainStacks DEF IInv, Frame, Syncing
<1>5. files' = files \/ files' = Wrote({"settings"}) \/ files' = [files EXCEPT !["token"] = 0]
  BY Zenon DEF Edit, ChangeSettings, ImportClick, ConnectClick, Disconnect, LookupRuns, LookupReturns,
     RevokeReturns, OnTimeout, SyncImmediately, durable
<1>6. files'["master"] = files["master"]
  BY <1>5, WroteOther DEF IInv, Files, File, Deleted
<1>7. UNCHANGED <<app, erasing, marker, era, flow, session>>
  BY Zenon DEF Edit, ChangeSettings, ImportClick, ConnectClick, Disconnect, LookupRuns, LookupReturns,
     RevokeReturns, OnTimeout, SyncImmediately, durable, process
<1>8. Fresh'
  BY <1>2, <1>4, <1>6, <1>7, GoesOnLiving DEF Fresh
<1> QED
  BY <1>6, <1>7, <1>8, KeepsVault DEF Lives

\* What returns from a loop without opening a session.
LEMMA ReturnLives ==
  ASSUME IInv, Fresh,
         ReadReturns \/ UploadReturns \/ Recovered \/ ImportReturns \/ WizardReturns \/ PasswordEntered
  PROVE  Lives
<1>1. Top \notin {"main", "retry", "setup"}
  BY DEF ReadReturns, UploadReturns, Recovered, ImportReturns, WizardReturns, PasswordEntered
<1>2. ~Silent /\ Plain(stack) /\ Exists("master") /\ files["master"] = era /\ stack # <<>>
  BY <1>1, PastSetup DEF Top
<1>3. \E f \in {"read", "upload", "unlock", "confirm"} :
        stack' = stack \/ stack' = Under \/ stack' = Append(Under, f)
  BY Zenon DEF ReadReturns, UploadReturns, Recovered, ImportReturns, WizardReturns, PasswordEntered
<1>4. Plain(stack')
  BY <1>2, <1>3, PlainStacks DEF IInv, Frame, Syncing
<1>5. \E S : files' = files \/ files' = Wrote(S)
  BY Zenon DEF ReadReturns, UploadReturns, Recovered, ImportReturns, WizardReturns, PasswordEntered, durable
<1>6. files'["master"] = files["master"]
  BY <1>2, <1>5, WroteRecord
<1>7. UNCHANGED <<app, erasing, marker, era, flow, session>>
  BY Zenon DEF ReadReturns, UploadReturns, Recovered, ImportReturns, WizardReturns, PasswordEntered, durable
<1>8. Fresh'
  BY <1>2, <1>4, <1>6, <1>7, GoesOnLiving DEF Fresh
<1> QED
  BY <1>6, <1>7, <1>8, KeepsVault DEF Lives

LEMMA GrantLives == IInv /\ Fresh /\ WizardSucceeds => Lives
<1> SUFFICES ASSUME IInv, Fresh, WizardSucceeds PROVE Lives
  OBVIOUS
<1>1. PICK k \in DOMAIN stack : stack[k] = "wizard" /\ stack' = [stack EXCEPT ![k] = "granted"]
  BY DEF WizardSucceeds
<1>2. ~Silent /\ ~InStack({"setup"}) /\ Running /\ erasing = 0
  BY <1>1 DEF IInv, Silenced, Silent, Fresh
<1>3. Plain(stack) /\ ~InStack({"setup", "retry"})
  BY <1>2 DEF Plain, Silent, InStack
<1>4. Exists("master") /\ Plain(stack')
  BY <1>1, <1>2, <1>3 DEF Fresh, Plain
<1>5. files'["master"] = files["master"]
  BY WroteOther DEF WizardSucceeds
<1>6. UNCHANGED <<app, erasing, marker, era, flow, session>>
  BY DEF WizardSucceeds
<1>7. Fresh'
  BY <1>2, <1>4, <1>5, <1>6, GoesOnLiving DEF Fresh
<1> QED
  BY <1>5, <1>6, <1>7, KeepsVault DEF Lives

\* The first start's record begins the next vault; where there is one already it
\* is only replaced.
LEMMA SetupLives == IInv /\ Fresh /\ SetupAccepted => Lives
<1> SUFFICES ASSUME IInv, Fresh, SetupAccepted PROVE Lives
  OBVIOUS
<1>1. /\ Top = "setup" /\ files' = Wrote({"master"}) /\ stack' = Append(Under, "binding")
      /\ UNCHANGED <<marker, era, app, session, flow, erasing>>
  BY DEF SetupAccepted
<1>2. ~Silent /\ stack # <<>> /\ stack \in Seq(Frame)
  BY <1>1, AwakeWhen DEF Top, IInv
<1>3. stack = <<"setup">> /\ ~session.open
  BY <1>1, <1>2 DEF Fresh, InStack, Top
<1>4. stack' = <<"binding">>
  <2>1. Under = <<>>
    BY <1>3 DEF Under
  <2>2. Append(<<>>, "binding") = <<"binding">>
    OBVIOUS
  <2> QED
    BY <1>1, <2>1, <2>2
<1>5. Plain(stack')
  BY <1>4 DEF Plain
<1>6. files["master"] \in {0, era} /\ files'["master"] = era /\ era \in Nat /\ era # 0
  BY <1>1 DEF IInv, Files, Fresh, Wrote, File, Deleted
<1>7. ~session'.open /\ session' \in Session
  BY <1>1, <1>3 DEF Fresh
<1>8. Fresh'
  <2>1. erasing' = 0 /\ ~InStack({"setup"})' /\ ~InStack({"retry"})'
    BY <1>1, <1>2, <1>5 DEF Silent, Plain, InStack
  <2>2. ~flow'.posted
    BY <1>1, <1>2, <1>3 DEF Fresh, InStack
  <2> QED
    BY <1>6, <1>7, <2>1, <2>2, <1>1 DEF Fresh, Exists, Deleted
<1>9. Abstract
  <2>1. CASE files["master"] = era
    BY <1>1, <1>3, <1>6, <1>7, <2>1, KeepsVault
  <2>2. CASE files["master"] = 0 /\ marker = "absent"
    BY <1>1, <1>3, <1>6, <1>7, <2>2 DEF Abstract, Lifetime!Next, Lifetime!Create, Exists
  <2>3. CASE marker # "absent"
    BY <1>1, <1>3, <1>7, <2>3 DEF Abstract, Lifetime!vars
  <2> QED
    BY <1>6, <2>1, <2>2, <2>3
<1> QED
  BY <1>8, <1>9 DEF Lives

\* A session opens the vault whose record is there.
LEMMA UnlockLives == IInv /\ Fresh /\ (UnlockAccepted \/ BindingSaved) => Lives
<1> SUFFICES ASSUME IInv, Fresh, UnlockAccepted \/ BindingSaved PROVE Lives
  OBVIOUS
<1>1. /\ Top \in {"unlock", "binding"} /\ stack' = Under
      /\ session' = [session EXCEPT !.open = TRUE]
      /\ UNCHANGED <<app, flow, erasing, marker, era>>
      /\ files' = files \/ files' = Wrote({"binding"})
  BY DEF UnlockAccepted, BindingSaved, Unlocked, durable
<1>2. ~Silent /\ Plain(stack) /\ Exists("master") /\ files["master"] = era /\ stack # <<>>
  BY <1>1, PastSetup DEF Top
<1>3. Plain(stack')
  BY <1>1, <1>2, PlainStacks DEF IInv
<1>4. files'["master"] = files["master"]
  BY <1>1, WroteOther
<1>5. session' \in Session /\ session'.open
  BY <1>1 DEF Fresh, Session
<1>6. Fresh'
  BY <1>1, <1>2, <1>3, <1>4, <1>5, GoesOnLiving
<1>7. Abstract
  <2>1. CASE session.open
    BY <1>1, <1>4, <1>5, <2>1, KeepsVault
  <2>2. CASE ~session.open /\ marker = "absent"
    BY <1>1, <1>2, <1>4, <1>5, <2>2 DEF Abstract, Lifetime!Next, Lifetime!Open, Exists
  <2>3. CASE marker # "absent"
    BY <1>1, <2>3 DEF Abstract, Lifetime!vars
  <2> QED
    BY <2>1, <2>2, <2>3
<1> QED
  BY <1>6, <1>7 DEF Lives

\* A lock closes the session and opens nothing.
LEMMA LocksVault ==
  ASSUME NEW f, NEW s, NEW u, Locks(f, s, u)
  PROVE  /\ session' \in Session /\ ~session'.open
         /\ stack' = s \/ \E p \in {"recover", "unlock"} : stack' = Append(s, p)
BY DEF Locks, Prompt, Locked, Session

LEMMA LockLives == IInv /\ Fresh /\ (Lock \/ (CloseWindow /\ InFlow)) => Lives
<1> SUFFICES ASSUME IInv, Fresh, Lock \/ (CloseWindow /\ InFlow) PROVE Lives
  OBVIOUS
<1>1. ~Silent /\ Plain(stack) /\ Exists("master") /\ session \in Session
  BY PastSetup DEF Lock, CloseWindow, Fresh
<1>2. \/ stack' = stack /\ session' = [session EXCEPT !.lockReq = TRUE]
      \/ \E u : Locks(flow, stack, u)
  BY Zenon DEF Lock, CloseWindow, DefersLock
<1>3. /\ session' \in Session /\ (session'.open => session.open)
      /\ stack' = stack \/ \E p \in {"recover", "unlock"} : stack' = Append(stack, p)
  <2>1. CASE stack' = stack /\ session' = [session EXCEPT !.lockReq = TRUE]
    BY <1>1, <2>1 DEF Session
  <2>2. CASE \E u : Locks(flow, stack, u)
    BY <2>2, LocksVault
  <2> QED
    BY <1>2, <2>1, <2>2
<1>4. Plain(stack')
  BY <1>1, <1>3, PlainStacks DEF IInv, Frame
<1>5. UNCHANGED <<app, erasing, marker, era, files>>
  BY Zenon DEF Lock, CloseWindow, durable
<1>6. flow'.posted => flow.posted
  <2>1. flow' = flow \/ flow' = [flow EXCEPT !.exit = TRUE]
    BY Zenon DEF Lock, CloseWindow
  <2> QED
    BY <2>1 DEF IInv, Flows
<1>7. Fresh'
  BY <1>1, <1>3, <1>4, <1>5, <1>6, GoesOnLiving
<1> QED
  BY <1>3, <1>5, <1>7, KeepsVault DEF Lives

LEMMA EndLives ==
  ASSUME IInv, Fresh,
         \/ PromptClosed \/ ReadReturnsDangling \/ Crash \/ (CloseWindow /\ ~InFlow)
         \/ (ResetNotStarted /\ flow.exit)
  PROVE  Lives
<1>1. Ended /\ UNCHANGED <<marker, era>>
  BY Zenon DEF PromptClosed, ReadReturnsDangling, Crash, CloseWindow, ResetNotStarted, durable
<1>2. files' = files \/ files' = Wrote({"migration"})
  BY Zenon DEF PromptClosed, ReadReturnsDangling, Crash, CloseWindow, ResetNotStarted, durable
<1>3. files'["master"] = files["master"]
  BY <1>2, WroteOther
<1> QED
  BY <1>1, <1>3, EndsLiving

\* Beginning a change of the password, or a reset, leaves the session open.
LEMMA RequestLives ==
  ASSUME IInv, Fresh,
         ChangeMasterPassword \/ ChangeBegins \/ RequestLocalReset \/ (ResetNotStarted /\ ~flow.exit)
  PROVE  Lives
<1>1. window.state = "shown" \/ Top \in {"changeDialog", "password", "confirm"}
  BY DEF ChangeMasterPassword, ChangeBegins, RequestLocalReset, ResetNotStarted, Clickable
<1>2. ~Silent /\ Plain(stack) /\ Exists("master") /\ files["master"] = era /\ session \in Session
  BY <1>1, PastSetup DEF Fresh
<1>3. /\ \/ \E f \in {"changeDialog", "password"} : stack' = Append(stack, f)
         \/ stack # <<>> /\ stack' = Under
         \/ stack # <<>> /\ \E f \in {"changing", "recover", "unlock"} : stack' = Append(Under, f)
  BY Zenon DEF ChangeMasterPassword, ChangeBegins, RequestLocalReset, ResetNotStarted, Entered, Prompt, Top
<1>4. Plain(stack')
  BY <1>2, <1>3, PlainStacks DEF IInv, Frame
<1>5. files' = files \/ files' = Wrote({"binding"})
  BY Zenon DEF ChangeMasterPassword, ChangeBegins, RequestLocalReset, ResetNotStarted, durable
<1>6. files'["master"] = files["master"]
  BY <1>5, WroteOther
<1>7. session' = session \/ session' = [session EXCEPT !.changing = TRUE, !.lockReq = FALSE]
  BY Zenon DEF ChangeMasterPassword, ChangeBegins, RequestLocalReset, ResetNotStarted
<1>8. session' \in Session /\ (session'.open => session.open)
  BY <1>2, <1>7 DEF Session
<1>9. flow'.posted => flow.posted
  <2>1. \/ flow' = flow \/ flow' = [flow EXCEPT !.migration = TRUE, !.exit = FALSE]
        \/ flow' = [flow EXCEPT !.confirming = TRUE, !.exit = FALSE]
        \/ flow' = [flow EXCEPT !.confirming = FALSE]
    BY Zenon DEF ChangeMasterPassword, ChangeBegins, RequestLocalReset, ResetNotStarted
  <2> QED
    BY <2>1 DEF IInv, Flows
<1>10. UNCHANGED <<app, erasing, marker, era>>
  BY Zenon DEF ChangeMasterPassword, ChangeBegins, RequestLocalReset, ResetNotStarted, durable
<1>11. Fresh'
  BY <1>2, <1>4, <1>6, <1>8, <1>9, <1>10, GoesOnLiving
<1> QED
  BY <1>6, <1>8, <1>10, <1>11, KeepsVault DEF Lives

\* However a change of the password ends, the vault is the same.
LEMMA ChangeLives == IInv /\ Fresh /\ (ChangeDeclined \/ ChangeReturns) => Lives
<1> SUFFICES ASSUME IInv, Fresh, ChangeDeclined \/ ChangeReturns PROVE Lives
  OBVIOUS
<1>1. Top \in {"changeDialog", "changing"} /\ UNCHANGED <<marker, era>>
  BY DEF ChangeDeclined, ChangeReturns, durable
<1>2. /\ ~Silent /\ Plain(stack) /\ Exists("master") /\ files["master"] = era
      /\ session \in Session /\ stack # <<>>
  BY <1>1, PastSetup DEF Fresh, Top
<1>3. \E S : files' = files \/ files' = Wrote(S)
  BY Zenon DEF ChangeDeclined, ChangeReturns, durable
<1>4. files'["master"] = files["master"]
  BY <1>2, <1>3, WroteRecord
<1>5. EndsChange(TRUE) \/ EndsChange(FALSE)
  BY Zenon DEF ChangeDeclined, ChangeReturns
<1>6. CASE flow.exit
  <2>1. Ended
    BY <1>5, <1>6, Zenon DEF EndsChange
  <2> QED
    BY <1>1, <1>4, <2>1, EndsLiving
<1>7. CASE ~flow.exit
  <2>1. /\ flow' = [flow EXCEPT !.migration = FALSE] /\ UNCHANGED <<app, erasing>>
        /\ \/ \E u : Locks(NoFlow, Under, u)
           \/ stack' = Under /\ session' = [session EXCEPT !.changing = FALSE]
    BY <1>5, <1>7, Zenon DEF EndsChange
  <2>2. /\ session' \in Session /\ (session'.open => session.open)
        /\ stack' = Under \/ \E p \in {"recover", "unlock"} : stack' = Append(Under, p)
    <3>1. CASE \E u : Locks(NoFlow, Under, u)
      BY <3>1, LocksVault
    <3>2. CASE stack' = Under /\ session' = [session EXCEPT !.changing = FALSE]
      BY <1>2, <3>2 DEF Session
    <3> QED
      BY <2>1, <3>1, <3>2
  <2>3. Plain(stack')
    BY <1>2, <2>2, PlainStacks DEF IInv, Frame
  <2>4. flow'.posted => flow.posted
    BY <2>1 DEF IInv, Flows
  <2>5. Fresh'
    BY <1>1, <1>2, <1>4, <2>1, <2>2, <2>3, <2>4, GoesOnLiving
  <2> QED
    BY <1>1, <1>4, <2>2, <2>5, KeepsVault DEF Lives
<1> QED
  BY <1>6, <1>7

-----------------------------------------------------------------------------
(* The reset.                                                               *)

\* Writing the marker clears the open vault, although its files are still there.
LEMMA BeginLives == IInv /\ Fresh /\ ResetBegins => Lives
<1> SUFFICES ASSUME IInv, Fresh, ResetBegins PROVE Lives
  OBVIOUS
<1>1. /\ Top = "confirm" /\ session.open /\ stack' = Under
      /\ flow' = [flow EXCEPT !.confirming = FALSE, !.resetting = TRUE, !.posted = TRUE]
      /\ marker' = app
      /\ UNCHANGED <<files, era, app, erasing, session>>
  BY DEF ResetBegins, Eligible, Quiet, Begin
<1>2. marker = "absent"
  BY DEF ResetBegins, Eligible, Inspect
<1>3. /\ ~Silent /\ Running /\ Plain(stack) /\ erasing = 0 /\ stack # <<>>
      /\ Exists("master") /\ files["master"] = era
  BY <1>1, PastSetup DEF Top
<1>4. marker' # "absent"
  BY <1>1, <1>3, InstallationAssumption DEF Fresh, Running
<1>5. Plain(stack')
  BY <1>1, <1>3, PlainStacks DEF IInv
<1>6. ~InStack({"setup"})'
  BY <1>5 DEF Plain, InStack
<1>7. Fresh'
  BY <1>1, <1>3, <1>4, <1>6 DEF Fresh, Exists
<1>8. Abstract
  BY <1>1, <1>2, <1>3, <1>4 DEF Abstract, Lifetime!Next, Lifetime!Clear, Exists
<1> QED
  BY <1>7, <1>8 DEF Lives

\* Resume's first step, with the marker on the disk.
LEMMA ReleaseLives == IInv /\ Fresh /\ ReleaseRuntime => Lives
<1> SUFFICES ASSUME IInv, Fresh, ReleaseRuntime PROVE Lives
  OBVIOUS
<1>1. /\ stack = <<>> /\ session' = Locked /\ UNCHANGED <<marker, era, app>>
      /\ flow' = [flow EXCEPT !.posted = FALSE] /\ flow.posted
      /\ files' = files \/ files' = [files EXCEPT !["token"] = 0]
  BY DEF ReleaseRuntime, Released
<1>2. marker # "absent" /\ erasing = 0
  BY <1>1, PastSetup DEF Fresh
<1>3. \/ stack' = <<>> /\ erasing' = 1
      \/ stack' = <<"retry">> /\ erasing' = 0
  BY <1>1, <1>2, SmallStacks DEF ReleaseRuntime, Entered
<1>4. files'["master"] = files["master"]
  BY <1>1 DEF IInv, Files, File, Deleted
<1>5. session' \in Session /\ ~session'.open
  BY <1>1 DEF Locked, Session
<1>6. ~InStack({"setup"})' /\ (erasing' # 0 \/ InStack({"setup", "retry"})')
  BY <1>3 DEF InStack
<1>7. Fresh'
  BY <1>1, <1>2, <1>5, <1>6 DEF Fresh
<1> QED
  BY <1>1, <1>4, <1>5, <1>7, KeepsVault DEF Lives

\* The files go under the marker, when the abstract vault is gone already; with
\* the marker goes the last of them.
LEMMA EraseLives == IInv /\ Fresh /\ Erase => Lives
<1> SUFFICES ASSUME IInv, Fresh, Erase PROVE Lives
  OBVIOUS
<1>1. /\ erasing # 0 /\ erasing' = erasing + 1 /\ Silent /\ stack = <<>> /\ ~session.open /\ ~flow.posted
      /\ UNCHANGED <<app, stack, session, flow>>
  BY DEF Erase, Silent, IInv, Silenced
<1>2. erasing \in 1..Len(Deleted) + 1 /\ marker # "absent" /\ era \in Nat
  BY <1>1 DEF Erase, Fresh, IInv, Gone, Files, Deleted
<1>3. ~InStack({"setup"})' /\ ~InStack({"retry"})'
  BY <1>1 DEF InStack
<1>4. CASE erasing <= Len(Deleted) /\ RemoveFile(erasing)
  <2>1. UNCHANGED <<marker, era>>
    BY <1>4 DEF RemoveFile
  <2>2. erasing' \in 1..Len(Deleted) + 1 /\ erasing' # 0
    BY <1>1, <1>2, <1>4 DEF Deleted
  <2>3. Fresh'
    BY <1>1, <1>2, <1>3, <2>1, <2>2 DEF Fresh
  <2>4. Abstract
    BY <1>1, <1>2, <2>1 DEF Abstract, Lifetime!vars
  <2> QED
    BY <2>3, <2>4 DEF Lives
<1>5. CASE erasing = Len(Deleted) + 1 /\ RemoveMarker
  <2>1. marker' = "absent" /\ era' = era + 1 /\ files' = files
    BY <1>5 DEF RemoveMarker
  <2>2. files["master"] = 0
    BY <1>5 DEF IInv, Gone, Deleted
  <2>3. erasing' = 8 /\ Len(Deleted) = 6
    BY <1>1, <1>5 DEF Deleted
  <2>4. erasing' # 0 /\ erasing' \notin 1..Len(Deleted) + 1
    BY <2>3
  <2>5. Fresh'
    BY <1>1, <1>2, <1>3, <2>1, <2>4 DEF Fresh
  <2>6. Abstract
    BY <1>1, <1>2, <2>1, <2>2 DEF Abstract, Lifetime!vars, Exists
  <2> QED
    BY <2>5, <2>6 DEF Lives
<1> QED
  BY <1>4, <1>5 DEF Erase

LEMMA InterruptionLives == IInv /\ Fresh /\ (EraseFails \/ RetryReset) => Lives
<1> SUFFICES ASSUME IInv, Fresh, EraseFails \/ RetryReset PROVE Lives
  OBVIOUS
<1>1. UNCHANGED <<marker, era, files>>
  BY DEF EraseFails, RetryReset, durable
<1>2. CASE EraseFails
  <2>1. /\ erasing \in 1..Len(Deleted) + 1 /\ erasing # 0 /\ Silent /\ stack' = Append(stack, "retry")
        /\ UNCHANGED <<app, session, flow>>
    BY <1>2 DEF EraseFails, Entered, Silent, Deleted
  <2>2. stack = <<>> /\ marker # "absent" /\ ~flow.posted
    BY <2>1 DEF IInv, Silenced, Fresh
  <2>3. stack' = <<"retry">>
    BY <2>1, <2>2, SmallStacks
  <2>4. ~InStack({"setup"})' /\ InStack({"setup", "retry"})'
    BY <2>3 DEF InStack
  <2>5. Fresh'
    BY <1>1, <2>1, <2>2, <2>4 DEF Fresh
  <2> QED
    BY <1>1, <2>1, <2>5, KeepsVault DEF Lives
<1>3. CASE RetryReset
  <2>1. Top = "retry" /\ stack # <<>> /\ stack \in Seq(Frame)
    BY <1>3 DEF RetryReset, Top, IInv
  <2>2. InStack({"retry"}) /\ Silent
    BY <2>1 DEF Silent, InStack, Top
  <2>3. stack = <<"retry">> /\ marker # "absent" /\ ~flow.posted
    BY <2>1, <2>2 DEF IInv, Silenced, Fresh
  <2>4. CASE Ended
    BY <1>1, <2>4, EndsLiving
  <2>5. CASE erasing' = 1 /\ stack' = Under /\ UNCHANGED <<app, session, flow>>
    <3>1. stack' = <<>>
      BY <2>3, <2>5 DEF Under
    <3>2. ~InStack({"setup"})'
      BY <3>1 DEF InStack
    <3>3. Fresh'
      BY <1>1, <2>3, <2>5, <3>2 DEF Fresh
    <3> QED
      BY <1>1, <2>5, <3>3, KeepsVault DEF Lives
  <2> QED
    BY <1>3, <2>4, <2>5, Zenon DEF RetryReset
<1> QED
  BY <1>2, <1>3

\* A start: with a record it asks for the password, without one it is the first.
LEMMA InitializesLives ==
  ASSUME IInv, Fresh, NEW i \in Installation \cup {NoApp}, Silent, Initializes(i)
  PROVE  Lives
<1>1. /\ app' = i /\ flow' = NoFlow /\ erasing' = 0
      /\ stack' = <<"setup">> \/ (Exists("master") /\ \E p \in {"recover", "unlock"} : stack' = <<p>>)
      /\ \E S \in {{"db"}, {"db", "binding"}} : files' = Wrote(S)
      /\ UNCHANGED <<marker, era, session, sched, window, account>>
  <2>1. Prompt(pending) \in {"recover", "unlock"}
    BY DEF Prompt
  <2>2. {"db"} \cup {} = {"db"} /\ {"db"} \cup {"binding"} = {"db", "binding"}
    OBVIOUS
  <2> QED
    BY <2>1, <2>2 DEF Initializes
<1>2. ~session.open /\ window = NoWindow /\ account = NoAccount /\ sched = IdleScheduler
  BY DEF IInv, Silenced
<1>3. files'["master"] = files["master"]
  BY <1>1, WroteOther
<1>4. ~flow'.posted
  BY <1>1 DEF NoFlow
<1>5. ~InStack({"retry"})' /\ (stack' = <<"setup">> \/ ~InStack({"setup"})')
  BY <1>1 DEF InStack
<1>6. InStack({"setup", "retry"})' \/ Exists("master")'
  BY <1>1, <1>3 DEF InStack, Exists
<1>7. Fresh'
  BY <1>1, <1>2, <1>4, <1>5, <1>6 DEF Fresh, Deleted
<1> QED
  BY <1>1, <1>3, <1>7, KeepsVault DEF Lives

LEMMA StartLives ==
  ASSUME IInv, Fresh, NEW i \in Installation, Start(i) \/ StartResumes(i)
  PROVE  Lives
<1>1. CASE Start(i)
  BY <1>1, InitializesLives DEF Start, Silent
<1>2. CASE StartResumes(i)
  <2>1. /\ stack = <<>> /\ ~Running
    BY <1>2 DEF StartResumes, IInv, Silenced
  <2>2. /\ app' = i /\ erasing' = 1 /\ marker # "absent"
        /\ flow' = [NoFlow EXCEPT !.resetting = TRUE]
        /\ UNCHANGED <<durable, stack, session>>
    BY <1>2 DEF StartResumes, Inspect
  <2>3. ~InStack({"setup"})'
    BY <2>1, <2>2 DEF InStack
  <2>4. Fresh'
    BY <2>2, <2>3 DEF Fresh, durable
  <2> QED
    BY <2>2, <2>4, KeepsVault DEF Lives, durable
<1> QED
  BY <1>1, <1>2

LEMMA ElsewhereLives ==
  ASSUME IInv, Fresh, CopySecret \/ ClipboardTimeout \/ UNCHANGED vars
  PROVE  Lives
<1>1. UNCHANGED <<durable, app, stack, session, flow, sched, window, account, erasing>>
  BY Zenon DEF CopySecret, ClipboardTimeout, vars, process
<1>2. Fresh'
  BY <1>1 DEF Fresh, InStack, Exists, Running, durable
<1> QED
  BY <1>1, <1>2, KeepsVault DEF Lives, durable

LEMMA StepLives == IInv /\ Fresh /\ [Next]_vars => Lives
<1> SUFFICES ASSUME IInv, Fresh, [Next]_vars PROVE Lives
  OBVIOUS
<1>1. CASE \E i \in Installation : Start(i) \/ StartResumes(i)
  BY <1>1, StartLives
<1>2. CASE \/ Edit \/ ChangeSettings \/ ImportClick \/ ConnectClick \/ Disconnect
           \/ LookupRuns \/ LookupReturns \/ RevokeReturns \/ OnTimeout \/ SyncImmediately
  BY <1>2, WorkLives
<1>3. CASE \/ ReadReturns \/ UploadReturns \/ Recovered \/ ImportReturns \/ WizardReturns
           \/ PasswordEntered
  BY <1>3, ReturnLives
<1>4. CASE UnlockAccepted \/ BindingSaved \/ SetupAccepted \/ WizardSucceeds
  BY <1>4, UnlockLives, SetupLives, GrantLives
<1>5. CASE Lock \/ CloseWindow \/ PromptClosed \/ ReadReturnsDangling \/ Crash
  BY <1>5, LockLives, EndLives
<1>6. CASE ChangeMasterPassword \/ ChangeBegins \/ RequestLocalReset
  BY <1>6, RequestLives
<1>7. CASE ResetNotStarted
  BY <1>7, RequestLives, EndLives
<1>8. CASE ChangeDeclined \/ ChangeReturns
  BY <1>8, ChangeLives
<1>9. CASE ResetBegins \/ ReleaseRuntime \/ Erase \/ EraseFails \/ RetryReset
  BY <1>9, BeginLives, ReleaseLives, EraseLives, InterruptionLives
<1>10. CASE ResetReturns
  <2>1. Silent /\ Initializes(app) /\ app \in Installation \cup {NoApp}
    BY <1>10 DEF ResetReturns, Silent, Deleted, Fresh
  <2> QED
    BY <2>1, InitializesLives
<1>11. CASE CopySecret \/ ClipboardTimeout \/ UNCHANGED vars
  BY <1>11, ElsewhereLives
<1> QED
  BY <1>1, <1>2, <1>3, <1>4, <1>5, <1>6, <1>7, <1>8, <1>9, <1>10, <1>11, Zenon DEF Next

\* Application and LocalReset keep what the user is promised: at most one vault at
\* a time, cleared in one step (the marker's) and only while it is open, and
\* whatever is opened later was created after it.
THEOREM ImplementsLifetime == Spec => ImplementsVaultLifetime
<1>1. Init => Fresh /\ Lifetime!Init
  BY InitiallyFresh
<1>2. IInv /\ Fresh /\ [Next]_vars => Fresh' /\ [Lifetime!Next]_(Lifetime!vars)
  BY StepLives DEF Lives, Abstract
<1> QED
  BY <1>1, <1>2, AlwaysSafe, PTL DEF Spec, ImplementsVaultLifetime, Lifetime!Spec
=============================================================================
