---------------------------- MODULE DesktopProofs ----------------------------
(***************************************************************************)
(* For any number of installations and of vaults: no file of a vault that   *)
(* was cleared is left when the next one begins, and while files are erased *)
(* nothing in the process or on the disk can write them again.              *)
(*                                                                         *)
(* The erasing is a loop over the files that a crash, a failure or another  *)
(* start may interrupt. The invariant says which files are gone at each of  *)
(* its steps (Gone), that the process is silent all along (Silenced), and   *)
(* that no change of the password is in the way of a marker (Undisturbed).  *)
(***************************************************************************)
EXTENDS Desktop, TLAPS

\* The process does not run, or does nothing but erase, or asks for a retry.
Silent == ~Running \/ erasing # 0 \/ InStack({"retry"})

Changing == {"changeDialog", "changing"}

Flows == [migration : BOOLEAN, confirming : BOOLEAN, resetting : BOOLEAN, exit : BOOLEAN, posted : BOOLEAN]

Files == /\ era \in Nat
         /\ files \in [File -> {0, era}]

Gone == /\ erasing \in 0..Len(Deleted) + 2
        /\ \A k \in DOMAIN Deleted : k < erasing => files[Deleted[k]] = 0
        /\ erasing = Len(Deleted) + 2 => marker = "absent"

Silenced ==
  /\ Silent => /\ ~session.open /\ window = NoWindow /\ account = NoAccount
               /\ sched = IdleScheduler /\ ~flow.posted
               /\ stack = <<>> \/ stack = <<"retry">>
  /\ ~Running \/ erasing # 0 => stack = <<>>
  /\ ~Running => erasing = 0

Undisturbed ==
  /\ InStack(Changing) => flow.migration
  /\ \A j, k \in DOMAIN stack : stack[j] \in Changing /\ stack[k] \in Changing => j = k
  /\ marker # "absent" => /\ ~pending /\ ~InStack(Changing)
                          /\ flow.resetting \/ ~Running

IInv == stack \in Seq(Frame) /\ flow \in Flows /\ Files /\ Gone /\ Silenced /\ Undisturbed

-----------------------------------------------------------------------------
(* The stack of event loops.                                                *)

LEMMA UnderStack ==
  ASSUME stack \in Seq(Frame), stack # <<>>
  PROVE  /\ Under \in Seq(Frame) /\ DOMAIN Under = 1..(Len(stack) - 1)
         /\ \A k \in DOMAIN Under : k \in DOMAIN stack /\ k # Len(stack) /\ Under[k] = stack[k]
BY DEF Under

\* A stack s that follows from the present one by entering, leaving and
\* replacing loops that neither change the password nor ask for a retry.
Follows(s) ==
  /\ s \in Seq(Frame)
  /\ \A k \in DOMAIN s :
       /\ s[k] # "retry"
       /\ s[k] \in Changing => k \in DOMAIN stack /\ stack[k] \in Changing

\* The stacks of a process that erases.
LEMMA SmallStacks ==
  /\ <<>> \in Seq(Frame) /\ <<"retry">> \in Seq(Frame)
  /\ Append(<<>>, "retry") = <<"retry">>
  /\ stack' = <<>> \/ stack' = <<"retry">> => ~InStack(Changing)'
<1>1. "retry" \in Frame
  BY DEF Frame
<1>2. <<>> \in Seq(Frame) /\ <<"retry">> \in Seq(Frame) /\ Append(<<>>, "retry") = <<"retry">>
  BY <1>1
<1>3. stack' = <<>> => ~InStack(Changing)'
  BY DEF InStack
<1>4. stack' = <<"retry">> => ~InStack(Changing)'
  BY DEF InStack, Changing
<1> QED
  BY <1>2, <1>3, <1>4

LEMMA SameFollows ==
  ASSUME stack \in Seq(Frame), ~Silent
  PROVE  Follows(stack)
BY DEF Follows, Silent, InStack

LEMMA EnteredFollows ==
  ASSUME stack \in Seq(Frame), ~Silent, NEW f \in Frame \ (Changing \cup {"retry"})
  PROVE  Follows(Append(stack, f))
BY DEF Follows, Silent, InStack

LEMMA UnderFollows ==
  ASSUME stack \in Seq(Frame), ~Silent, stack # <<>>
  PROVE  Follows(Under)
BY UnderStack DEF Follows, Silent, InStack

LEMMA ReplacedFollows ==
  ASSUME stack \in Seq(Frame), ~Silent, stack # <<>>, NEW f \in Frame \ (Changing \cup {"retry"})
  PROVE  Follows(Append(Under, f))
<1>1. /\ Under \in Seq(Frame) /\ DOMAIN Under = 1..(Len(stack) - 1)
      /\ \A k \in DOMAIN Under : k \in DOMAIN stack /\ Under[k] = stack[k]
  BY UnderStack
<1> QED
  BY <1>1 DEF Follows, Silent, InStack

-----------------------------------------------------------------------------
(* What awakes, what puts to sleep, and what changes nothing.               *)

LEMMA AwakeWhen ==
  ASSUME IInv,
         \/ session.open \/ window.state = "shown" \/ account.lookup # "none" \/ account.revoking
         \/ sched.timer \/ flow.posted \/ Top \notin {"main", "retry"}
  PROVE  ~Silent
BY DEF IInv, Silenced, NoWindow, NoAccount, IdleScheduler, Top

LEMMA WroteFiles ==
  ASSUME Files, NEW S
  PROVE  Wrote(S) \in [File -> {0, era}]
BY DEF Files, Wrote

\* A process that is awake goes on with other files, loops and objects.
LEMMA StaysAwake ==
  ASSUME IInv, ~Silent, UNCHANGED <<app, erasing, marker, era>>,
         files' \in [File -> {0, era}], pending' => pending,
         Follows(stack'),
         flow' \in Flows, flow.migration => flow'.migration, flow.resetting => flow'.resetting
  PROVE  IInv'
<1>1. ~Silent'
  BY DEF Silent, Running, InStack, Follows
<1>2. stack' \in Seq(Frame) /\ Files'
  BY DEF IInv, Files, Follows
<1>3. Gone'
  BY DEF IInv, Gone, Silent, Deleted
<1>4. Silenced'
  BY <1>1 DEF Silenced, Silent
<1>5. Undisturbed'
  <2>1. InStack(Changing)' => InStack(Changing)
    BY DEF InStack, Follows
  <2>2. \A j, k \in DOMAIN stack' : stack'[j] \in Changing /\ stack'[k] \in Changing => j = k
    BY DEF IInv, Undisturbed, Follows
  <2>3. (InStack(Changing) => flow.migration)
        /\ (marker # "absent" => ~pending /\ ~InStack(Changing) /\ (flow.resetting \/ ~Running))
    BY DEF IInv, Undisturbed
  <2>4. (Running' <=> Running) /\ marker' = marker
    BY DEF Running
  <2>5. marker' # "absent" => ~pending' /\ ~InStack(Changing)' /\ (flow'.resetting \/ ~Running')
    BY <2>1, <2>3, <2>4, Zenon
  <2>6. InStack(Changing)' => flow'.migration
    BY <2>1, <2>3, Zenon
  <2> QED
    BY <2>2, <2>5, <2>6, Zenon DEF Undisturbed
<1> QED
  BY <1>2, <1>3, <1>4, <1>5 DEF IInv

LEMMA FallsAsleep ==
  ASSUME IInv, Ended, UNCHANGED <<marker, era>>, files' \in [File -> {0, era}],
         marker # "absent" => ~pending'
  PROVE  IInv'
<1>1. ~Running' /\ stack' = <<>> /\ DOMAIN stack' = {} /\ erasing' = 0
  BY DEF Ended, Running
<1>2. stack' \in Seq(Frame) /\ flow' \in Flows /\ Files' /\ Gone'
  BY <1>1 DEF IInv, Files, Gone, Deleted, Ended, NoFlow, Flows
<1>3. Silenced'
  BY <1>1 DEF Silenced, Ended, Locked, NoFlow
<1>4. Undisturbed'
  BY <1>1 DEF Undisturbed, InStack, Ended
<1> QED
  BY <1>2, <1>3, <1>4 DEF IInv

LEMMA Elsewhere ==
  ASSUME IInv, UNCHANGED <<durable, app, stack, session, flow, sched, window, account, erasing>>
  PROVE  IInv'
BY DEF IInv, Files, Gone, Silenced, Undisturbed, Silent, Running, InStack, durable

LEMMA InitiallySilent == Init => IInv
<1> SUFFICES ASSUME Init PROVE IInv
  OBVIOUS
<1>1. stack \in Seq(Frame) /\ flow \in Flows /\ Files
  BY DEF Init, ResetInit, NoFiles, NoFlow, Flows, Files
<1>2. Gone
  BY DEF Init, Gone, Deleted
<1>3. Silenced /\ Undisturbed
  BY DEF Init, ResetInit, Silenced, Undisturbed, Locked, NoFlow, InStack, Running
<1> QED
  BY <1>1, <1>2, <1>3 DEF IInv

-----------------------------------------------------------------------------
(* The steps.                                                               *)

\* The window's work, the account and the scheduler: they need a window that is
\* shown, an answer that is awaited or a timer that runs.
LEMMA WorkIsSafe ==
  ASSUME IInv,
         \/ Edit \/ ChangeSettings \/ ImportClick \/ ConnectClick \/ Disconnect
         \/ LookupRuns \/ LookupReturns \/ RevokeReturns \/ OnTimeout \/ SyncImmediately
  PROVE  IInv'
<1>1. ~Silent
  BY AwakeWhen, Zenon DEF Edit, ChangeSettings, ImportClick, ConnectClick, Disconnect, Clickable,
     LookupRuns, LookupReturns, RevokeReturns, OnTimeout, SyncImmediately
<1>2. \E f \in {"import", "wizard", "read"} : stack' = stack \/ stack' = Append(stack, f)
  BY Zenon DEF Edit, ChangeSettings, ImportClick, ConnectClick, Disconnect, LookupRuns, LookupReturns,
     RevokeReturns, OnTimeout, SyncImmediately, StartSync, Entered, process
<1>3. Follows(stack')
  BY <1>1, <1>2, SameFollows, EnteredFollows DEF IInv, Frame, Syncing, Changing
<1>4. files' = files \/ files' = Wrote({"settings"}) \/ files' = [files EXCEPT !["token"] = 0]
  BY Zenon DEF Edit, ChangeSettings, ImportClick, ConnectClick, Disconnect, LookupRuns, LookupReturns,
     RevokeReturns, OnTimeout, SyncImmediately, durable
<1>5. files' \in [File -> {0, era}]
  BY <1>4, WroteFiles DEF IInv, Files
<1>6. UNCHANGED <<app, erasing, marker, era, pending, flow>>
  BY Zenon DEF Edit, ChangeSettings, ImportClick, ConnectClick, Disconnect, LookupRuns, LookupReturns,
     RevokeReturns, OnTimeout, SyncImmediately, durable, process
<1>7. flow' \in Flows
  BY <1>6 DEF IInv
<1> QED
  BY <1>1, <1>3, <1>5, <1>6, <1>7, StaysAwake

\* What returns from a loop, or goes on in another.
LEMMA ReturnIsSafe ==
  ASSUME IInv,
         \/ ReadReturns \/ UploadReturns \/ UnlockAccepted \/ Recovered \/ SetupAccepted
         \/ BindingSaved \/ ImportReturns \/ WizardReturns \/ PasswordEntered
  PROVE  IInv'
<1>1. Top \notin {"main", "retry"}
  BY DEF ReadReturns, UploadReturns, UnlockAccepted, Recovered, SetupAccepted, BindingSaved,
     ImportReturns, WizardReturns, PasswordEntered
<1>2. ~Silent /\ stack # <<>>
  BY <1>1, AwakeWhen DEF Top
<1>3. \E f \in {"read", "upload", "unlock", "binding", "confirm"} :
        stack' = stack \/ stack' = Under \/ stack' = Append(Under, f)
  BY Zenon DEF ReadReturns, UploadReturns, UnlockAccepted, Recovered, SetupAccepted, BindingSaved,
     ImportReturns, WizardReturns, PasswordEntered, Unlocked
<1>4. Follows(stack')
  BY <1>2, <1>3, SameFollows, UnderFollows, ReplacedFollows DEF IInv, Frame, Syncing, Changing
<1>5. \/ files' = files \/ files' = Wrote({"master", "migration"}) \/ files' = Wrote({"token"})
      \/ files' = Wrote({"master"}) \/ files' = Wrote({"binding"})
  BY Zenon DEF ReadReturns, UploadReturns, UnlockAccepted, Recovered, SetupAccepted, BindingSaved,
     ImportReturns, WizardReturns, PasswordEntered, durable
<1>6. files' \in [File -> {0, era}]
  BY <1>5, WroteFiles DEF IInv, Files
<1>7. UNCHANGED <<app, erasing, marker, era, flow>> /\ (pending' = pending \/ pending' = FALSE)
  BY Zenon DEF ReadReturns, UploadReturns, UnlockAccepted, Recovered, SetupAccepted, BindingSaved,
     ImportReturns, WizardReturns, PasswordEntered, Unlocked, durable
<1>8. flow' \in Flows
  BY <1>7 DEF IInv
<1>9. pending' => pending
  BY <1>7, Zenon
<1> QED
  BY <1>2, <1>4, <1>6, <1>7, <1>8, <1>9, StaysAwake

\* The code is exchanged while the wizard may lie under other loops.
LEMMA GrantIsSafe == IInv /\ WizardSucceeds => IInv'
<1> SUFFICES ASSUME IInv, WizardSucceeds PROVE IInv'
  OBVIOUS
<1>1. PICK k \in DOMAIN stack : stack[k] = "wizard" /\ stack' = [stack EXCEPT ![k] = "granted"]
  BY DEF WizardSucceeds
<1>2. stack \in Seq(Frame)
  BY DEF IInv
<1>3. ~Silent
  BY <1>1, <1>2 DEF IInv, Silenced
<1>4. Follows(stack')
  BY <1>1, <1>2, <1>3, SameFollows DEF Follows, Frame, Syncing, Changing
<1>5. files' \in [File -> {0, era}]
  BY WroteFiles DEF WizardSucceeds, IInv
<1> QED
  BY <1>3, <1>4, <1>5, StaysAwake DEF WizardSucceeds, IInv

\* A lock: in a flow it adds no loop, otherwise a prompt.
LEMMA LocksFollow ==
  ASSUME NEW f, NEW s, NEW u, Locks(f, s, u)
  PROVE  \/ stack' = s
         \/ \E p \in {"recover", "unlock"} : stack' = Append(s, p)
BY DEF Locks, Prompt

LEMMA LockIsSafe == IInv /\ (Lock \/ (CloseWindow /\ InFlow)) => IInv'
<1> SUFFICES ASSUME IInv, Lock \/ (CloseWindow /\ InFlow) PROVE IInv'
  OBVIOUS
<1>1. ~Silent
  BY AwakeWhen DEF Lock, CloseWindow
<1>2. stack' = stack \/ \E u : Locks(flow, stack, u)
  BY Zenon DEF Lock, CloseWindow, DefersLock
<1>3. stack' = stack \/ \E p \in {"recover", "unlock"} : stack' = Append(stack, p)
  BY <1>2, LocksFollow
<1>4. Follows(stack')
  BY <1>1, <1>3, SameFollows, EnteredFollows DEF IInv, Frame, Changing
<1>5. UNCHANGED <<app, erasing, marker, era, files, pending>>
  BY Zenon DEF Lock, CloseWindow, durable
<1>6. flow' \in Flows /\ flow'.migration = flow.migration /\ flow'.resetting = flow.resetting
  <2>1. flow' = flow \/ flow' = [flow EXCEPT !.exit = TRUE]
    BY Zenon DEF Lock, CloseWindow
  <2> QED
    BY <2>1 DEF IInv, Flows
<1>7. files' \in [File -> {0, era}] /\ (pending' => pending)
  BY <1>5 DEF IInv, Files
<1> QED
  BY <1>1, <1>4, <1>5, <1>6, <1>7, StaysAwake

\* The process ends, also in the middle of a change of the password: then there
\* is no marker.
LEMMA EndIsSafe ==
  ASSUME IInv, PromptClosed \/ ReadReturnsDangling \/ Crash \/ (CloseWindow /\ ~InFlow)
  PROVE  IInv'
<1>1. Ended /\ UNCHANGED <<marker, era>>
  BY Zenon DEF PromptClosed, ReadReturnsDangling, Crash, CloseWindow, durable
<1>2. files' = files \/ files' = Wrote({"migration"})
  BY Zenon DEF PromptClosed, ReadReturnsDangling, Crash, CloseWindow, durable
<1>3. files' \in [File -> {0, era}]
  BY <1>2, WroteFiles DEF IInv, Files
<1>4. marker # "absent" => ~pending'
  <2> SUFFICES ASSUME marker # "absent" PROVE ~pending'
    OBVIOUS
  <2>1. ~pending /\ ~InStack(Changing) /\ stack \in Seq(Frame)
    BY DEF IInv, Undisturbed
  <2>2. Top # "changing"
    BY <2>1 DEF InStack, Top, Changing
  <2>3. pending' = pending
    BY <2>2, Zenon DEF PromptClosed, ReadReturnsDangling, Crash, CloseWindow, durable
  <2> QED
    BY <2>1, <2>3
<1> QED
  BY <1>1, <1>3, <1>4, FallsAsleep

\* With no marker on the disk the password may be changed.
LEMMA StaysUnmarked ==
  ASSUME IInv, ~Silent, marker = "absent", UNCHANGED <<app, erasing, marker, era>>,
         files' \in [File -> {0, era}], flow' \in Flows, stack' \in Seq(Frame),
         \A k \in DOMAIN stack' : stack'[k] # "retry",
         InStack(Changing)' => flow'.migration,
         \A j, k \in DOMAIN stack' : stack'[j] \in Changing /\ stack'[k] \in Changing => j = k
  PROVE  IInv'
<1>1. ~Silent'
  BY DEF Silent, Running, InStack
<1>2. Files' /\ Gone'
  BY DEF IInv, Files, Gone, Silent, Deleted
<1>3. Silenced'
  BY <1>1 DEF Silenced, Silent
<1>4. Undisturbed'
  BY DEF Undisturbed
<1> QED
  BY <1>2, <1>3, <1>4 DEF IInv

\* Where the password is changed there is no marker and no other change.
LEMMA OneChange ==
  ASSUME IInv, Top \in Changing
  PROVE  /\ marker = "absent" /\ ~Silent /\ stack # <<>> /\ flow.migration
         /\ \A k \in DOMAIN Under : Under[k] \notin Changing /\ Under[k] # "retry"
<1>1. ~Silent /\ stack # <<>> /\ stack \in Seq(Frame)
  BY AwakeWhen DEF Changing, Top, IInv
<1>2. Len(stack) \in DOMAIN stack /\ stack[Len(stack)] \in Changing
  BY <1>1 DEF Top
<1>3. InStack(Changing) /\ ~InStack({"retry"})
  BY <1>1, <1>2 DEF InStack, Silent
<1>4. /\ marker = "absent" /\ flow.migration
      /\ \A j, k \in DOMAIN stack : stack[j] \in Changing /\ stack[k] \in Changing => j = k
  BY <1>3 DEF IInv, Undisturbed
<1>5. \A k \in DOMAIN Under : k \in DOMAIN stack /\ k # Len(stack) /\ Under[k] = stack[k]
  BY <1>1, UnderStack
<1>6. \A k \in DOMAIN Under : Under[k] \notin Changing
  BY <1>2, <1>4, <1>5
<1>7. \A k \in DOMAIN Under : Under[k] # "retry"
  BY <1>3, <1>5 DEF InStack
<1> QED
  BY <1>1, <1>4, <1>6, <1>7

LEMMA ChangeClickIsSafe == IInv /\ ChangeMasterPassword => IInv'
<1> SUFFICES ASSUME IInv, ChangeMasterPassword PROVE IInv'
  OBVIOUS
<1>1. ~Silent /\ Running /\ ~flow.migration /\ ~flow.resetting
  BY AwakeWhen DEF ChangeMasterPassword, Clickable, InFlow
<1>2. marker = "absent" /\ ~InStack(Changing) /\ ~InStack({"retry"}) /\ stack \in Seq(Frame)
  BY <1>1 DEF IInv, Undisturbed, Silent
<1>3. stack' = Append(stack, "changeDialog")
  BY DEF ChangeMasterPassword, Entered
<1>4. /\ stack' \in Seq(Frame)
      /\ \A k \in DOMAIN stack' : stack'[k] # "retry" /\ (stack'[k] \in Changing => k = Len(stack) + 1)
  BY <1>2, <1>3 DEF InStack, Frame
<1>5. flow' \in Flows /\ flow'.migration
  BY DEF ChangeMasterPassword, IInv, Flows
<1>6. UNCHANGED <<app, erasing, marker, era>> /\ files' \in [File -> {0, era}]
  BY DEF ChangeMasterPassword, durable, IInv, Files
<1> QED
  BY <1>1, <1>2, <1>4, <1>5, <1>6, StaysUnmarked

LEMMA ChangeBeginsIsSafe == IInv /\ ChangeBegins => IInv'
<1> SUFFICES ASSUME IInv, ChangeBegins PROVE IInv'
  OBVIOUS
<1>1. Top = "changeDialog" /\ stack' = Append(Under, "changing")
  BY DEF ChangeBegins
<1>2. /\ marker = "absent" /\ ~Silent /\ stack # <<>> /\ flow.migration
      /\ \A k \in DOMAIN Under : Under[k] \notin Changing /\ Under[k] # "retry"
  BY <1>1, OneChange DEF Changing
<1>3. Under \in Seq(Frame)
  BY <1>2, UnderStack DEF IInv
<1>4. /\ stack' \in Seq(Frame)
      /\ \A k \in DOMAIN stack' : stack'[k] # "retry" /\ (stack'[k] \in Changing => k = Len(Under) + 1)
  BY <1>1, <1>2, <1>3 DEF Frame
<1>5. UNCHANGED <<app, erasing, marker, era, flow>>
  BY DEF ChangeBegins
<1>6. files' \in [File -> {0, era}]
  BY WroteFiles DEF ChangeBegins, IInv, Files
<1>7. flow' \in Flows /\ flow'.migration
  BY <1>2, <1>5 DEF IInv
<1> QED
  BY <1>2, <1>4, <1>5, <1>6, <1>7, StaysUnmarked

\* However it ends: with the window, with the prompt, or with the process.
LEMMA ChangeEndsIsSafe == IInv /\ (ChangeDeclined \/ ChangeReturns) => IInv'
<1> SUFFICES ASSUME IInv, ChangeDeclined \/ ChangeReturns PROVE IInv'
  OBVIOUS
<1>1. Top \in Changing /\ UNCHANGED <<marker, era>>
  BY DEF ChangeDeclined, ChangeReturns, Changing, durable
<1>2. files' = files \/ files' = Wrote({"master", "migration"}) \/ files' = Wrote({"migration"})
  BY Zenon DEF ChangeDeclined, ChangeReturns, durable
<1>3. files' \in [File -> {0, era}]
  BY <1>2, WroteFiles DEF IInv, Files
<1>4. EndsChange(TRUE) \/ EndsChange(FALSE)
  BY Zenon DEF ChangeDeclined, ChangeReturns
<1>5. /\ marker = "absent" /\ ~Silent /\ stack # <<>>
      /\ \A k \in DOMAIN Under : Under[k] \notin Changing /\ Under[k] # "retry"
  BY <1>1, OneChange
<1>6. CASE flow.exit
  <2>1. Ended
    BY <1>4, <1>6, Zenon DEF EndsChange
  <2> QED
    BY <1>1, <1>3, <1>5, <2>1, FallsAsleep
<1>7. CASE ~flow.exit
  <2>1. \/ stack' = Under
        \/ \E p \in {"recover", "unlock"} : stack' = Append(Under, p)
    BY <1>4, <1>7, LocksFollow, Zenon DEF EndsChange
  <2>2. Under \in Seq(Frame)
    BY <1>5, UnderStack DEF IInv
  <2>3. /\ stack' \in Seq(Frame)
        /\ \A k \in DOMAIN stack' : stack'[k] # "retry" /\ stack'[k] \notin Changing
    BY <1>5, <2>1, <2>2 DEF Frame, Changing
  <2>4. flow' = [flow EXCEPT !.migration = FALSE] /\ UNCHANGED <<app, erasing>>
    BY <1>4, <1>7, Zenon DEF EndsChange
  <2>5. flow' \in Flows
    BY <2>4 DEF IInv, Flows
  <2> QED
    BY <1>1, <1>3, <1>5, <2>3, <2>4, <2>5, StaysUnmarked DEF InStack
<1> QED
  BY <1>6, <1>7

-----------------------------------------------------------------------------
(* The reset.                                                               *)

LEMMA RequestIsSafe ==
  ASSUME IInv, RequestLocalReset \/ (ResetNotStarted /\ ~flow.exit)
  PROVE  IInv'
<1>1. ~Silent /\ (ResetNotStarted => stack # <<>>)
  BY AwakeWhen DEF RequestLocalReset, ResetNotStarted, Clickable, Top
<1>2. \/ stack' = Append(stack, "password")
      \/ stack # <<>> /\ (stack' = Under \/ \E p \in {"recover", "unlock"} : stack' = Append(Under, p))
  BY <1>1, Zenon DEF RequestLocalReset, ResetNotStarted, Entered, Prompt
<1>3. Follows(stack')
  BY <1>1, <1>2, EnteredFollows, UnderFollows, ReplacedFollows DEF IInv, Frame, Changing
<1>4. flow' \in Flows /\ flow'.migration = flow.migration /\ flow'.resetting = flow.resetting
  <2>1. flow' = [flow EXCEPT !.confirming = TRUE, !.exit = FALSE] \/ flow' = [flow EXCEPT !.confirming = FALSE]
    BY Zenon DEF RequestLocalReset, ResetNotStarted
  <2> QED
    BY <2>1 DEF IInv, Flows
<1>5. UNCHANGED <<app, erasing, durable>>
  BY Zenon DEF RequestLocalReset, ResetNotStarted
<1>6. files' \in [File -> {0, era}] /\ UNCHANGED <<marker, era>> /\ (pending' => pending)
  BY <1>5 DEF IInv, Files, durable
<1> QED
  BY <1>1, <1>3, <1>4, <1>5, <1>6, StaysAwake

\* The marker is written only when no change of the password runs or is
\* unfinished; from then on the flow says so.
LEMMA BeginIsSafe == IInv /\ ResetBegins => IInv'
<1> SUFFICES ASSUME IInv, ResetBegins PROVE IInv'
  OBVIOUS
<1>1. /\ Top = "confirm" /\ stack' = Under /\ ~pending /\ ~flow.migration
      /\ flow' = [flow EXCEPT !.confirming = FALSE, !.resetting = TRUE, !.posted = TRUE]
      /\ UNCHANGED <<files, era, pending, app, erasing>>
  BY DEF ResetBegins, Eligible, Quiet, Begin
<1>2. ~Silent /\ stack # <<>>
  BY <1>1, AwakeWhen DEF Top
<1>3. Follows(stack')
  BY <1>1, <1>2, UnderFollows DEF IInv
<1>4. ~InStack(Changing) /\ ~InStack(Changing)'
  BY <1>1, <1>3 DEF IInv, Undisturbed, InStack, Follows
<1>5. flow' \in Flows /\ flow'.resetting
  BY <1>1 DEF IInv, Flows
<1>6. ~Silent'
  BY <1>1, <1>2, <1>3 DEF Silent, Running, InStack, Follows
<1>7. stack' \in Seq(Frame) /\ Files' /\ Gone'
  BY <1>1, <1>2, <1>3 DEF IInv, Files, Gone, Silent, Follows, Deleted
<1>8. Silenced'
  BY <1>6 DEF Silenced, Silent
<1>9. Undisturbed'
  BY <1>1, <1>4, <1>5, Zenon DEF Undisturbed, InStack
<1> QED
  BY <1>5, <1>7, <1>8, <1>9 DEF IInv

LEMMA ReleaseIsSafe == IInv /\ ReleaseRuntime => IInv'
<1> SUFFICES ASSUME IInv, ReleaseRuntime PROVE IInv'
  OBVIOUS
<1>1. /\ Running /\ stack = <<>> /\ DOMAIN stack = {} /\ Released
      /\ flow' = [flow EXCEPT !.posted = FALSE] /\ UNCHANGED <<marker, era, pending, app>>
  BY DEF ReleaseRuntime
<1>2. ~Silent /\ erasing = 0
  BY AwakeWhen DEF ReleaseRuntime, Silent
<1>3. \/ stack' = <<>> /\ erasing' = 1
      \/ stack' = <<"retry">> /\ erasing' = 0
  BY <1>1, <1>2 DEF ReleaseRuntime, Entered
<1>4. flow' \in Flows /\ ~flow'.posted /\ flow'.resetting = flow.resetting
  BY <1>1 DEF IInv, Flows
<1>5. Files'
  BY <1>1 DEF ReleaseRuntime, IInv, Files
<1>6. stack' \in Seq(Frame) /\ Gone'
  <2>1. DOMAIN Deleted = 1..6 /\ Len(Deleted) = 6
    BY DEF Deleted
  <2>2. stack' \in Seq(Frame)
    BY <1>3, SmallStacks
  <2>3. erasing' \in 0..8 /\ erasing' # 8 /\ \A k \in 1..6 : ~(k < erasing')
    BY <1>3
  <2> QED
    BY <2>1, <2>2, <2>3 DEF Gone
<1>7. Silenced'
  BY <1>1, <1>3, <1>4 DEF Silenced, Released, Locked, Running
<1>8. ~InStack(Changing)'
  BY <1>3, SmallStacks
<1>9. Undisturbed'
  BY <1>1, <1>4, <1>8 DEF IInv, Undisturbed, InStack, Running
<1> QED
  BY <1>4, <1>5, <1>6, <1>7, <1>9 DEF IInv

LEMMA StaysSilent ==
  ASSUME IInv, Silent, UNCHANGED <<app, session, flow, sched, window, account, pending>>,
         Files', Gone', marker' \in {marker, "absent"}, Running,
         stack' = <<>> \/ (stack' = <<"retry">> /\ erasing' = 0)
  PROVE  IInv'
<1>1. stack' \in Seq(Frame) /\ ~InStack(Changing)'
  BY SmallStacks
<1>2. Silenced'
  BY DEF IInv, Silenced, Running
<1>3. Undisturbed'
  BY <1>1 DEF IInv, Undisturbed, InStack, Running
<1> QED
  BY <1>1, <1>2, <1>3 DEF IInv

\* One more file is gone; when all are, the next vault's era may begin.
LEMMA EraseIsSafe == IInv /\ Erase => IInv'
<1> SUFFICES ASSUME IInv, Erase PROVE IInv'
  OBVIOUS
<1>1. /\ Running /\ Silent /\ stack = <<>> /\ erasing' = erasing + 1
      /\ UNCHANGED <<app, stack, session, flow, sched, window, account, pending>>
  BY DEF Erase, Silent, IInv, Silenced, RemoveFile, RemoveMarker
<1>2. CASE erasing \in 1..Len(Deleted) /\ RemoveFile(erasing)
  <2>1. Files'
    BY <1>2 DEF RemoveFile, IInv, Files
  <2>2. Gone'
    BY <1>1, <1>2 DEF RemoveFile, IInv, Files, Gone, Deleted, File
  <2>3. marker' = marker
    BY <1>2 DEF RemoveFile
  <2> QED
    BY <1>1, <2>1, <2>2, <2>3, StaysSilent
<1>3. CASE erasing = Len(Deleted) + 1 /\ RemoveMarker
  <2>1. \A f \in File : files[f] = 0
    BY <1>3 DEF IInv, Gone, Deleted, File
  <2>2. Files'
    BY <1>3, <2>1 DEF RemoveMarker, IInv, Files
  <2>3. Gone'
    BY <1>1, <1>3 DEF RemoveMarker, IInv, Gone, Deleted
  <2>4. marker' = "absent"
    BY <1>3 DEF RemoveMarker
  <2> QED
    BY <1>1, <2>2, <2>3, <2>4, StaysSilent
<1> QED
  BY <1>2, <1>3 DEF Erase, IInv, Gone, Deleted

LEMMA InterruptionIsSafe == IInv /\ (EraseFails \/ RetryReset) => IInv'
<1> SUFFICES ASSUME IInv, EraseFails \/ RetryReset PROVE IInv'
  OBVIOUS
<1>1. CASE EraseFails
  <2>1. /\ Silent /\ Running /\ stack' = <<"retry">> /\ erasing' = 0
        /\ UNCHANGED <<app, session, flow, sched, window, account, durable>>
    <3>1. erasing # 0 /\ Silent /\ Running /\ erasing' = 0 /\ stack' = Append(stack, "retry")
          /\ UNCHANGED <<app, session, flow, sched, window, account, durable>>
      BY <1>1 DEF EraseFails, Silent, Entered, Deleted
    <3>2. stack = <<>>
      BY <3>1 DEF IInv, Silenced
    <3> QED
      BY <3>1, <3>2, SmallStacks
  <2>2. Files' /\ Gone'
    BY <2>1 DEF IInv, Files, Gone, Deleted, durable
  <2> QED
    BY <2>1, <2>2, StaysSilent DEF durable
<1>2. CASE RetryReset
  <2>1. Top = "retry" /\ Running /\ stack # <<>> /\ stack \in Seq(Frame) /\ UNCHANGED durable
    BY <1>2 DEF RetryReset, Top, IInv
  <2>2. Silent
    BY <2>1 DEF Silent, InStack, Top
  <2>3. stack = <<"retry">>
    BY <2>1, <2>2 DEF IInv, Silenced
  <2>4. CASE Ended
    BY <2>1, <2>4, FallsAsleep DEF IInv, Files, Undisturbed, durable
  <2>5. CASE erasing' = 1 /\ stack' = Under
             /\ UNCHANGED <<app, session, flow, sched, held, window, account, armed, clip, owed>>
    <3>1. stack' = <<>>
      BY <2>3, <2>5 DEF Under
    <3>2. Files' /\ Gone'
      BY <2>1, <2>5 DEF IInv, Files, Gone, Deleted, durable
    <3> QED
      BY <2>1, <2>2, <2>5, <3>1, <3>2, StaysSilent DEF durable
  <2> QED
    BY <1>2, <2>4, <2>5, Zenon DEF RetryReset
<1> QED
  BY <1>1, <1>2

-----------------------------------------------------------------------------
(* The start.                                                               *)

\* Only an installation that sees no marker initialises.
LEMMA InitializesIsSafe ==
  ASSUME IInv, NEW i, i # NoApp, Silent, marker = "absent", Initializes(i)
  PROVE  IInv'
<1>1. /\ app' = i /\ flow' = NoFlow /\ erasing' = 0
      /\ \E f \in {"setup", "recover", "unlock"} : stack' = <<f>>
      /\ UNCHANGED <<marker, era, pending>>
  BY DEF Initializes, Prompt
<1>2. PICK f \in {"setup", "recover", "unlock"} : stack' = <<f>>
  BY <1>1
<1>3. /\ stack' \in Seq(Frame) /\ DOMAIN stack' = {1} /\ stack'[1] = f
      /\ f \notin Changing \cup {"retry"}
  BY <1>2 DEF Frame, Changing
<1>4. Running' /\ ~Silent' /\ ~InStack(Changing)'
  BY <1>1, <1>3 DEF Silent, Running, InStack
<1>5. flow' \in Flows /\ marker' = "absent" /\ erasing' = 0
  BY <1>1 DEF NoFlow, Flows
<1>6. Files'
  BY <1>1, WroteFiles DEF Initializes, IInv, Files
<1>7. Gone' /\ Silenced' /\ Undisturbed'
  BY <1>3, <1>4, <1>5 DEF Gone, Silenced, Undisturbed, Silent, Deleted
<1> QED
  BY <1>3, <1>5, <1>6, <1>7 DEF IInv

LEMMA StartIsSafe ==
  ASSUME IInv, NEW i \in Installation, Start(i) \/ StartResumes(i)
  PROVE  IInv'
<1>1. i # NoApp /\ i # "absent"
  BY InstallationAssumption DEF NoApp
<1>2. ~Running /\ Silent /\ stack = <<>>
  BY DEF Start, StartResumes, Silent, IInv, Silenced
<1>3. CASE Start(i)
  <2>1. marker = "absent" /\ Initializes(i)
    BY <1>1, <1>3 DEF Start, Inspect
  <2> QED
    BY <1>1, <1>2, <2>1, InitializesIsSafe
<1>4. CASE StartResumes(i)
  <2>1. /\ app' = i /\ flow' = [NoFlow EXCEPT !.resetting = TRUE] /\ erasing' = 1
        /\ UNCHANGED <<durable, stack, session, sched, window, account>>
    BY <1>4 DEF StartResumes
  <2>2. Running' /\ flow' \in Flows /\ flow'.resetting /\ ~flow'.posted
    BY <1>1, <2>1 DEF Running, NoFlow, Flows
  <2>3. Files' /\ Gone'
    <3>1. DOMAIN Deleted = 1..6 /\ Len(Deleted) = 6
      BY DEF Deleted
    <3>2. erasing' \in 0..8 /\ erasing' # 8 /\ \A k \in 1..6 : ~(k < erasing')
      BY <2>1
    <3> QED
      BY <2>1, <3>1, <3>2 DEF IInv, Files, Gone, durable
  <2>4. stack' \in Seq(Frame) /\ ~InStack(Changing)'
    BY <1>2, <2>1, SmallStacks
  <2>5. Silenced'
    BY <1>2, <2>1, <2>2 DEF IInv, Silenced
  <2>6. Undisturbed'
    BY <2>1, <2>2, <2>4 DEF IInv, Undisturbed, InStack, durable
  <2> QED
    BY <2>2, <2>3, <2>4, <2>5, <2>6 DEF IInv
<1> QED
  BY <1>3, <1>4

\* The last step of the erasing: the marker is gone by then.
LEMMA ResetReturnsIsSafe == IInv /\ ResetReturns => IInv'
<1> SUFFICES ASSUME IInv, ResetReturns PROVE IInv'
  OBVIOUS
<1>1. Running /\ erasing = Len(Deleted) + 2 /\ Initializes(app)
  BY DEF ResetReturns
<1>2. marker = "absent" /\ erasing # 0 /\ app # NoApp
  BY <1>1 DEF IInv, Gone, Deleted, Running
<1> QED
  BY <1>1, <1>2, InitializesIsSafe DEF Silent

LEMMA StepIsSafe == IInv /\ [Next]_vars => IInv'
<1> SUFFICES ASSUME IInv, [Next]_vars PROVE IInv'
  OBVIOUS
<1>1. CASE \E i \in Installation : Start(i) \/ StartResumes(i)
  BY <1>1, StartIsSafe
<1>2. CASE \/ Edit \/ ChangeSettings \/ ImportClick \/ ConnectClick \/ Disconnect
           \/ LookupRuns \/ LookupReturns \/ RevokeReturns \/ OnTimeout \/ SyncImmediately
  BY <1>2, WorkIsSafe
<1>3. CASE \/ ReadReturns \/ UploadReturns \/ UnlockAccepted \/ Recovered \/ SetupAccepted
           \/ BindingSaved \/ ImportReturns \/ WizardReturns \/ PasswordEntered
  BY <1>3, ReturnIsSafe
<1>4. CASE WizardSucceeds
  BY <1>4, GrantIsSafe
<1>5. CASE Lock \/ CloseWindow \/ PromptClosed \/ ReadReturnsDangling \/ Crash
  BY <1>5, LockIsSafe, EndIsSafe
<1>6. CASE ChangeMasterPassword \/ ChangeBegins \/ ChangeDeclined \/ ChangeReturns
  BY <1>6, ChangeClickIsSafe, ChangeBeginsIsSafe, ChangeEndsIsSafe
<1>7. CASE RequestLocalReset
  BY <1>7, RequestIsSafe
<1>8. CASE ResetNotStarted
  <2>1. CASE ~flow.exit
    BY <1>8, <2>1, RequestIsSafe
  <2>2. CASE flow.exit
    BY <1>8, <2>2, FallsAsleep DEF ResetNotStarted, durable, IInv, Files, Undisturbed
  <2> QED
    BY <2>1, <2>2
<1>9. CASE ResetBegins \/ ReleaseRuntime \/ Erase \/ EraseFails \/ RetryReset \/ ResetReturns
  BY <1>9, BeginIsSafe, ReleaseIsSafe, EraseIsSafe, InterruptionIsSafe, ResetReturnsIsSafe
<1>10. CASE CopySecret \/ ClipboardTimeout \/ UNCHANGED vars
  BY <1>10, Elsewhere, Zenon DEF CopySecret, ClipboardTimeout, vars, process
<1> QED
  BY <1>1, <1>2, <1>3, <1>4, <1>5, <1>6, <1>7, <1>8, <1>9, <1>10, Zenon DEF Next

LEMMA AlwaysSafe == Spec => []IInv
BY InitiallySilent, StepIsSafe, PTL DEF Spec

\* LocalReset::Resume and the flows around it: whatever crash, failing deletion or
\* other installation comes between two deletions, the next vault begins without
\* a file of the one before.
THEOREM NothingOfAClearedVault == Spec => []OneVault
<1>1. IInv => OneVault
  BY DEF IInv, Files, OneVault
<1> QED
  BY <1>1, AlwaysSafe, PTL

\* Application's flags and the eligibility of a reset: while files are erased the
\* session is locked, the window gone and no request or change under way, and a
\* program that found or wrote the marker does nothing but reset.
THEOREM NothingWritesWhileErasing == Spec => []ErasesAlone
<1>1. IInv => ErasesAlone
  <2> SUFFICES ASSUME IInv PROVE ErasesAlone
    OBVIOUS
  <2>1. marker # "absent" => ~pending /\ (flow.resetting \/ ~Running)
    BY DEF IInv, Undisturbed
  <2>2. ASSUME erasing # 0
        PROVE  ~session.open /\ window = NoWindow /\ ~Busy /\ ~OAuthBusy
    <3>1. ~session.open /\ window = NoWindow /\ account = NoAccount /\ stack = <<>>
      BY <2>2 DEF IInv, Silenced, Silent
    <3> QED
      BY <3>1 DEF Busy, OAuthBusy, InStack, NoAccount
  <2> QED
    BY <2>1, <2>2 DEF ErasesAlone
<1> QED
  BY <1>1, AlwaysSafe, PTL
=============================================================================
