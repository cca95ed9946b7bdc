---------------------------- MODULE SessionProofs ----------------------------
(***************************************************************************)
(* For any number of installations and of vaults: however locks, closed     *)
(* windows, failing flows and crashes follow one another, a locked program  *)
(* asks for the password, shows nothing and keeps no secret; an open one    *)
(* can be used; and an edit is remembered until a synchronisation takes it. *)
(*                                                                         *)
(* None of this is inductive by itself. A lock acts differently in a flow,  *)
(* so the invariant ties the flags of the application to the loops it runs  *)
(* (Frames): at most one loop that asks for a password or changes it, and   *)
(* each flag exactly while its loop is there to reset it. Windowed says     *)
(* what the window, the clipboard and the timer are in each state of the    *)
(* session, Resumable why what a flow pauses is resumed by the flow's end   *)
(* or, when a lock came first, by the next unlock.                          *)
(***************************************************************************)
EXTENDS LifetimeProofs

Prompts == {"setup", "binding", "unlock", "recover"}
Asking == {"password", "confirm"}
Single == Prompts \cup Asking \cup Changing

Alone == \A j, k \in DOMAIN stack : stack[j] \in Single /\ stack[k] \in Single => j = k

Frames ==
  /\ Alone
  /\ InStack(Prompts) => ~session.open /\ ~InFlow
  /\ InStack(Asking) => flow.confirming
  /\ flow.confirming => ~flow.migration /\ ~flow.resetting
  /\ flow.migration => ~flow.resetting /\ session.changing
  /\ session.changing => flow.migration /\ session.open
  /\ session.lockReq => session.changing
  /\ flow.posted => flow.resetting
  /\ Running /\ ~session.open /\ ~InFlow => InStack(Prompts)

Windowed ==
  /\ ~session.open => window.state # "shown" /\ window.key = "none" /\ ~clip /\ ~armed
  /\ session.open => /\ window.state = "shown"
                     /\ armed \/ session.lockReq
                     /\ flow.migration \/ window.key = "live"
                     /\ InFlow \/ window.enabled
  /\ flow.confirming \/ flow.migration => window.state # "none"

\* What is owed is kept by the timer or by the flag of a paused scheduler.
Kept(s) == s.provider /\ (s.timer \/ (s.paused /\ s.dirty))

Resumable ==
  /\ sched.paused => InFlow \/ (~session.open /\ window.state # "none")
  /\ account.paused => flow.confirming \/ flow.resetting
  /\ owed => Kept(sched) /\ window.state # "none"

Bounded == InStack(Asking) \/ marker # "absent" => era < MaxVault

Scheduler == [paused : BOOLEAN, dirty : BOOLEAN, timer : BOOLEAN, provider : BOOLEAN]
Window == [state : {"none", "shown", "hidden"}, enabled : BOOLEAN, key : {"none", "live"}]
Client == [paused : BOOLEAN, lookup : {"none", "posted", "flying"}, revoking : BOOLEAN]

Typed ==
  /\ sched \in Scheduler /\ window \in Window /\ account \in Client
  /\ held \in {"none", "live", "freed"}
  /\ armed \in BOOLEAN /\ clip \in BOOLEAN /\ owed \in BOOLEAN
  /\ marker \in Installation \cup {"absent"} /\ era \in 1..MaxVault /\ pending \in BOOLEAN

SessionInv == Typed /\ Frames /\ Windowed /\ Resumable /\ Bounded

-----------------------------------------------------------------------------
(* The loops: what a step does to those of which there is at most one.      *)

SameKinds ==
  /\ Alone'
  /\ InStack(Prompts)' <=> InStack(Prompts)
  /\ InStack(Asking)' <=> InStack(Asking)

LEMMA KindsOfLoops ==
  /\ Prompts \subseteq Single /\ Asking \subseteq Single /\ Changing \subseteq Single
  /\ Prompts \cap Asking = {} /\ Single \subseteq Frame
  /\ \A f \in {"main", "read", "upload", "import", "wizard", "granted", "retry"} : f \notin Single
BY DEF Prompts, Asking, Changing, Single, Frame, Syncing

LEMMA NoLoopMoves ==
  ASSUME Alone, UNCHANGED stack
  PROVE  SameKinds
BY DEF Alone, SameKinds, InStack

LEMMA OtherLoopEnters ==
  ASSUME stack \in Seq(Frame), Alone, NEW f \in Frame \ Single, stack' = Append(stack, f)
  PROVE  SameKinds
<1>1. /\ DOMAIN stack' = 1..Len(stack) + 1 /\ DOMAIN stack = 1..Len(stack) /\ Len(stack) \in Nat
      /\ stack'[Len(stack) + 1] = f /\ \A k \in 1..Len(stack) : stack'[k] = stack[k]
  OBVIOUS
<1>2. Alone'
  BY <1>1 DEF Alone
<1>3. ASSUME NEW S, S \subseteq Single
      PROVE  InStack(S)' <=> InStack(S)
  <2>1. f \notin S
    BY <1>3
  <2> QED
    BY <1>1, <2>1 DEF InStack
<1> QED
  BY <1>2, <1>3, KindsOfLoops DEF SameKinds

LEMMA OtherLoopReturns ==
  ASSUME stack \in Seq(Frame), stack # <<>>, Alone, Top \notin Single,
         stack' = Under \/ \E f \in Frame \ Single : stack' = Append(Under, f)
  PROVE  SameKinds
<1>1. /\ Under \in Seq(Frame) /\ DOMAIN Under = 1..Len(stack) - 1 /\ Len(stack) \in Nat
      /\ DOMAIN stack = 1..Len(stack)
      /\ \A k \in DOMAIN Under : k \in DOMAIN stack /\ Under[k] = stack[k]
      /\ stack[Len(stack)] \notin Single
  BY UnderStack DEF Top
<1>2. \A k \in DOMAIN stack' : stack'[k] \notin Single \/ (k \in DOMAIN Under /\ stack'[k] = Under[k])
  BY <1>1
<1>3. \A k \in DOMAIN Under : k \in DOMAIN stack' /\ stack'[k] = Under[k]
  BY <1>1
<1>4. \A k \in DOMAIN stack' : stack'[k] \in Single => k \in DOMAIN stack /\ stack'[k] = stack[k]
  BY <1>1, <1>2
<1>5. \A k \in DOMAIN stack : stack[k] \in Single => k \in DOMAIN stack' /\ stack'[k] = stack[k]
  BY <1>1, <1>3
<1>6. Alone'
  BY <1>4 DEF Alone
<1>7. ASSUME NEW S, S \subseteq Single
      PROVE  InStack(S)' <=> InStack(S)
  BY <1>4, <1>5, <1>7 DEF InStack
<1> QED
  BY <1>6, <1>7, KindsOfLoops DEF SameKinds

\* The one loop of its kind gives way to none.
LEMMA SingleReturns ==
  ASSUME stack \in Seq(Frame), Alone, Top \in Single
  PROVE  /\ stack # <<>> /\ Under \in Seq(Frame) /\ \A k \in DOMAIN Under : Under[k] \notin Single
         /\ \A S : S \subseteq Single => (InStack(S) <=> Top \in S)
<1>1. stack # <<>>
  BY DEF Top, Single, Prompts, Asking, Changing
<1>2. /\ Under \in Seq(Frame) /\ Len(stack) \in DOMAIN stack /\ stack[Len(stack)] = Top
      /\ \A k \in DOMAIN Under : k \in DOMAIN stack /\ k # Len(stack) /\ Under[k] = stack[k]
  BY <1>1, UnderStack DEF Top
<1> QED
  BY <1>1, <1>2 DEF Alone, InStack

LEMMA NoSingle ==
  ASSUME NEW s \in Seq(Frame), \A k \in DOMAIN s : s[k] \notin Single, stack' = s
  PROVE  Alone' /\ ~InStack(Prompts)' /\ ~InStack(Asking)'
BY KindsOfLoops DEF Alone, InStack

LEMMA NewSingle ==
  ASSUME NEW s \in Seq(Frame), \A k \in DOMAIN s : s[k] \notin Single,
         NEW f \in Single, stack' = Append(s, f)
  PROVE  /\ Alone'
         /\ InStack(Prompts)' <=> f \in Prompts
         /\ InStack(Asking)' <=> f \in Asking
<1>1. /\ DOMAIN stack' = 1..Len(s) + 1 /\ DOMAIN s = 1..Len(s) /\ Len(s) \in Nat
      /\ stack'[Len(s) + 1] = f /\ \A k \in 1..Len(s) : stack'[k] \notin Single
  BY KindsOfLoops
<1>2. Alone'
  BY <1>1 DEF Alone
<1>3. ASSUME NEW S, S \subseteq Single
      PROVE  InStack(S)' <=> f \in S
  BY <1>1, <1>3 DEF InStack
<1> QED
  BY <1>2, <1>3, KindsOfLoops

\* An open program without a flow is in none of these loops.
LEMMA OpenIsCalm ==
  ASSUME IInv, Frames, session.open, ~InFlow
  PROVE  /\ \A k \in DOMAIN stack : stack[k] \notin Single
         /\ ~session.changing /\ ~session.lockReq /\ ~flow.posted
<1>1. ~InStack(Prompts) /\ ~InStack(Asking) /\ ~InStack(Changing)
  BY DEF Frames, InFlow, IInv, Undisturbed
<1>2. \A k \in DOMAIN stack : stack[k] \notin Single
  BY <1>1 DEF InStack, Single
<1> QED
  BY <1>2 DEF Frames, InFlow

-----------------------------------------------------------------------------
(* The scheduler keeps what is owed.                                        *)

LEMMA Dirties ==
  ASSUME NEW s \in Scheduler
  PROVE  /\ Dirtied(s) \in Scheduler
         /\ Dirtied(s).paused = s.paused /\ Dirtied(s).provider = s.provider
         /\ s.provider => Kept(Dirtied(s))
BY DEF Dirtied, Scheduler, Kept

LEMMA Pauses ==
  ASSUME NEW s \in Scheduler
  PROVE  Paused(s, TRUE) \in Scheduler /\ (Kept(s) => Kept(Paused(s, TRUE)))
BY DEF Paused, Scheduler, Kept

LEMMA Resumes ==
  ASSUME NEW s \in Scheduler
  PROVE  /\ Paused(s, FALSE) \in Scheduler /\ ~Paused(s, FALSE).paused
         /\ Kept(s) => Kept(Paused(s, FALSE))
<1>1. CASE s.dirty
  <2> DEFINE t == [s EXCEPT !.paused = FALSE, !.dirty = FALSE]
  <2>1. t \in Scheduler /\ ~t.paused /\ t.provider = s.provider
    BY DEF Scheduler
  <2>2. Dirtied(t) \in Scheduler /\ ~Dirtied(t).paused /\ (t.provider => Kept(Dirtied(t)))
    BY <2>1, Dirties DEF Dirtied, Scheduler
  <2>3. Paused(s, FALSE) = Dirtied(t)
    BY <1>1 DEF Paused
  <2> QED
    BY <2>1, <2>2, <2>3 DEF Kept
<1>2. CASE ~s.dirty
  BY <1>2 DEF Paused, Scheduler, Kept
<1> QED
  BY <1>1, <1>2

-----------------------------------------------------------------------------
(* The steps.                                                               *)

\* A step that moves neither session, flow nor window.
LEMMA GoesOn ==
  ASSUME SessionInv, SameKinds, UNCHANGED <<app, session, flow, window, armed, era, marker>>,
         held' \in {"none", "live", "freed"}, pending' \in BOOLEAN,
         clip' \in BOOLEAN, clip' => clip \/ session.open,
         account' \in Client, account'.paused => account.paused,
         sched' \in Scheduler, sched'.paused => sched.paused,
         owed' \in BOOLEAN, owed' => Kept(sched') /\ window.state # "none"
  PROVE  SessionInv'
<1>1. Typed'
  BY DEF SessionInv, Typed
<1>2. Frames'
  BY DEF SessionInv, Frames, SameKinds, InFlow, Running
<1>3. Windowed'
  BY DEF SessionInv, Windowed, InFlow
<1>4. Resumable'
  BY DEF SessionInv, Resumable, InFlow
<1>5. Bounded'
  BY DEF SessionInv, Bounded, SameKinds
<1> QED
  BY <1>1, <1>2, <1>3, <1>4, <1>5 DEF SessionInv

\* Steps that leave the scheduler alone as well.
LEMMA GoesOnUnscheduled ==
  ASSUME SessionInv, SameKinds, UNCHANGED <<app, session, flow, window, armed, era, marker, sched, owed>>,
         held' \in {"none", "live", "freed"}, pending' \in BOOLEAN,
         clip' \in BOOLEAN, clip' => clip \/ session.open,
         account' \in Client, account'.paused => account.paused
  PROVE  SessionInv'
<1>1. sched' \in Scheduler /\ owed' \in BOOLEAN /\ (owed' => Kept(sched') /\ window.state # "none")
  BY DEF SessionInv, Typed, Resumable, Kept
<1> QED
  BY <1>1, GoesOn

\* Steps of the scheduler, of the vault's edits and of the account's provider.
LEMMA StartSyncs ==
  ASSUME SessionInv, stack \in Seq(Frame), StartSync
  PROVE  /\ SameKinds /\ held' \in {"none", "live", "freed"}
         /\ sched' \in Scheduler /\ sched'.paused = sched.paused /\ ~owed' /\ owed' \in BOOLEAN
<1>1. stack' = stack \/ stack' = Append(stack, "read")
  BY DEF StartSync, Entered
<1>2. SameKinds
  <2>1. "read" \in Frame \ Single
    BY KindsOfLoops DEF Frame, Syncing
  <2> QED
    BY <1>1, <2>1, NoLoopMoves, OtherLoopEnters DEF SessionInv, Frames
<1>3. held' \in {"none", "live", "freed"} /\ ~owed' /\ owed' \in BOOLEAN
  BY DEF StartSync, SessionInv, Typed
<1>4. sched' \in Scheduler /\ sched'.paused = sched.paused
  BY DEF StartSync, SessionInv, Typed, Scheduler
<1> QED
  BY <1>2, <1>3, <1>4

LEMMA SchedulerGoesOn ==
  ASSUME IInv, SessionInv, OnTimeout \/ SyncImmediately
  PROVE  SessionInv'
<1>1. /\ UNCHANGED <<durable, app, session, flow, window, account, armed, clip, erasing>>
      /\ \/ StartSync
         \/ sched' = Dirtied([sched EXCEPT !.timer = FALSE]) /\ UNCHANGED <<stack, held, owed>>
  BY Zenon DEF OnTimeout, SyncImmediately
<1>2. pending' \in BOOLEAN /\ clip' \in BOOLEAN /\ account' \in Client /\ UNCHANGED <<era, marker>>
  BY <1>1 DEF durable, SessionInv, Typed
<1>3. CASE StartSync
  BY <1>1, <1>2, <1>3, StartSyncs, GoesOn DEF IInv
<1>4. CASE sched' = Dirtied([sched EXCEPT !.timer = FALSE]) /\ UNCHANGED <<stack, held, owed>>
  <2> DEFINE s == [sched EXCEPT !.timer = FALSE]
  <2>1. s \in Scheduler /\ s.paused = sched.paused /\ s.provider = sched.provider
    BY DEF SessionInv, Typed, Scheduler
  <2>2. sched' \in Scheduler /\ sched'.paused = sched.paused /\ (sched.provider => Kept(sched'))
    BY <1>4, <2>1, Dirties
  <2>3. /\ SameKinds /\ held' \in {"none", "live", "freed"} /\ owed' \in BOOLEAN
        /\ owed' => sched.provider /\ window.state # "none"
    BY <1>4, NoLoopMoves DEF SessionInv, Frames, Typed, Resumable, Kept
  <2> QED
    BY <1>1, <1>2, <2>2, <2>3, GoesOn
<1> QED
  BY <1>1, <1>3, <1>4

\* An edit by the window or an import marks the scheduler dirty.
LEMMA EditGoesOn ==
  ASSUME IInv, SessionInv, Edit \/ ImportReturns
  PROVE  SessionInv'
<1>1. /\ UNCHANGED <<durable, app, session, flow, held, window, account, armed, clip, erasing>>
      /\ \/ UNCHANGED <<sched, owed>>
         \/ /\ window.state = "shown" \/ session.open
            /\ sched' = Dirtied(sched) /\ owed' = (owed \/ sched.provider)
  BY Zenon DEF Edit, ImportReturns, Clickable
<1>2. SameKinds
  <2>1. CASE Edit
    BY <2>1, NoLoopMoves DEF Edit, SessionInv, Frames
  <2>2. CASE ImportReturns
    BY <2>2, OtherLoopReturns, KindsOfLoops DEF ImportReturns, SessionInv, Frames, IInv, Top
  <2> QED
    BY <2>1, <2>2
<1>3. /\ pending' \in BOOLEAN /\ clip' \in BOOLEAN /\ account' \in Client /\ UNCHANGED <<era, marker>>
      /\ held' \in {"none", "live", "freed"}
  BY <1>1 DEF durable, SessionInv, Typed
<1>4. CASE UNCHANGED <<sched, owed>>
  BY <1>1, <1>2, <1>3, <1>4, GoesOnUnscheduled
<1>5. CASE /\ window.state = "shown" \/ session.open
           /\ sched' = Dirtied(sched) /\ owed' = (owed \/ sched.provider)
  <2>1. sched' \in Scheduler /\ sched'.paused = sched.paused /\ (sched.provider => Kept(sched'))
    BY <1>5, Dirties DEF SessionInv, Typed
  <2>2. owed' \in BOOLEAN /\ (owed' => sched.provider)
    BY <1>5 DEF SessionInv, Resumable, Kept, Typed, Scheduler
  <2>3. window.state # "none"
    BY <1>5 DEF SessionInv, Windowed
  <2> QED
    BY <1>1, <1>2, <1>3, <2>1, <2>2, <2>3, GoesOn
<1> QED
  BY <1>1, <1>4, <1>5

\* A provider comes with the wizard and goes, with what it was owed, when the
\* account is disconnected.
LEMMA ProviderGoesOn ==
  ASSUME IInv, SessionInv, WizardReturns \/ Disconnect
  PROVE  SessionInv'
<1>1. UNCHANGED <<marker, era, pending, app, session, flow, held, window, armed, clip, erasing>>
  BY Zenon DEF WizardReturns, Disconnect, durable
<1>2. SameKinds
  <2>1. CASE Disconnect
    BY <2>1, NoLoopMoves DEF Disconnect, SessionInv, Frames
  <2>2. CASE WizardReturns
    BY <2>2, OtherLoopReturns, KindsOfLoops DEF WizardReturns, SessionInv, Frames, IInv, Top
  <2> QED
    BY <2>1, <2>2
<1>3. pending' \in BOOLEAN /\ clip' \in BOOLEAN /\ held' \in {"none", "live", "freed"}
  BY <1>1 DEF SessionInv, Typed
<1>4. account' \in Client /\ account'.paused = account.paused
  BY DEF WizardReturns, Disconnect, SessionInv, Typed, Client
<1>5. /\ sched' \in Scheduler /\ (sched'.paused => sched.paused) /\ owed' \in BOOLEAN
      /\ owed' => Kept(sched') /\ window.state # "none"
  <2>1. \/ sched' = sched /\ owed' = owed
        \/ sched' = [sched EXCEPT !.provider = TRUE] /\ owed' = owed
        \/ sched' = [sched EXCEPT !.provider = FALSE] /\ owed' = FALSE
    BY Zenon DEF WizardReturns, Disconnect
  <2>2. sched \in Scheduler /\ owed \in BOOLEAN /\ (owed => Kept(sched) /\ window.state # "none")
    BY DEF SessionInv, Typed, Resumable
  <2>3. CASE sched' = sched /\ owed' = owed
    BY <2>2, <2>3
  <2>4. CASE sched' = [sched EXCEPT !.provider = TRUE] /\ owed' = owed
    BY <2>2, <2>4 DEF Scheduler, Kept
  <2>5. CASE sched' = [sched EXCEPT !.provider = FALSE] /\ owed' = FALSE
    BY <2>2, <2>5 DEF Scheduler
  <2> QED
    BY <2>1, <2>3, <2>4, <2>5
<1> QED
  BY <1>1, <1>2, <1>3, <1>4, <1>5, GoesOn

\* Clicks and the account's answers that open a dialog at most.
LEMMA ClickGoesOn ==
  ASSUME IInv, SessionInv,
         \/ ChangeSettings \/ ImportClick \/ ConnectClick \/ LookupRuns \/ LookupReturns \/ RevokeReturns
         \/ CopySecret \/ ClipboardTimeout
  PROVE  SessionInv'
<1>1. UNCHANGED <<marker, era, pending, app, session, flow, sched, owed, held, window, armed>>
  BY Zenon DEF ChangeSettings, ImportClick, ConnectClick, LookupRuns, LookupReturns, RevokeReturns,
     CopySecret, ClipboardTimeout, durable, process
<1>2. \E f \in {"import", "wizard"} : stack' = stack \/ stack' = Append(stack, f)
  BY Zenon DEF ChangeSettings, ImportClick, ConnectClick, LookupRuns, LookupReturns, RevokeReturns,
     CopySecret, ClipboardTimeout, Entered, process
<1>3. SameKinds
  <2>1. \A f \in {"import", "wizard"} : f \in Frame \ Single
    BY KindsOfLoops DEF Frame
  <2> QED
    BY <1>2, <2>1, NoLoopMoves, OtherLoopEnters DEF SessionInv, Frames, IInv
<1>4. account' \in Client /\ account'.paused = account.paused
  <2>1. \/ account' = account
        \/ \E l \in {"none", "flying"} : account' = [account EXCEPT !.lookup = l]
        \/ account' = [account EXCEPT !.revoking = FALSE]
    BY Zenon DEF ChangeSettings, ImportClick, ConnectClick, LookupRuns, LookupReturns, RevokeReturns,
       CopySecret, ClipboardTimeout, process
  <2> QED
    BY <2>1 DEF SessionInv, Typed, Client
<1>5. clip' \in BOOLEAN /\ (clip' => clip \/ session.open)
  <2>1. \/ clip' = clip
        \/ clip' = TRUE /\ window.key = "live"
        \/ clip' = FALSE
    BY Zenon DEF ChangeSettings, ImportClick, ConnectClick, LookupRuns, LookupReturns, RevokeReturns,
       CopySecret, ClipboardTimeout, process
  <2>2. clip \in BOOLEAN /\ (window.key = "live" => session.open)
    BY DEF SessionInv, Typed, Windowed
  <2>3. CASE clip' = clip
    BY <2>2, <2>3
  <2>4. CASE clip' = TRUE /\ window.key = "live"
    BY <2>2, <2>4
  <2>5. CASE clip' = FALSE
    BY <2>5
  <2> QED
    BY <2>1, <2>3, <2>4, <2>5
<1>6. held' \in {"none", "live", "freed"} /\ pending' \in BOOLEAN
  BY <1>1 DEF SessionInv, Typed
<1> QED
  BY <1>1, <1>3, <1>4, <1>5, <1>6, GoesOnUnscheduled

\* Loops that return or make room for the next of their own kind.
LEMMA LoopGoesOn ==
  ASSUME IInv, SessionInv,
         \/ ReadReturns \/ UploadReturns \/ Recovered \/ SetupAccepted \/ PasswordEntered \/ ChangeBegins
         \/ WizardSucceeds
  PROVE  SessionInv'
<1>1. UNCHANGED <<marker, era, app, session, flow, sched, window, account, armed, clip, owed>>
  BY Zenon DEF ReadReturns, UploadReturns, Recovered, SetupAccepted, PasswordEntered, ChangeBegins,
     WizardSucceeds, durable
<1>2. held' \in {"none", "live", "freed"} /\ pending' \in BOOLEAN
  <2>1. (held' = held \/ held' = "none" \/ held' = "live") /\ (pending' = pending \/ pending' = FALSE)
    BY Zenon DEF ReadReturns, UploadReturns, Recovered, SetupAccepted, PasswordEntered, ChangeBegins,
       WizardSucceeds, durable
  <2> QED
    BY <2>1 DEF SessionInv, Typed
<1>3. SameKinds
  <2>1. stack \in Seq(Frame) /\ Alone
    BY DEF SessionInv, Frames, IInv
  <2>2. CASE ReadReturns \/ UploadReturns
    <3>1. /\ Top \notin Single /\ stack # <<>>
          /\ \E f \in {"read", "upload"} : stack' = Under \/ stack' = Append(Under, f)
      BY <2>2, KindsOfLoops DEF ReadReturns, UploadReturns, Top
    <3>2. \A f \in {"read", "upload"} : f \in Frame \ Single
      BY KindsOfLoops DEF Frame, Syncing
    <3> QED
      BY <2>1, <3>1, <3>2, OtherLoopReturns
  <2>3. CASE Recovered \/ SetupAccepted \/ PasswordEntered \/ ChangeBegins
    <3>1. \/ stack' = stack
          \/ Top = "recover" /\ stack' = Append(Under, "unlock")
          \/ Top = "setup" /\ stack' = Append(Under, "binding")
          \/ Top = "password" /\ stack' = Append(Under, "confirm")
          \/ Top = "changeDialog" /\ stack' = Append(Under, "changing")
      BY <2>3, Zenon DEF Recovered, SetupAccepted, PasswordEntered, ChangeBegins
    <3>2. CASE stack' = stack
      BY <2>1, <3>2, NoLoopMoves
    <3>3. CASE stack' # stack
      <4>1. PICK f \in Single : /\ Top \in Single /\ stack' = Append(Under, f)
                                /\ f \in Prompts <=> Top \in Prompts
                                /\ f \in Asking <=> Top \in Asking
        BY <3>1, <3>3 DEF Single, Prompts, Asking, Changing
      <4>2. /\ Under \in Seq(Frame) /\ \A k \in DOMAIN Under : Under[k] \notin Single
            /\ InStack(Prompts) <=> Top \in Prompts
            /\ InStack(Asking) <=> Top \in Asking
        BY <2>1, <4>1, SingleReturns, KindsOfLoops
      <4>3. /\ Alone'
            /\ InStack(Prompts)' <=> f \in Prompts
            /\ InStack(Asking)' <=> f \in Asking
        BY <4>1, <4>2, NewSingle
      <4> QED
        BY <4>1, <4>2, <4>3 DEF SameKinds
    <3> QED
      BY <3>2, <3>3
  <2>4. CASE WizardSucceeds
    <3>1. PICK k \in DOMAIN stack : stack[k] = "wizard" /\ stack' = [stack EXCEPT ![k] = "granted"]
      BY <2>4 DEF WizardSucceeds
    <3>2. /\ DOMAIN stack' = DOMAIN stack /\ "wizard" \notin Single /\ "granted" \notin Single
          /\ \A j \in DOMAIN stack : stack'[j] = IF j = k THEN "granted" ELSE stack[j]
      BY <2>1, <3>1, KindsOfLoops
    <3>3. Alone'
      BY <2>1, <3>1, <3>2 DEF Alone
    <3>4. ASSUME NEW S, S \subseteq Single
          PROVE  InStack(S)' <=> InStack(S)
      BY <3>1, <3>2, <3>4 DEF InStack
    <3> QED
      BY <3>3, <3>4, KindsOfLoops DEF SameKinds
  <2> QED
    BY <2>2, <2>3, <2>4
<1> QED
  BY <1>1, <1>2, <1>3, GoesOnUnscheduled DEF SessionInv, Typed

\* An unlock, at the start or after a lock, finds nothing left of a flow.
LEMMA UnlockGoesOn ==
  ASSUME IInv, Fresh, SessionInv, UnlockAccepted \/ BindingSaved
  PROVE  SessionInv'
<1>1. Unlocked /\ UNCHANGED <<marker, era, pending>> /\ Top \in Prompts
  BY Zenon DEF UnlockAccepted, BindingSaved, durable, Prompts
<1>2. /\ UNCHANGED <<app, flow, held, clip, erasing, owed>> /\ stack' = Under /\ armed' = TRUE
      /\ session' = [session EXCEPT !.open = TRUE]
      /\ window' = [state |-> "shown", enabled |-> TRUE, key |-> "live"]
  BY <1>1 DEF Unlocked
<1>3. InStack(Prompts) /\ Alone' /\ ~InStack(Prompts)' /\ ~InStack(Asking)'
  BY <1>1, <1>2, SingleReturns, NoSingle, KindsOfLoops DEF SessionInv, Frames, IInv
<1>4. /\ ~session.open /\ ~flow.confirming /\ ~flow.resetting /\ ~flow.migration
      /\ ~session.changing /\ ~session.lockReq /\ ~flow.posted
  BY <1>3 DEF SessionInv, Frames, InFlow
<1>5. session'.open /\ ~session'.changing /\ ~session'.lockReq
  BY <1>2, <1>4 DEF Fresh, Session
<1>6. /\ sched' \in Scheduler /\ ~sched'.paused /\ account' \in Client /\ ~account'.paused
      /\ owed => Kept(sched')
  <2>1. ~account.paused /\ (owed => Kept(sched) /\ window.state # "none")
    BY <1>4 DEF SessionInv, Resumable
  <2>2. CASE window.state = "none"
    <3>1. /\ sched' = [IdleScheduler EXCEPT !.provider = Exists("token")]
          /\ account' = [NoAccount EXCEPT !.lookup = IF Exists("token") THEN "posted" ELSE "none"]
      BY <1>1, <2>2 DEF Unlocked
    <3>2. Exists("token") \in BOOLEAN
      BY DEF Exists
    <3> QED
      BY <2>1, <2>2, <3>1, <3>2 DEF IdleScheduler, NoAccount, Scheduler, Client
  <2>3. CASE window.state # "none"
    <3>1. sched' = Paused(sched, FALSE) /\ account' = account
      BY <1>1, <2>3 DEF Unlocked
    <3> QED
      BY <2>1, <3>1, Resumes DEF SessionInv, Typed
  <2> QED
    BY <2>2, <2>3
<1>7. Typed'
  BY <1>1, <1>2, <1>6 DEF SessionInv, Typed, Window
<1>8. Frames'
  BY <1>2, <1>3, <1>4, <1>5 DEF Frames, InFlow
<1>9. Windowed'
  BY <1>2, <1>5 DEF Windowed
<1>10. Resumable'
  BY <1>2, <1>6 DEF Resumable
<1>11. Bounded'
  BY <1>1, <1>3 DEF SessionInv, Bounded
<1> QED
  BY <1>7, <1>8, <1>9, <1>10, <1>11 DEF SessionInv

\* Everything a lock does at once.
LEMMA WhatLocks ==
  ASSUME Typed, NEW f, NEW s, NEW u, Locks(f, s, u)
  PROVE  /\ session' = Locked /\ held' \in {"none", "live", "freed"} /\ armed' = FALSE /\ clip' = FALSE
         /\ window' \in Window /\ window'.key = "none" /\ window'.state # "shown"
         /\ window.state # "none" => window'.state # "none"
         /\ ~session'.open /\ ~session'.changing /\ ~session'.lockReq
<1>1. session' = Locked /\ held' = Freed(held) /\ armed' = FALSE /\ clip' = FALSE /\ window' = WindowLocked
  BY DEF Locks
<1>2. /\ window' \in Window /\ window'.key = "none" /\ window'.state # "shown"
      /\ window.state # "none" => window'.state # "none"
  BY <1>1 DEF WindowLocked, Window, Typed
<1>3. held' \in {"none", "live", "freed"} /\ ~session'.open /\ ~session'.changing /\ ~session'.lockReq
  BY <1>1 DEF Freed, Typed, Locked
<1> QED
  BY <1>1, <1>2, <1>3

\* A lock outside a change of the password: the prompt comes at once or, in a
\* confirmation of a reset, at its end.
LEMMA LockGoesOn ==
  ASSUME IInv, Fresh, SessionInv, Lock \/ (CloseWindow /\ InFlow)
  PROVE  SessionInv'
<1>1. /\ UNCHANGED <<durable, app, sched, account, erasing, owed>>
      /\ flow' = flow \/ flow' = [flow EXCEPT !.exit = TRUE]
      /\ session.open
      /\ \/ DefersLock /\ armed' \in {FALSE, armed}
         \/ ~session.changing /\ Locks(flow, stack, pending)
  BY Zenon DEF Lock, CloseWindow
<1>2. /\ flow'.confirming <=> flow.confirming
      /\ flow'.migration <=> flow.migration
      /\ flow'.resetting <=> flow.resetting
      /\ flow'.posted <=> flow.posted
  BY <1>1 DEF IInv, Flows
<1>3. InFlow' <=> InFlow
  BY <1>2 DEF InFlow
<1>4. /\ stack \in Seq(Frame) /\ Alone /\ UNCHANGED <<marker, era, pending>>
      /\ sched' \in Scheduler /\ account' \in Client /\ owed' \in BOOLEAN
  BY <1>1 DEF IInv, SessionInv, Frames, Typed, durable
<1>5. CASE DefersLock /\ armed' \in {FALSE, armed}
  <2>1. /\ session.changing /\ session' = [session EXCEPT !.lockReq = TRUE]
        /\ UNCHANGED <<held, clip, window, stack>>
    BY <1>5 DEF DefersLock
  <2>2. session'.open /\ session'.changing /\ session'.lockReq
    BY <1>1, <2>1 DEF Fresh, Session
  <2>3. SameKinds
    BY <1>4, <2>1, NoLoopMoves
  <2>4. Typed'
    BY <1>1, <1>4, <1>5, <2>1 DEF SessionInv, Typed
  <2>5. Frames'
    BY <1>1, <1>2, <1>3, <2>1, <2>2, <2>3 DEF SessionInv, Frames, SameKinds
  <2>6. Windowed'
    BY <1>1, <1>2, <1>3, <2>1, <2>2 DEF SessionInv, Windowed
  <2>7. Resumable'
    BY <1>1, <1>2, <1>3, <2>1 DEF SessionInv, Resumable
  <2>8. Bounded'
    BY <1>4, <2>3 DEF SessionInv, Bounded, SameKinds
  <2> QED
    BY <2>4, <2>5, <2>6, <2>7, <2>8 DEF SessionInv
<1>6. CASE ~session.changing /\ Locks(flow, stack, pending)
  <2>1. /\ session' = Locked /\ held' \in {"none", "live", "freed"} /\ armed' = FALSE /\ clip' = FALSE
        /\ window' \in Window /\ window'.key = "none" /\ window'.state # "shown"
        /\ window.state # "none" => window'.state # "none"
        /\ ~session'.open /\ ~session'.changing /\ ~session'.lockReq
    BY <1>6, WhatLocks DEF SessionInv
  <2>2. window'.state # "none" /\ ~flow.migration
    BY <1>1, <1>6, <2>1 DEF SessionInv, Windowed, Frames
  <2>3. /\ Alone'
        /\ InStack(Prompts)' <=> ~InFlow
        /\ InStack(Asking)' <=> InStack(Asking)
    <3>1. CASE InFlow
      <4>1. stack' = stack /\ ~InStack(Prompts)
        BY <1>1, <1>6, <3>1 DEF Locks, InFlow, SessionInv, Frames
      <4> QED
        BY <1>4, <3>1, <4>1, NoLoopMoves DEF SameKinds
    <3>2. CASE ~InFlow
      <4>1. PICK p \in {"recover", "unlock"} : stack' = Append(stack, p)
        BY <1>6, <3>2 DEF Locks, InFlow, Prompt
      <4>2. p \in Single /\ p \in Prompts /\ p \notin Asking
        BY DEF Single, Prompts, Asking
      <4>3. \A k \in DOMAIN stack : stack[k] \notin Single
        BY <1>1, <3>2, OpenIsCalm DEF SessionInv
      <4>4. ~InStack(Asking)
        BY <4>3, KindsOfLoops DEF InStack
      <4> QED
        BY <1>4, <3>2, <4>1, <4>2, <4>3, <4>4, NewSingle
    <3> QED
      BY <3>1, <3>2
  <2>4. Typed'
    BY <1>4, <2>1 DEF SessionInv, Typed
  <2>5. Frames'
    BY <1>2, <1>3, <2>1, <2>2, <2>3 DEF SessionInv, Frames
  <2>6. Windowed'
    BY <2>1, <2>2 DEF Windowed
  <2>7. Resumable'
    BY <1>1, <1>2, <2>1, <2>2 DEF SessionInv, Resumable
  <2>8. Bounded'
    BY <1>4, <2>3 DEF SessionInv, Bounded
  <2> QED
    BY <2>4, <2>5, <2>6, <2>7, <2>8 DEF SessionInv
<1> QED
  BY <1>1, <1>5, <1>6

\* A process that ends leaves nothing to resume.
LEMMA EndGoesOn ==
  ASSUME SessionInv, Ended, UNCHANGED <<marker, era>>, pending' \in BOOLEAN
  PROVE  SessionInv'
<1>1. /\ ~Running' /\ stack' = <<>> /\ session' = Locked /\ flow' = NoFlow /\ sched' = IdleScheduler
      /\ held' = "none" /\ window' = NoWindow /\ account' = NoAccount
      /\ armed' = FALSE /\ clip' = FALSE /\ owed' = FALSE
  BY DEF Ended, Running
<1>2. Alone' /\ ~InStack(Prompts)' /\ ~InStack(Asking)'
  BY <1>1 DEF Alone, InStack
<1>3. Typed'
  BY <1>1 DEF SessionInv, Typed, IdleScheduler, NoWindow, NoAccount, Scheduler, Window, Client
<1>4. Frames'
  BY <1>1, <1>2 DEF Frames, InFlow, Locked, NoFlow
<1>5. Windowed'
  BY <1>1 DEF Windowed, Locked, NoWindow, NoFlow
<1>6. Resumable'
  BY <1>1 DEF Resumable, IdleScheduler, NoAccount
<1>7. Bounded'
  BY <1>2 DEF SessionInv, Bounded
<1> QED
  BY <1>3, <1>4, <1>5, <1>6, <1>7 DEF SessionInv

LEMMA EndsGoOn ==
  ASSUME SessionInv,
         \/ PromptClosed \/ ReadReturnsDangling \/ Crash \/ (CloseWindow /\ ~InFlow)
         \/ (ResetNotStarted /\ flow.exit)
  PROVE  SessionInv'
<1>1. Ended /\ UNCHANGED <<marker, era>> /\ (pending' = pending \/ pending' \in BOOLEAN)
  BY Zenon DEF PromptClosed, ReadReturnsDangling, Crash, CloseWindow, ResetNotStarted, durable
<1> QED
  BY <1>1, EndGoesOn DEF SessionInv, Typed

\* A flow begins: its dialog covers the window, and what it pauses is the
\* scheduler and, before a reset, the account.
LEMMA FlowBegins ==
  ASSUME IInv, Fresh, SessionInv, ChangeMasterPassword \/ RequestLocalReset
  PROVE  SessionInv'
<1>1. /\ session.open /\ ~InFlow /\ window.state = "shown"
      /\ UNCHANGED <<durable, app, held, armed, erasing, owed>>
      /\ sched' = Paused(sched, TRUE)
  BY DEF ChangeMasterPassword, RequestLocalReset, Clickable, Eligible, Quiet, InFlow
<1>2. /\ \A k \in DOMAIN stack : stack[k] \notin Single
      /\ ~session.changing /\ ~session.lockReq /\ ~flow.posted
      /\ armed /\ window.key = "live" /\ (owed => Kept(sched))
      /\ ~flow.migration /\ ~flow.confirming /\ ~flow.resetting
  BY <1>1, OpenIsCalm DEF SessionInv, Windowed, Resumable, InFlow
<1>3. sched' \in Scheduler /\ (owed' => Kept(sched'))
  BY <1>1, <1>2, Pauses DEF SessionInv, Typed, Resumable
<1>4. stack \in Seq(Frame) /\ UNCHANGED <<marker, era, pending>> /\ owed' \in BOOLEAN
  BY <1>1 DEF IInv, durable, SessionInv, Typed
<1>5. CASE ChangeMasterPassword
  <2>1. /\ session' = [session EXCEPT !.changing = TRUE, !.lockReq = FALSE]
        /\ flow' = [flow EXCEPT !.migration = TRUE, !.exit = FALSE]
        /\ window' = [window EXCEPT !.enabled = FALSE, !.key = "none"]
        /\ clip' = FALSE /\ account' = account /\ stack' = Append(stack, "changeDialog")
    BY <1>5 DEF ChangeMasterPassword, Entered
  <2>2. session'.open /\ session'.changing /\ ~session'.lockReq
    BY <1>1, <2>1 DEF Fresh, Session
  <2>3. flow'.migration /\ ~flow'.confirming /\ ~flow'.resetting /\ ~flow'.posted
    BY <1>2, <2>1 DEF IInv, Flows
  <2>4. window' \in Window /\ window'.state = "shown"
    BY <1>1, <2>1 DEF SessionInv, Typed, Window
  <2>5. Alone' /\ ~InStack(Prompts)' /\ ~InStack(Asking)'
    <3>1. "changeDialog" \in Single /\ "changeDialog" \notin Prompts /\ "changeDialog" \notin Asking
      BY DEF Single, Changing, Prompts, Asking
    <3> QED
      BY <1>2, <1>4, <2>1, <3>1, NewSingle
  <2>6. Typed'
    BY <1>1, <1>3, <1>4, <2>1, <2>4 DEF SessionInv, Typed
  <2>7. Frames'
    BY <2>2, <2>3, <2>5 DEF Frames, InFlow
  <2>8. Windowed'
    BY <1>1, <1>2, <2>2, <2>3, <2>4 DEF Windowed, InFlow
  <2>9. Resumable'
    BY <1>1, <1>2, <1>3, <2>1, <2>3, <2>4 DEF Resumable, InFlow, SessionInv
  <2>10. Bounded'
    BY <1>4, <2>5 DEF SessionInv, Bounded
  <2> QED
    BY <2>6, <2>7, <2>8, <2>9, <2>10 DEF SessionInv
<1>6. CASE RequestLocalReset
  <2>1. /\ flow' = [flow EXCEPT !.confirming = TRUE, !.exit = FALSE]
        /\ account' = [account EXCEPT !.paused = TRUE]
        /\ window' = [window EXCEPT !.enabled = FALSE]
        /\ stack' = Append(stack, "password") /\ UNCHANGED <<session, clip>> /\ era < MaxVault
    BY <1>6 DEF RequestLocalReset, Entered
  <2>2. flow'.confirming /\ ~flow'.migration /\ ~flow'.resetting /\ ~flow'.posted
    BY <1>2, <2>1 DEF IInv, Flows
  <2>3. window' \in Window /\ window'.state = "shown" /\ window'.key = "live"
    BY <1>1, <1>2, <2>1 DEF SessionInv, Typed, Window
  <2>4. Alone' /\ ~InStack(Prompts)'
    <3>1. "password" \in Single /\ "password" \notin Prompts
      BY DEF Single, Asking, Prompts
    <3> QED
      BY <1>2, <1>4, <2>1, <3>1, NewSingle
  <2>5. account' \in Client
    BY <2>1 DEF SessionInv, Typed, Client
  <2>6. Typed'
    BY <1>1, <1>3, <1>4, <2>1, <2>3, <2>5 DEF SessionInv, Typed
  <2>7. Frames'
    BY <1>1, <1>2, <2>1, <2>2, <2>4 DEF Frames, InFlow
  <2>8. Windowed'
    BY <1>1, <1>2, <2>1, <2>2, <2>3 DEF Windowed, InFlow
  <2>9. Resumable'
    BY <1>3, <2>2, <2>3 DEF Resumable, InFlow
  <2>10. Bounded'
    BY <1>4, <2>1 DEF Bounded
  <2> QED
    BY <2>6, <2>7, <2>8, <2>9, <2>10 DEF SessionInv
<1> QED
  BY <1>5, <1>6

\* The change of the password ends: with the window as before, or with the lock
\* that was asked for meanwhile or that a failed change demands.
LEMMA ChangeGoesOn ==
  ASSUME IInv, Fresh, SessionInv, ChangeDeclined \/ ChangeReturns
  PROVE  SessionInv'
<1>1. /\ Top \in Changing /\ UNCHANGED <<marker, era>> /\ pending' \in BOOLEAN
      /\ \E mustLock \in BOOLEAN : EndsChange(mustLock)
  <2>1. /\ Top \in {"changeDialog", "changing"} /\ UNCHANGED <<marker, era>>
        /\ pending' = pending \/ pending' \in BOOLEAN
        /\ EndsChange(TRUE) \/ EndsChange(FALSE)
    BY DEF ChangeDeclined, ChangeReturns, durable
  <2> QED
    BY <2>1 DEF Changing, SessionInv, Typed
<1>2. PICK mustLock \in BOOLEAN : EndsChange(mustLock)
  BY <1>1
<1>3. CASE flow.exit
  BY <1>1, <1>2, <1>3, EndGoesOn DEF EndsChange
<1>4. CASE ~flow.exit
  <2>1. /\ Under \in Seq(Frame) /\ \A k \in DOMAIN Under : Under[k] \notin Single
        /\ flow.migration
    BY <1>1, SingleReturns, OneChange, KindsOfLoops DEF IInv, SessionInv, Frames
  <2>2. /\ ~flow.confirming /\ ~flow.resetting /\ ~flow.posted /\ session.changing /\ session.open
        /\ window.state = "shown" /\ (armed \/ session.lockReq) /\ ~account.paused
        /\ owed => Kept(sched)
    BY <2>1 DEF SessionInv, Frames, Windowed, Resumable
  <2>3. /\ flow' = [flow EXCEPT !.migration = FALSE]
        /\ UNCHANGED <<app, account, erasing, owed>>
    BY <1>2, <1>4 DEF EndsChange
  <2>4. ~InFlow' /\ ~flow'.confirming /\ ~flow'.resetting /\ ~flow'.migration /\ ~flow'.posted
    BY <2>2, <2>3 DEF IInv, Flows, InFlow
  <2>5. CASE mustLock \/ session.lockReq
    <3>1. Locks(NoFlow, Under, pending') /\ UNCHANGED sched
      BY <1>2, <1>4, <2>5 DEF EndsChange
    <3>2. /\ held' \in {"none", "live", "freed"} /\ armed' = FALSE /\ clip' = FALSE
          /\ window' \in Window /\ window'.key = "none" /\ window'.state # "shown" /\ window'.state # "none"
          /\ ~session'.open /\ ~session'.changing /\ ~session'.lockReq
      BY <2>2, <3>1, WhatLocks DEF SessionInv
    <3>3. Alone' /\ InStack(Prompts)' /\ ~InStack(Asking)'
      <4>1. PICK p \in {"recover", "unlock"} : stack' = Append(Under, p)
        BY <3>1 DEF Locks, NoFlow, Prompt
      <4>2. p \in Single /\ p \in Prompts /\ p \notin Asking
        BY DEF Single, Prompts, Asking
      <4> QED
        BY <2>1, <4>1, <4>2, NewSingle
    <3>4. Typed'
      BY <1>1, <2>3, <3>1, <3>2 DEF SessionInv, Typed
    <3>5. Frames'
      BY <2>4, <3>2, <3>3 DEF Frames
    <3>6. Windowed'
      BY <2>4, <3>2 DEF Windowed
    <3>7. Resumable'
      BY <2>2, <2>3, <3>1, <3>2 DEF Resumable
    <3>8. Bounded'
      BY <1>1, <3>3 DEF SessionInv, Bounded
    <3> QED
      BY <3>4, <3>5, <3>6, <3>7, <3>8 DEF SessionInv
  <2>6. CASE ~(mustLock \/ session.lockReq)
    <3>1. /\ session' = [session EXCEPT !.changing = FALSE]
          /\ window' = [window EXCEPT !.enabled = TRUE, !.key = "live"]
          /\ sched' = Paused(sched, FALSE) /\ stack' = Under
          /\ UNCHANGED <<held, armed, clip>>
      BY <1>2, <1>4, <2>6 DEF EndsChange
    <3>2. session'.open /\ ~session'.changing /\ ~session'.lockReq
      BY <2>2, <2>6, <3>1 DEF Fresh, Session
    <3>3. window' \in Window /\ window'.state = "shown" /\ window'.key = "live" /\ window'.enabled
      BY <2>2, <3>1 DEF SessionInv, Typed, Window
    <3>4. sched' \in Scheduler /\ ~sched'.paused /\ (owed => Kept(sched'))
      BY <2>2, <3>1, Resumes DEF SessionInv, Typed
    <3>5. Alone' /\ ~InStack(Prompts)' /\ ~InStack(Asking)'
      BY <2>1, <3>1, NoSingle
    <3>6. Typed'
      BY <1>1, <2>3, <3>1, <3>3, <3>4 DEF SessionInv, Typed
    <3>7. Frames'
      BY <2>4, <3>2, <3>5 DEF Frames
    <3>8. Windowed'
      BY <2>2, <2>4, <2>6, <3>1, <3>2, <3>3 DEF Windowed
    <3>9. Resumable'
      BY <2>2, <2>3, <3>3, <3>4 DEF Resumable
    <3>10. Bounded'
      BY <1>1, <3>5 DEF SessionInv, Bounded
    <3> QED
      BY <3>6, <3>7, <3>8, <3>9, <3>10 DEF SessionInv
  <2> QED
    BY <2>5, <2>6
<1> QED
  BY <1>3, <1>4

\* The confirmation of a reset ends without one: the window as before, or the
\* prompt for which a lock in the confirmation had no place.
LEMMA NoResetGoesOn ==
  ASSUME IInv, Fresh, SessionInv, ResetNotStarted, ~flow.exit
  PROVE  SessionInv'
<1>1. /\ Top \in Asking /\ UNCHANGED <<durable, app, session, held, armed, clip, erasing, owed>>
      /\ flow' = [flow EXCEPT !.confirming = FALSE]
      /\ account' = [account EXCEPT !.paused = FALSE]
      /\ window' = [window EXCEPT !.enabled = TRUE]
  BY DEF ResetNotStarted, Asking
<1>2. /\ Under \in Seq(Frame) /\ \A k \in DOMAIN Under : Under[k] \notin Single
      /\ flow.confirming
  BY <1>1, SingleReturns, KindsOfLoops DEF IInv, SessionInv, Frames
<1>3. /\ ~flow.migration /\ ~flow.resetting /\ ~flow.posted /\ ~session.changing /\ ~session.lockReq
      /\ owed => Kept(sched) /\ window.state # "none"
      /\ window.state # "none"
  BY <1>2 DEF SessionInv, Frames, Windowed, Resumable
<1>4. ~InFlow' /\ ~flow'.confirming /\ ~flow'.resetting /\ ~flow'.migration /\ ~flow'.posted
  BY <1>1, <1>3 DEF IInv, Flows, InFlow
<1>5. account' \in Client /\ ~account'.paused
  BY <1>1 DEF SessionInv, Typed, Client
<1>6. /\ window' \in Window /\ window'.state = window.state /\ window'.key = window.key /\ window'.enabled
  BY <1>1 DEF SessionInv, Typed, Window
<1>7. UNCHANGED <<marker, era, pending>>
  BY <1>1 DEF durable
<1>8. CASE session.open
  <2>1. stack' = Under /\ sched' = Paused(sched, FALSE)
    BY <1>8 DEF ResetNotStarted
  <2>2. Alone' /\ ~InStack(Prompts)' /\ ~InStack(Asking)'
    BY <1>2, <2>1, NoSingle
  <2>3. sched' \in Scheduler /\ ~sched'.paused /\ (owed => Kept(sched'))
    BY <1>3, <2>1, Resumes DEF SessionInv, Typed
  <2>4. Typed'
    BY <1>1, <1>5, <1>6, <1>7, <2>3 DEF SessionInv, Typed
  <2>5. Frames'
    BY <1>1, <1>3, <1>4, <1>8, <2>2 DEF Frames
  <2>6. Windowed'
    BY <1>1, <1>3, <1>4, <1>6, <1>8 DEF SessionInv, Windowed
  <2>7. Resumable'
    BY <1>1, <1>3, <1>5, <1>6, <2>3 DEF Resumable
  <2>8. Bounded'
    BY <1>7, <2>2 DEF SessionInv, Bounded
  <2> QED
    BY <2>4, <2>5, <2>6, <2>7, <2>8 DEF SessionInv
<1>9. CASE ~session.open
  <2>1. stack' = Append(Under, Prompt(pending)) /\ sched' = sched
    BY <1>1, <1>9 DEF ResetNotStarted
  <2>2. Alone' /\ InStack(Prompts)' /\ ~InStack(Asking)'
    <3>1. Prompt(pending) \in Single /\ Prompt(pending) \in Prompts /\ Prompt(pending) \notin Asking
      BY DEF Prompt, Single, Prompts, Asking
    <3> QED
      BY <1>2, <2>1, <3>1, NewSingle
  <2>3. Typed'
    BY <1>1, <1>5, <1>6, <1>7, <2>1 DEF SessionInv, Typed
  <2>4. Frames'
    BY <1>1, <1>3, <1>4, <1>9, <2>2 DEF Frames
  <2>5. Windowed'
    BY <1>1, <1>4, <1>6, <1>9 DEF SessionInv, Windowed
  <2>6. Resumable'
    BY <1>1, <1>3, <1>5, <1>6, <1>9, <2>1 DEF Resumable
  <2>7. Bounded'
    BY <1>7, <2>2 DEF SessionInv, Bounded
  <2> QED
    BY <2>3, <2>4, <2>5, <2>6, <2>7 DEF SessionInv
<1> QED
  BY <1>8, <1>9

\* The reset begins, and the runtime is released.
LEMMA ResetGoesOn ==
  ASSUME IInv, Fresh, SessionInv, ResetBegins
  PROVE  SessionInv'
<1>1. /\ Running /\ Top \in Asking /\ session.open /\ ~session.changing /\ marker' = app /\ UNCHANGED <<era, pending>>
      /\ flow' = [flow EXCEPT !.confirming = FALSE, !.resetting = TRUE, !.posted = TRUE]
      /\ stack' = Under
      /\ UNCHANGED <<app, session, sched, held, window, account, armed, clip, erasing, owed>>
  BY DEF ResetBegins, Asking, Eligible, Quiet, Begin
<1>2. /\ Under \in Seq(Frame) /\ \A k \in DOMAIN Under : Under[k] \notin Single
      /\ InStack(Asking) /\ flow.confirming /\ ~flow.migration
  BY <1>1, SingleReturns, KindsOfLoops DEF IInv, SessionInv, Frames
<1>3. ~flow'.confirming /\ flow'.resetting /\ ~flow'.migration /\ InFlow'
  BY <1>1, <1>2 DEF IInv, Flows, InFlow
<1>4. Alone' /\ ~InStack(Prompts)' /\ ~InStack(Asking)'
  BY <1>1, <1>2, NoSingle
<1>5. marker' \in Installation \cup {"absent"} /\ era < MaxVault
  BY <1>1, <1>2 DEF Fresh, Running, SessionInv, Bounded
<1>6. Typed'
  BY <1>1, <1>5 DEF SessionInv, Typed
<1>7. Frames'
  BY <1>1, <1>3, <1>4 DEF SessionInv, Frames
<1>8. Windowed'
  BY <1>1, <1>2, <1>3 DEF SessionInv, Windowed
<1>9. Resumable'
  BY <1>1, <1>3 DEF SessionInv, Resumable
<1>10. Bounded'
  BY <1>1, <1>5 DEF Bounded
<1> QED
  BY <1>6, <1>7, <1>8, <1>9, <1>10 DEF SessionInv

LEMMA ReleaseGoesOn ==
  ASSUME IInv, Fresh, SessionInv, ReleaseRuntime
  PROVE  SessionInv'
<1>1. /\ flow.posted /\ stack = <<>> /\ UNCHANGED <<marker, era, pending, app>>
      /\ session' = Locked /\ sched' = IdleScheduler /\ held' = "none"
      /\ window' = NoWindow /\ account' = NoAccount
      /\ armed' = FALSE /\ clip' = FALSE /\ owed' = FALSE
      /\ flow' = [flow EXCEPT !.posted = FALSE]
      /\ stack' = stack \/ stack' = Append(stack, "retry")
  BY DEF ReleaseRuntime, Released, Entered
<1>2. flow.resetting /\ ~flow.confirming /\ ~flow.migration
  BY <1>1 DEF SessionInv, Frames
<1>3. flow'.resetting /\ ~flow'.confirming /\ ~flow'.migration /\ ~flow'.posted /\ InFlow'
  BY <1>1, <1>2 DEF IInv, Flows, InFlow
<1>4. SameKinds
  <2>1. "retry" \in Frame \ Single
    BY KindsOfLoops DEF Frame
  <2> QED
    BY <1>1, <2>1, NoLoopMoves, OtherLoopEnters DEF IInv, SessionInv, Frames
<1>5. Alone' /\ ~InStack(Prompts)' /\ ~InStack(Asking)'
  BY <1>1, <1>4 DEF SameKinds, InStack
<1>6. Typed'
  BY <1>1 DEF SessionInv, Typed, IdleScheduler, NoWindow, NoAccount, Scheduler, Window, Client
<1>7. Frames'
  BY <1>1, <1>3, <1>5 DEF Frames, Locked
<1>8. Windowed'
  BY <1>1, <1>3 DEF Windowed, Locked, NoWindow
<1>9. Resumable'
  BY <1>1 DEF Resumable, IdleScheduler, NoAccount
<1>10. Bounded'
  BY <1>1, <1>5 DEF SessionInv, Bounded
<1> QED
  BY <1>6, <1>7, <1>8, <1>9, <1>10 DEF SessionInv

\* Erasing moves only files, and with the marker's removal the era.
LEMMA EraseGoesOn ==
  ASSUME IInv, Fresh, SessionInv, Erase
  PROVE  SessionInv'
<1>1. /\ UNCHANGED <<app, stack, session, flow, sched, held, window, account, armed, clip, owed, pending>>
      /\ \/ UNCHANGED <<marker, era>>
         \/ erasing = Len(Deleted) + 1 /\ marker' = "absent" /\ era' = era + 1
  BY DEF Erase, RemoveFile, RemoveMarker
<1>2. erasing # 0 /\ stack = <<>>
  BY DEF Erase, IInv, Silenced
<1>3. ~InStack(Asking)'
  BY <1>1, <1>2 DEF InStack
<1>4. Frames' /\ Windowed' /\ Resumable'
  <2>1. Frames'
    BY <1>1 DEF SessionInv, Frames, Alone, InStack, InFlow, Running
  <2>2. Windowed'
    BY <1>1 DEF SessionInv, Windowed, InFlow
  <2>3. Resumable'
    BY <1>1 DEF SessionInv, Resumable, InFlow
  <2> QED
    BY <2>1, <2>2, <2>3
<1>5. CASE UNCHANGED <<marker, era>>
  BY <1>1, <1>3, <1>4, <1>5 DEF SessionInv, Typed, Bounded
<1>6. CASE erasing = Len(Deleted) + 1 /\ marker' = "absent" /\ era' = era + 1
  <2>1. marker # "absent" /\ era \in 1..MaxVault /\ era < MaxVault
    BY <1>6 DEF Fresh, SessionInv, Typed, Bounded, Deleted
  <2>2. era' \in 1..MaxVault
    BY <1>6, <2>1, MaxVaultAssumption
  <2> QED
    BY <1>1, <1>3, <1>4, <1>6, <2>2 DEF SessionInv, Typed, Bounded
<1> QED
  BY <1>1, <1>5, <1>6

\* A failed deletion asks for a retry; the retry begins anew or gives up.
LEMMA InterruptionGoesOn ==
  ASSUME IInv, SessionInv, EraseFails \/ RetryReset
  PROVE  SessionInv'
<1>1. CASE EraseFails
  <2>1. stack' = Append(stack, "retry") /\ "retry" \in Frame \ Single
        /\ UNCHANGED <<durable, app, session, flow, sched, held, window, account, armed, clip, owed>>
    BY <1>1, KindsOfLoops DEF EraseFails, Entered, Frame
  <2>2. SameKinds
    BY <2>1, OtherLoopEnters DEF IInv, SessionInv, Frames
  <2> QED
    BY <2>1, <2>2, GoesOnUnscheduled DEF SessionInv, Typed, durable
<1>2. CASE RetryReset /\ ~Ended
  <2>1. Top = "retry" /\ stack' = Under
        /\ UNCHANGED <<durable, app, session, flow, sched, held, window, account, armed, clip, owed>>
    BY <1>2, Zenon DEF RetryReset
  <2>2. SameKinds
    BY <2>1, OtherLoopReturns, KindsOfLoops DEF IInv, SessionInv, Frames, Top
  <2> QED
    BY <2>1, <2>2, GoesOnUnscheduled DEF SessionInv, Typed, durable
<1>3. CASE RetryReset /\ Ended
  BY <1>3, EndGoesOn DEF RetryReset, SessionInv, Typed, durable
<1> QED
  BY <1>1, <1>2, <1>3

\* A process starts, or the cleared one begins again: its first loop asks.
LEMMA InitializesGoesOn ==
  ASSUME IInv, Fresh, SessionInv, NEW i, Silent, Initializes(i)
  PROVE  SessionInv'
<1>1. /\ flow' = NoFlow /\ \E f \in {"setup", "recover", "unlock"} : stack' = <<f>>
      /\ UNCHANGED <<marker, era, pending, session, sched, held, window, account, armed, clip, owed>>
  BY DEF Initializes, Prompt
<1>2. PICK f \in {"setup", "recover", "unlock"} : stack' = <<f>>
  BY <1>1
<1>3. Alone' /\ InStack(Prompts)' /\ ~InStack(Asking)'
  <2>1. DOMAIN stack' = {1} /\ stack'[1] = f /\ f \in Prompts /\ f \notin Asking
    BY <1>2 DEF Prompts, Asking
  <2> QED
    BY <2>1 DEF Alone, InStack
<1>4. /\ ~session.open /\ window = NoWindow /\ account = NoAccount /\ sched = IdleScheduler
      /\ ~session.changing /\ ~session.lockReq /\ ~owed /\ ~clip /\ ~armed
  BY DEF IInv, Silenced, SessionInv, Frames, Windowed, Resumable, Kept, IdleScheduler
<1>5. ~InFlow' /\ ~flow'.confirming /\ ~flow'.resetting /\ ~flow'.migration /\ ~flow'.posted
  BY <1>1 DEF NoFlow, InFlow
<1>6. Typed'
  BY <1>1 DEF SessionInv, Typed
<1>7. Frames'
  BY <1>1, <1>3, <1>4, <1>5 DEF Frames
<1>8. Windowed'
  BY <1>1, <1>4, <1>5 DEF Windowed, NoWindow
<1>9. Resumable'
  BY <1>1, <1>4 DEF Resumable, IdleScheduler, NoAccount
<1>10. Bounded'
  BY <1>1, <1>3 DEF SessionInv, Bounded
<1> QED
  BY <1>6, <1>7, <1>8, <1>9, <1>10 DEF SessionInv

LEMMA StartGoesOn ==
  ASSUME IInv, Fresh, SessionInv, NEW i \in Installation, Start(i) \/ StartResumes(i)
  PROVE  SessionInv'
<1>1. CASE Start(i)
  BY <1>1, InitializesGoesOn DEF Start, Silent
<1>2. CASE StartResumes(i)
  <2>1. /\ ~Running /\ Silent /\ flow' = [NoFlow EXCEPT !.resetting = TRUE]
        /\ UNCHANGED <<durable, stack, session, sched, held, window, account, armed, clip, owed>>
    BY <1>2 DEF StartResumes, Silent
  <2>2. stack = <<>> /\ Alone' /\ ~InStack(Prompts)' /\ ~InStack(Asking)'
    BY <2>1 DEF IInv, Silenced, Alone, InStack
  <2>3. /\ ~session.open /\ window = NoWindow /\ account = NoAccount /\ sched = IdleScheduler
        /\ ~session.changing /\ ~session.lockReq /\ ~owed /\ ~clip /\ ~armed
    BY <2>1 DEF IInv, Silenced, SessionInv, Frames, Windowed, Resumable, Kept, IdleScheduler
  <2>4. ~flow'.confirming /\ flow'.resetting /\ ~flow'.migration /\ ~flow'.posted /\ InFlow'
    BY <2>1 DEF NoFlow, InFlow
  <2>5. Typed'
    BY <2>1 DEF SessionInv, Typed, durable
  <2>6. Frames'
    BY <2>1, <2>2, <2>3, <2>4 DEF Frames
  <2>7. Windowed'
    BY <2>1, <2>3, <2>4 DEF Windowed, NoWindow
  <2>8. Resumable'
    BY <2>1, <2>3 DEF Resumable, IdleScheduler, NoAccount
  <2>9. Bounded'
    BY <2>1, <2>2 DEF SessionInv, Bounded, durable
  <2> QED
    BY <2>5, <2>6, <2>7, <2>8, <2>9 DEF SessionInv
<1> QED
  BY <1>1, <1>2

-----------------------------------------------------------------------------
(* The whole program.                                                       *)

LEMMA StepGoesOn == IInv /\ Fresh /\ SessionInv /\ [Next]_vars => SessionInv'
<1> SUFFICES ASSUME IInv, Fresh, SessionInv, [Next]_vars PROVE SessionInv'
  OBVIOUS
<1>1. CASE \E i \in Installation : Start(i) \/ StartResumes(i)
  BY <1>1, StartGoesOn
<1>2. CASE OnTimeout \/ SyncImmediately \/ Edit \/ ImportReturns \/ WizardReturns \/ Disconnect
  BY <1>2, SchedulerGoesOn, EditGoesOn, ProviderGoesOn
<1>3. CASE \/ ChangeSettings \/ ImportClick \/ ConnectClick \/ LookupRuns \/ LookupReturns \/ RevokeReturns
           \/ CopySecret \/ ClipboardTimeout
  BY <1>3, ClickGoesOn
<1>4. CASE \/ ReadReturns \/ UploadReturns \/ Recovered \/ SetupAccepted \/ PasswordEntered \/ ChangeBegins
           \/ WizardSucceeds
  BY <1>4, LoopGoesOn
<1>5. CASE UnlockAccepted \/ BindingSaved
  BY <1>5, UnlockGoesOn
<1>6. CASE Lock \/ (CloseWindow /\ InFlow)
  BY <1>6, LockGoesOn
<1>7. CASE \/ PromptClosed \/ ReadReturnsDangling \/ Crash \/ (CloseWindow /\ ~InFlow)
           \/ (ResetNotStarted /\ flow.exit)
  BY <1>7, EndsGoOn
<1>8. CASE ChangeMasterPassword \/ RequestLocalReset
  BY <1>8, FlowBegins
<1>9. CASE ChangeDeclined \/ ChangeReturns
  BY <1>9, ChangeGoesOn
<1>10. CASE ResetNotStarted /\ ~flow.exit
  BY <1>10, NoResetGoesOn
<1>11. CASE ResetBegins \/ ReleaseRuntime \/ Erase \/ EraseFails \/ RetryReset
  BY <1>11, ResetGoesOn, ReleaseGoesOn, EraseGoesOn, InterruptionGoesOn
<1>12. CASE ResetReturns
  <2>1. Silent /\ Initializes(app)
    BY <1>12 DEF ResetReturns, Silent, Deleted
  <2> QED
    BY <2>1, InitializesGoesOn
<1>13. CASE UNCHANGED vars
  <2>1. SameKinds
    BY <1>13, NoLoopMoves DEF SessionInv, Frames, vars, process
  <2> QED
    BY <1>13, <2>1, GoesOnUnscheduled DEF SessionInv, Typed, vars, process, durable
<1> QED
  BY <1>1, <1>2, <1>3, <1>4, <1>5, <1>6, <1>7, <1>8, <1>9, <1>10, <1>11, <1>12, <1>13, Zenon DEF Next

LEMMA InitiallyCalm == Init => SessionInv
<1> SUFFICES ASSUME Init PROVE SessionInv
  OBVIOUS
<1>1. /\ ~Running /\ stack = <<>> /\ session = Locked /\ flow = NoFlow /\ sched = IdleScheduler
      /\ held = "none" /\ window = NoWindow /\ account = NoAccount
      /\ armed = FALSE /\ clip = FALSE /\ owed = FALSE
      /\ marker = "absent" /\ era = 1 /\ pending = FALSE
  BY DEF Init, ResetInit, Running
<1>2. Alone /\ ~InStack(Prompts) /\ ~InStack(Asking)
  BY <1>1 DEF Alone, InStack
<1>3. Typed
  <2>1. era \in 1..MaxVault
    BY <1>1, MaxVaultAssumption
  <2> QED
    BY <1>1, <2>1 DEF Typed, IdleScheduler, NoWindow, NoAccount, Scheduler, Window, Client
<1>4. Frames
  BY <1>1, <1>2 DEF Frames, InFlow, Locked, NoFlow
<1>5. Windowed
  BY <1>1 DEF Windowed, Locked, NoWindow, NoFlow
<1>6. Resumable
  BY <1>1 DEF Resumable, IdleScheduler, NoAccount
<1>7. Bounded
  BY <1>1, <1>2 DEF Bounded
<1> QED
  BY <1>3, <1>4, <1>5, <1>6, <1>7 DEF SessionInv

ProcessInv == IInv /\ Fresh /\ SessionInv

LEMMA ProcessStays == Spec => []ProcessInv
<1>1. Init => ProcessInv
  BY InitiallySilent, InitiallyFresh, InitiallyCalm DEF ProcessInv
<1>2. ProcessInv /\ [Next]_vars => ProcessInv'
  BY StepIsSafe, StepLives, StepGoesOn DEF ProcessInv, Lives
<1> QED
  BY <1>1, <1>2, PTL DEF Spec

\* The types of Application's state, through every nesting of event loops, crash and
\* reset: a loop of the stack is one the program has, and a file belongs to a vault
\* there has been.
THEOREM ProcessTypes == Spec => []TypeOK
<1>1. ProcessInv => TypeOK
  <2> SUFFICES ASSUME ProcessInv PROVE TypeOK
    OBVIOUS
  <2>1. Typed /\ IInv /\ Fresh
    BY DEF ProcessInv, SessionInv
  <2>2. files \in [File -> 0..MaxVault]
    <3>1. 0 \in 0..MaxVault /\ era \in 0..MaxVault
      BY <2>1, MaxVaultAssumption DEF Typed
    <3> QED
      BY <2>1, <3>1 DEF IInv, Files
  <2>3. ResetTypeOK
    BY <2>1, <2>2 DEF ResetTypeOK, Typed
  <2> QED
    BY <2>1, <2>3 DEF TypeOK, Typed, IInv, Fresh, Gone, Flows, Session, Scheduler, Window, Client
<1> QED
  BY <1>1, ProcessStays, PTL

\* Application's flows, ended by success, refusal, a lock or a failure: in an open
\* program without dialog or flow the scheduler and the account run, the window
\* is enabled with its key, and the auto-lock timer is armed.
THEOREM FlowsEndUsable == Spec => []Usable
<1>1. ProcessInv => Usable
  <2> SUFFICES ASSUME ProcessInv, session.open, ~Modal, ~InFlow
               PROVE  /\ ~sched.paused /\ ~account.paused /\ armed
                      /\ window = [state |-> "shown", enabled |-> TRUE, key |-> "live"]
    BY DEF Usable
  <2>1. Frames /\ Windowed /\ Resumable /\ window \in Window /\ IInv
    BY DEF ProcessInv, SessionInv, Typed
  <2>2. ~session.lockReq /\ ~flow.migration /\ ~flow.confirming /\ ~flow.resetting
    BY <2>1, OpenIsCalm DEF InFlow
  <2>3. /\ ~sched.paused /\ ~account.paused /\ armed
        /\ window.state = "shown" /\ window.enabled /\ window.key = "live"
    BY <2>1, <2>2 DEF Windowed, Resumable
  <2>4. window = [state |-> "shown", enabled |-> TRUE, key |-> "live"]
    BY <2>1, <2>3 DEF Window
  <2> QED
    BY <2>3, <2>4
<1> QED
  BY <1>1, ProcessStays, PTL

\* OnLocked and the ends of the flows that postpone it: a running program that is
\* locked and in no flow has the loop of a password's dialog on its stack.
THEOREM LockAsksAgain == Spec => []LockedAsks
<1>1. ProcessInv => LockedAsks
  BY DEF ProcessInv, SessionInv, Frames, LockedAsks, Prompts
<1> QED
  BY <1>1, ProcessStays, PTL

\* SessionManager::Lock and its listeners: whoever locks, and whenever, nothing is
\* shown, no window holds the key, no secret of ours is on the clipboard and no
\* timer would lock again.
THEOREM LockSeals == Spec => []LockedIsSealed
<1>1. ProcessInv => LockedIsSealed
  BY DEF ProcessInv, SessionInv, Windowed, LockedIsSealed
<1> QED
  BY <1>1, ProcessStays, PTL

\* SyncScheduler's timer and flag across SetPaused, locks, flows and other loops:
\* an edit is not forgotten before a synchronisation takes it up.
THEOREM EditsAreKept == Spec => []EditRemembered
<1>1. ProcessInv => EditRemembered
  BY DEF ProcessInv, SessionInv, Resumable, Kept, EditRemembered
<1> QED
  BY <1>1, ProcessStays, PTL
=============================================================================
