------------------------- MODULE AutoUpdate_proofs -------------------------
(* Theorems about AutoUpdate, for every value of its constants: what holds of *)
(* the screens and the workers still holds with the service beside them.      *)
EXTENDS AutoUpdate, AccountSetup_proofs

-----------------------------------------------------------------------------
(* The steps of the application. *)

\* A resumed client is shown as it was.
LEMMA ResumeShows == TypeOK /\ ResumeClient => Show
<1> SUFFICES ASSUME TypeOK, ResumeClient PROVE ShowClient
  BY DEF Show
<1>1. stack \in Seq(Screens) /\ Len(stack) \in DOMAIN stack
  BY TopExists, LenProperties DEF ResumeClient, ToShow, TypeOK
<1>2. stack[Len(stack)] \in Screens
  BY <1>1, ElementOfSeq, LenProperties
<1>3. [stack EXCEPT ![Len(stack)].view = stack[Len(stack)].view] = stack
  <2>1. stack \in [1 .. Len(stack) -> Screens]
    BY <1>1, LenProperties
  <2>2. [stack[Len(stack)] EXCEPT !.view = stack[Len(stack)].view] = stack[Len(stack)]
    BY <1>2 DEF Screens
  <2> QED
    BY <1>1, <1>2, <2>1, <2>2
<1>4. SetView(Len(stack), stack[Len(stack)].view)
  BY <1>3 DEF SetView, ResumeClient
<1> QED
  BY <1>4 DEF ResumeClient, ShowClient

\* A step is one of AccountSetup, or one of a task of the service that a worker
\* has not.
LEMMA BaseSteps ==
  ASSUME TypeOK, [AppNext]_appVars
  PROVE  \/ [Next]_vars
         \/ ProcessGone
         \/ \E t \in Threads : OnStartCommand(t) \/ SkipFetch(t) \/ EndFetch(t)
<1>1. CASE Screen
  <2>1. Show
    BY <1>1, ResumeShows DEF Screen, CreateClient, Show
  <2> QED
    BY <2>1 DEF Next
<1>2. CASE Touch \/ RotateClient \/ RotateCheck
  BY <1>2 DEF RotateClient, RotateCheck, User, Next
<1>3. CASE SwitchUpdates \/ HandleMessage
  BY <1>3 DEF SwitchUpdates, HandleMessage, OnCreateService, OnDestroyService
<1>4. ASSUME NEW t \in Threads, Fetch(t)
      PROVE  Proceed(t) \/ SkipFetch(t) \/ EndFetch(t)
  BY <1>4 DEF Fetch, Proceed
<1>5. ASSUME NEW t \in Threads, Check(t)
      PROVE  Work(t)
  BY <1>5 DEF Check, Work
<1>6. CASE \E t \in Threads : Fetch(t) \/ Check(t)
  BY <1>4, <1>5, <1>6 DEF Next, Work
<1>7. CASE AppDies
  BY <1>7 DEF AppDies
<1>8. CASE UNCHANGED appVars
  BY <1>8 DEF appVars
<1> QED
  BY <1>1, <1>2, <1>3, <1>6, <1>7, <1>8 DEF AppNext

\* What a step can do to the service.  Only a list drives it.
LEMMA ServiceSteps ==
  ASSUME [AppNext]_appVars
  PROVE  \/ UNCHANGED service
         \/ DriveService(ClientView)
         \/ OnCreateService \/ OnDestroyService
         \/ \E t \in Threads : OnStartCommand(t)
         \/ ServiceGone
<1>1. CASE Screen
  BY <1>1 DEF Screen, CreateClient, ResumeClient
<1>2. CASE \E t \in Threads : Fetch(t) \/ Check(t)
  BY <1>2 DEF Fetch, Check
<1>3. CASE AppDies \/ HandleMessage
  BY <1>3 DEF AppDies, HandleMessage
<1>4. CASE RotateClient \/ RotateCheck \/ SwitchUpdates
  BY <1>4 DEF RotateClient, RotateCheck, SwitchUpdates
<1> QED
  BY <1>1, <1>2, <1>3, <1>4 DEF AppNext, appVars
-----------------------------------------------------------------------------
(* What the tasks of the service do to the invariants of AccountSetup. *)

\* A task ends, and nothing else changes.
LEMMA TaskEnds ==
  ASSUME TypeOK, NEW t \in Threads, SkipFetch(t) \/ EndFetch(t)
  PROVE  /\ Kept /\ UNCHANGED <<prefs, stack, session>>
         /\ \A u \in Threads : thread'[u] = thread[u] \/ thread'[u].pc = "idle"
BY DEF SkipFetch, EndFetch, Kept, prefs, sdcard, ui, history, TypeOK, Idle

\* A task starts with the account the preferences hold.
LEMMA TaskStarts ==
  ASSUME TypeOK, NEW t \in Threads, OnStartCommand(t)
  PROVE  /\ Kept /\ UNCHANGED <<prefs, stack, session>>
         /\ thread'[t].pc = "call" /\ thread'[t].account = account
         /\ \A u \in Threads \ {t} : thread'[u] = thread[u]
BY DEF OnStartCommand, Kept, prefs, sdcard, ui, history, TypeOK, Workers, Idle

\* Types.
LEMMA TaskType ==
  ASSUME TypeOK, NEW t \in Threads, OnStartCommand(t) \/ SkipFetch(t) \/ EndFetch(t)
  PROVE  TypeOK'
<1>1. Idle \in Workers
  BY IdleWorker
<1>2. [Idle EXCEPT !.pc = "call", !.account = account] \in Workers
  BY <1>1 DEF TypeOK, Workers, Steps
<1>3. thread' \in [Threads -> Workers]
  BY <1>1, <1>2 DEF OnStartCommand, SkipFetch, EndFetch, TypeOK
<1> QED
  BY <1>3 DEF TypeOK, OnStartCommand, SkipFetch, EndFetch, prefs, sdcard, ui, history

\* What a task read of the account is what the preferences hold: it read it at once.
LEMMA TaskSound ==
  ASSUME TypeOK, SoundInv,
         NEW t \in Threads, OnStartCommand(t) \/ SkipFetch(t) \/ EndFetch(t)
  PROVE  SoundInv'
<1>1. CASE SkipFetch(t) \/ EndFetch(t)
  <2>1. \A u \in Threads : Settled(u)
    BY <1>1, TaskEnds DEF Settled
  <2> QED
    BY <1>1, <2>1, TaskEnds, SoundQuiet
<1>2. CASE OnStartCommand(t)
  <2>1. /\ UNCHANGED <<account, verified, jar, table, wiped, doubt, session>>
        /\ thread'[t].pc = "call" /\ thread'[t].account = account
        /\ \A u \in Threads \ {t} : thread'[u] = thread[u]
    BY <1>2, TaskStarts DEF Kept
  <2> SUFFICES ASSUME ~ doubt
               PROVE  (ReadsCurrent /\ CardOwn /\ CallsOwn /\ AcceptedOnly)'
    BY <2>1 DEF SoundInv
  <2>2. ReadsCurrent /\ CardOwn /\ CallsOwn /\ AcceptedOnly
    BY DEF SoundInv
  <2>3. ReadsCurrent'
    BY <2>1, <2>2 DEF ReadsCurrent
  <2>4. CardOwn'
    BY <2>1, <2>2 DEF CardOwn, OwnSession
  <2>5. CallsOwn'
    BY <2>1, <2>2 DEF CallsOwn, Calling, OwnSession
  <2>6. AcceptedOnly'
    BY <2>1, <2>2 DEF AcceptedOnly, At, AfterWipe
  <2> QED
    BY <2>3, <2>4, <2>5, <2>6
<1> QED
  BY <1>1, <1>2

\* A start command finds an account entered.
LEMMA TaskEntered ==
  ASSUME TypeOK, EnteredInv, ServiceEntered,
         NEW t \in Threads, OnStartCommand(t) \/ SkipFetch(t) \/ EndFetch(t)
  PROVE  EnteredInv'
<1>1. CASE SkipFetch(t) \/ EndFetch(t)
  <2>1. \A u \in Threads : HasRead(u)'
    BY <1>1, TaskEnds, ReadQuiet DEF EnteredInv
  <2>2. Untouched => Untouched'
    BY <1>1, TaskEnds DEF Untouched, Unarmed, Running, prefs
  <2> QED
    BY <1>1, <2>1, <2>2, TaskEnds DEF EnteredInv, Kept
<1>2. CASE OnStartCommand(t)
  <2>1. account \in Credentials
    BY <1>2 DEF ServiceEntered, OnStartCommand, Handle
  <2>2. account.email # Null /\ account.password # Null
    BY <2>1, NullAssumption DEF Credentials
  <2>3. \A u \in Threads : HasRead(u)'
    BY <1>2, <2>2, TaskStarts DEF EnteredInv, HasRead
  <2>4. account' = account
    BY <1>2, TaskStarts DEF Kept
  <2> QED
    BY <2>1, <2>3, <2>4 DEF EnteredInv
<1> QED
  BY <1>1, <1>2

\* A task of the service is nobody's answer.
LEMMA TaskAnswers ==
  ASSUME TypeOK, AnswerInv,
         NEW t \in Threads, OnStartCommand(t) \/ SkipFetch(t) \/ EndFetch(t)
  PROVE  AnswerInv'
<1>1. CASE SkipFetch(t) \/ EndFetch(t)
  BY <1>1, TaskEnds, AnswerQuiet DEF WorkersGoOn, Running
<1>2. CASE OnStartCommand(t)
  <2>1. thread'[t].owner = NoId
    BY <1>2 DEF OnStartCommand, TypeOK, Idle
  <2>2. WorkersGoOn
    BY <1>2, <2>1, TaskStarts, NoIdAssumption DEF WorkersGoOn, Running
  <2> QED
    BY <1>2, <2>2, TaskStarts, AnswerQuiet
<1> QED
  BY <1>1, <1>2
-----------------------------------------------------------------------------
(* The invariants of AccountSetup in the application. *)

\* Together they are inductive: a task of the service needs an account, and the
\* service is started by a list, which needs a verified one.
BaseInv == TypeOK /\ SoundInv /\ EnteredInv /\ AnswerInv /\ ServiceEntered

\* The end of the process takes the service with it, or leaves its commands.
LEMMA GoneKeeps ==
  ASSUME TypeOK, SoundInv, EnteredInv, ProcessGone
  PROVE  (TypeOK /\ SoundInv /\ EnteredInv)'
<1>1. TypeOK' /\ SoundInv'
  BY ProcessGoneType, ProcessGoneSound
<1>2. \A t \in Threads : HasRead(t)'
  BY ReadQuiet DEF EnteredInv, ProcessGone, Idle
<1>3. account' = account
  BY DEF ProcessGone, prefs
<1>4. (account \in Credentials \/ Untouched)'
  BY <1>3, ProcessGoneUntouched DEF EnteredInv
<1> QED
  BY <1>1, <1>2, <1>4 DEF EnteredInv

\* The account, once entered, is entered after any step of the application.
LEMMA AccountStays ==
  ASSUME TypeOK, account \in Credentials, [AppNext]_appVars
  PROVE  account' \in Credentials
<1>1. CASE [Next]_vars
  BY <1>1, EnteredStays
<1>2. CASE ProcessGone
  BY <1>2 DEF ProcessGone, prefs
<1>3. CASE \E t \in Threads : OnStartCommand(t) \/ SkipFetch(t) \/ EndFetch(t)
  BY <1>3 DEF OnStartCommand, SkipFetch, EndFetch, prefs
<1> QED
  BY <1>1, <1>2, <1>3, BaseSteps

\* Nothing starts the service before an account was verified.
LEMMA EnteredFirst ==
  ASSUME BaseInv, [AppNext]_appVars
  PROVE  ServiceEntered'
<1> USE DEF BaseInv
<1> SUFFICES ASSUME ~ (account \in Credentials)
             PROVE  ~ started' /\ messages' = << >>
  BY AccountStays DEF ServiceEntered
<1>1. Untouched /\ ~ started /\ messages = << >>
  BY DEF EnteredInv, ServiceEntered
<1>2. ClientView # "list"
  BY <1>1 DEF Untouched, ClientView
<1>3. CASE DriveService(ClientView)
  BY <1>1, <1>2, <1>3 DEF DriveService
<1>4. ~ OnCreateService /\ ~ OnDestroyService /\ \A t \in Threads : ~ OnStartCommand(t)
  BY <1>1 DEF OnCreateService, OnDestroyService, OnStartCommand, Handle
<1>5. CASE ServiceGone \/ UNCHANGED service
  BY <1>1, <1>5 DEF ServiceGone, service
<1> QED
  BY <1>3, <1>4, <1>5, ServiceSteps

\* Every step keeps them.
LEMMA BaseStep == BaseInv /\ [AppNext]_appVars => BaseInv'
<1> SUFFICES ASSUME BaseInv, [AppNext]_appVars PROVE BaseInv'
  OBVIOUS
<1>0. TypeOK /\ SoundInv /\ EnteredInv /\ AnswerInv /\ ServiceEntered
  BY DEF BaseInv
<1>1. CASE [Next]_vars
  BY <1>0, <1>1, EnteredFirst, NextType, NextSound, NextEnteredInv, NextAnswers DEF BaseInv
<1>2. CASE ProcessGone
  BY <1>0, <1>2, EnteredFirst, GoneKeeps, ProcessGoneAnswers DEF BaseInv
<1>3. CASE \E t \in Threads : OnStartCommand(t) \/ SkipFetch(t) \/ EndFetch(t)
  BY <1>0, <1>3, EnteredFirst, TaskType, TaskSound, TaskEntered, TaskAnswers DEF BaseInv
<1> QED
  BY <1>0, <1>1, <1>2, <1>3, BaseSteps

LEMMA BaseHolds == AppSpec => []BaseInv
<1>1. AppInit => BaseInv
  BY InitType, InitSound, InitEntered, InitAnswers DEF AppInit, BaseInv, ServiceEntered
<1> QED
  BY <1>1, BaseStep, PTL DEF AppSpec

\* With the service beside the check screens, and whatever it fetches when, a
\* verified account is still one AdSense accepts, and the card is its own.
THEOREM ServiceKeepsAccountSound == AppSpec => []AccountSound
<1>1. BaseInv => AccountSound
  BY SoundInvSound DEF BaseInv
<1> QED
  BY <1>1, BaseHolds, PTL

\* No task of the service, and no worker, calls with a preference it did not find.
THEOREM ServiceFindsPreferences == AppSpec => []CredentialsPresent
<1>1. BaseInv => CredentialsPresent
  BY EnteredPresent DEF BaseInv
<1> QED
  BY <1>1, BaseHolds, PTL

\* A fetch of the service answers no check screen, and takes no answer from one.
THEOREM ServiceKeepsAnswers == AppSpec => []OneAnswerPerScreen
<1>1. BaseInv => OneAnswerPerScreen
  BY DEF BaseInv, AnswerInv
<1> QED
  BY <1>1, BaseHolds, PTL
-----------------------------------------------------------------------------
(* The messages for the service. *)

\* A queue with one message more.
LEMMA MessageAppended ==
  ASSUME NEW s \in Seq(Messages), NEW m \in Messages
  PROVE  /\ Append(s, m) \in Seq(Messages)
         /\ DOMAIN Append(s, m) = 1 .. Len(s) + 1
         /\ Len(Append(s, m)) = Len(s) + 1
         /\ Append(s, m) # << >>
         /\ \A i \in 1 .. Len(s) : Append(s, m)[i] = s[i]
         /\ Append(s, m)[Len(s) + 1] = m
  BY AppendProperties, LenProperties

\* What is left when its first message was handled.
LEMMA MessageHandled ==
  ASSUME NEW s \in Seq(Messages), s # << >>
  PROVE  /\ Head(s) = s[1] /\ Tail(s) \in Seq(Messages)
         /\ DOMAIN s = 1 .. Len(s) /\ DOMAIN Tail(s) = 1 .. Len(s) - 1
         /\ Len(s) \in Nat \ {0} /\ Len(Tail(s)) = Len(s) - 1
         /\ Tail(s) = << >> <=> Len(s) = 1
         /\ \A i \in 1 .. Len(s) - 1 : Tail(s)[i] = s[i + 1]
<1>1. /\ Tail(s) \in Seq(Messages) /\ Len(Tail(s)) = Len(s) - 1
      /\ \A i \in 1 .. Len(Tail(s)) : Tail(s)[i] = s[i + 1]
  BY HeadTailProperties
<1>2. Len(s) \in Nat \ {0} /\ DOMAIN s = 1 .. Len(s) /\ DOMAIN Tail(s) = 1 .. Len(Tail(s))
  BY <1>1, LenProperties, EmptySeq
<1>3. Tail(s) = << >> <=> Len(Tail(s)) = 0
  BY <1>1, EmptySeq
<1>4. Head(s) = s[1]
  OBVIOUS
<1> QED
  BY <1>1, <1>2, <1>3, <1>4

\* The queue of a service that was started again.
LEMMA Redelivered ==
  ASSUME NEW n \in Nat \ {0}
  PROVE  LET queue == <<"create">> \o [i \in 1 .. n |-> "command"]
         IN  /\ queue \in Seq(Messages) /\ DOMAIN queue = 1 .. n + 1
             /\ Len(queue) = n + 1 /\ queue # << >> /\ queue[1] = "create"
             /\ \A i \in 2 .. n + 1 : queue[i] = "command"
<1> DEFINE commands == [i \in 1 .. n |-> "command"]
           queue == <<"create">> \o commands
<1>1. commands \in Seq(Messages) /\ Len(commands) = n
  BY DEF Messages
<1>2. <<"create">> \in Seq(Messages) /\ Len(<<"create">>) = 1 /\ <<"create">>[1] = "create"
  BY DEF Messages
<1>3. \A i \in 1 .. n : commands[i] = "command"
  OBVIOUS
<1> HIDE DEF commands
<1>4. /\ queue \in Seq(Messages) /\ Len(queue) = n + 1
      /\ \A i \in 1 .. n + 1 : queue[i] = IF i <= 1 THEN <<"create">>[i] ELSE commands[i - 1]
  BY <1>1, <1>2, ConcatProperties
<1>5. DOMAIN queue = 1 .. n + 1 /\ queue # << >>
  BY <1>4, LenProperties, EmptySeq
<1> QED
  BY <1>2, <1>3, <1>4, <1>5 DEF commands

\* What the service's state and the queue are typed as.
ServiceType ==
  serviceState \in BOOLEAN /\ started \in BOOLEAN /\ messages \in Seq(Messages)

\* A start: the queue ends in a command, created for if it was stopped.
LEMMA StartKeeps ==
  ASSUME ServiceType, ServiceInv, StartService, UNCHANGED serviceState
  PROVE  ServiceType' /\ ServiceInv'
<1>1. messages \in Seq(Messages) /\ Len(messages) \in Nat /\ DOMAIN messages = 1 .. Len(messages)
  BY LenProperties DEF ServiceType
<1>2. messages = << >> <=> Len(messages) = 0
  BY <1>1, EmptySeq
<1>3. "create" \in Messages /\ "command" \in Messages
  BY DEF Messages
<1>4. CASE started
  <2>1. messages' = Append(messages, "command") /\ started'
    BY <1>4 DEF StartService
  <2>2. /\ messages' \in Seq(Messages) /\ DOMAIN messages' = 1 .. Len(messages) + 1
        /\ Len(messages') = Len(messages) + 1 /\ messages' # << >>
        /\ \A i \in 1 .. Len(messages) : messages'[i] = messages[i]
        /\ messages'[Len(messages) + 1] = "command"
    BY <1>1, <1>3, <2>1, MessageAppended
  <2>3. StateAgrees' /\ LastMessageAgrees'
    BY <2>1, <2>2 DEF StateAgrees, LastMessageAgrees
  <2>4. Len(messages) = 0 => serviceState
    BY <1>2, <1>4 DEF ServiceInv, StateAgrees
  <2>5. Len(messages) > 0 => messages[Len(messages)] \in {"create", "command"}
    BY <1>1, <1>2, <1>4, ElementOfSeq DEF ServiceInv, LastMessageAgrees, Messages
  <2>6. ASSUME NEW i \in 1 .. Len(messages) + 1, messages'[i] = "command"
        PROVE  IF i = 1 THEN serviceState' ELSE messages'[i - 1] \in {"create", "command"}
    <3>1. CASE i \in 1 .. Len(messages)
      <4>1. i # 1 => i - 1 \in 1 .. Len(messages)
        BY <1>1, <3>1
      <4>2. IF i = 1 THEN serviceState ELSE messages[i - 1] \in {"create", "command"}
        BY <1>1, <2>2, <2>6, <3>1 DEF ServiceInv, CommandsReachService
      <4> QED
        BY <2>2, <4>1, <4>2
    <3>2. CASE i = Len(messages) + 1
      BY <1>1, <2>2, <2>4, <2>5, <3>2
    <3> QED
      BY <1>1, <3>1, <3>2
  <2>7. CommandsReachService'
    BY <2>2, <2>6 DEF CommandsReachService
  <2> QED
    BY <2>1, <2>2, <2>3, <2>7 DEF ServiceInv, ServiceType
<1>5. CASE ~ started
  <2> DEFINE created == Append(messages, "create")
  <2>1. messages' = Append(created, "command") /\ started'
    BY <1>5 DEF StartService
  <2>2. /\ created \in Seq(Messages) /\ Len(created) = Len(messages) + 1
        /\ \A i \in 1 .. Len(messages) : created[i] = messages[i]
        /\ created[Len(messages) + 1] = "create"
    BY <1>1, <1>3, MessageAppended
  <2> HIDE DEF created
  <2>3. /\ messages' \in Seq(Messages) /\ DOMAIN messages' = 1 .. Len(messages) + 2
        /\ Len(messages') = Len(messages) + 2 /\ messages' # << >>
        /\ \A i \in 1 .. Len(messages) + 1 : messages'[i] = created[i]
        /\ messages'[Len(messages) + 2] = "command"
    <3>1. Len(created) + 1 = Len(messages) + 2
      BY <1>1, <2>2
    <3> QED
      BY <1>3, <2>1, <2>2, <3>1, MessageAppended
  <2>4. StateAgrees' /\ LastMessageAgrees'
    BY <2>1, <2>3 DEF StateAgrees, LastMessageAgrees
  <2>5. ASSUME NEW i \in 1 .. Len(messages) + 2, messages'[i] = "command"
        PROVE  IF i = 1 THEN serviceState' ELSE messages'[i - 1] \in {"create", "command"}
    <3>1. CASE i \in 1 .. Len(messages)
      <4>1. /\ i \in 1 .. Len(messages) + 1
            /\ i # 1 => i - 1 \in 1 .. Len(messages) /\ i - 1 \in 1 .. Len(messages) + 1
        BY <1>1, <3>1
      <4>2. messages[i] = "command" /\ i \in DOMAIN messages
        BY <1>1, <2>2, <2>3, <2>5, <3>1, <4>1
      <4>3. IF i = 1 THEN serviceState ELSE messages[i - 1] \in {"create", "command"}
        BY <4>2 DEF ServiceInv, CommandsReachService
      <4> QED
        BY <2>2, <2>3, <4>1, <4>3
    <3>2. CASE i = Len(messages) + 1
      BY <1>1, <2>2, <2>3, <2>5, <3>2
    <3>3. CASE i = Len(messages) + 2
      BY <1>1, <2>2, <2>3, <3>3
    <3> QED
      BY <1>1, <3>1, <3>2, <3>3
  <2>6. CommandsReachService'
    BY <2>3, <2>5 DEF CommandsReachService
  <2> QED
    BY <2>1, <2>3, <2>4, <2>6 DEF ServiceInv, ServiceType
<1> QED
  BY <1>4, <1>5 DEF ServiceType

\* A stop: the queue ends in it.
LEMMA StopKeeps ==
  ASSUME ServiceType, ServiceInv, StopService, UNCHANGED serviceState
  PROVE  ServiceType' /\ ServiceInv'
<1>1. messages \in Seq(Messages) /\ Len(messages) \in Nat /\ DOMAIN messages = 1 .. Len(messages)
  BY LenProperties DEF ServiceType
<1>2. "stop" \in Messages
  BY DEF Messages
<1>3. CASE started
  <2>1. messages' = Append(messages, "stop") /\ started' = FALSE
    BY <1>3 DEF StopService
  <2>2. /\ messages' \in Seq(Messages) /\ DOMAIN messages' = 1 .. Len(messages) + 1
        /\ Len(messages') = Len(messages) + 1 /\ messages' # << >>
        /\ \A i \in 1 .. Len(messages) : messages'[i] = messages[i]
        /\ messages'[Len(messages) + 1] = "stop"
    BY <1>1, <1>2, <2>1, MessageAppended
  <2>3. StateAgrees' /\ LastMessageAgrees'
    BY <2>1, <2>2 DEF StateAgrees, LastMessageAgrees
  <2>4. ASSUME NEW i \in 1 .. Len(messages) + 1, messages'[i] = "command"
        PROVE  IF i = 1 THEN serviceState' ELSE messages'[i - 1] \in {"create", "command"}
    <3>1. i \in 1 .. Len(messages)
      BY <1>1, <2>2, <2>4
    <3>2. i # 1 => i - 1 \in 1 .. Len(messages)
      BY <1>1, <3>1
    <3>3. IF i = 1 THEN serviceState ELSE messages[i - 1] \in {"create", "command"}
      BY <1>1, <2>2, <2>4, <3>1 DEF ServiceInv, CommandsReachService
    <3> QED
      BY <2>2, <3>2, <3>3
  <2>5. CommandsReachService'
    BY <2>2, <2>4 DEF CommandsReachService
  <2> QED
    BY <2>1, <2>2, <2>3, <2>5 DEF ServiceInv, ServiceType
<1>4. CASE ~ started
  <2>1. messages' = messages /\ started' = FALSE
    BY <1>4 DEF StopService
  <2> QED
    BY <1>4, <2>1 DEF ServiceType, ServiceInv, StateAgrees, LastMessageAgrees, CommandsReachService
<1> QED
  BY <1>3, <1>4 DEF ServiceType

\* A message handled: a command found the service created, a stop leaves none, and
\* a creation is not the last.
LEMMA HandleKeeps ==
  ASSUME ServiceType, ServiceInv,
         OnCreateService \/ OnDestroyService \/ \E t \in Threads : OnStartCommand(t)
  PROVE  ServiceType' /\ ServiceInv'
<1>1. /\ messages # << >> /\ messages' = Tail(messages) /\ UNCHANGED started
      /\ \/ Head(messages) = "create" /\ serviceState' = TRUE
         \/ Head(messages) = "stop" /\ serviceState' = FALSE
         \/ Head(messages) = "command" /\ serviceState' = serviceState
  BY DEF OnCreateService, OnDestroyService, OnStartCommand, Handle
<1>2. /\ Head(messages) = messages[1] /\ messages' \in Seq(Messages)
      /\ DOMAIN messages = 1 .. Len(messages) /\ DOMAIN messages' = 1 .. Len(messages) - 1
      /\ Len(messages) \in Nat \ {0} /\ Len(messages') = Len(messages) - 1
      /\ messages' = << >> <=> Len(messages) = 1
      /\ \A i \in 1 .. Len(messages) - 1 : messages'[i] = messages[i + 1]
  BY <1>1, MessageHandled DEF ServiceType
<1>3. /\ messages[Len(messages)] # "create"
      /\ started <=> messages[Len(messages)] # "stop"
  BY <1>1 DEF ServiceInv, LastMessageAgrees
<1>4. \A i \in 1 .. Len(messages) : messages[i] = "command" =>
        IF i = 1 THEN serviceState ELSE messages[i - 1] \in {"create", "command"}
  BY <1>2 DEF ServiceInv, CommandsReachService
<1>5. messages[1] = "command" => serviceState
  BY <1>2, <1>4
<1>6. ServiceType'
  BY <1>1, <1>2 DEF ServiceType
<1>7. StateAgrees'
  <2> SUFFICES ASSUME Len(messages) = 1 PROVE serviceState' = started
    BY <1>1, <1>2 DEF StateAgrees
  <2> QED
    BY <1>1, <1>2, <1>3, <1>5 DEF ServiceType
<1>8. LastMessageAgrees'
  <2> SUFFICES ASSUME Len(messages) # 1
               PROVE  /\ messages'[Len(messages')] # "create"
                      /\ started <=> messages'[Len(messages')] # "stop"
    BY <1>1, <1>2 DEF LastMessageAgrees
  <2>1. messages'[Len(messages')] = messages[Len(messages)]
    BY <1>2
  <2> QED
    BY <1>3, <2>1
<1>9. ASSUME NEW i \in 1 .. Len(messages) - 1, messages'[i] = "command"
      PROVE  IF i = 1 THEN serviceState' ELSE messages'[i - 1] \in {"create", "command"}
  <2>1. i + 1 \in 1 .. Len(messages) /\ messages[i + 1] = "command" /\ i + 1 # 1
    BY <1>2, <1>9
  <2>2. messages[i] \in {"create", "command"}
    BY <1>4, <2>1
  <2>3. CASE i = 1
    BY <1>1, <1>2, <1>5, <2>2, <2>3
  <2>4. CASE i # 1
    BY <1>2, <2>2, <2>4
  <2> QED
    BY <2>3, <2>4
<1>10. CommandsReachService'
  BY <1>2, <1>9 DEF CommandsReachService
<1> QED
  BY <1>6, <1>7, <1>8, <1>10 DEF ServiceInv

\* The end of the process: nothing, or a service created for its commands.
LEMMA GoneService ==
  ASSUME ServiceType, ServiceInv, ServiceGone
  PROVE  ServiceType' /\ ServiceInv'
<1>1. CASE started' = FALSE /\ messages' = << >>
  <2>1. serviceState' = FALSE
    BY DEF ServiceGone
  <2>2. << >> \in Seq(Messages) /\ DOMAIN << >> = {}
    BY EmptySeq
  <2> QED
    BY <1>1, <2>1, <2>2 DEF ServiceType, ServiceInv, StateAgrees, LastMessageAgrees,
       CommandsReachService
<1>2. CASE /\ started /\ UNCHANGED started
           /\ \E n \in 1 .. Undelivered : messages' = <<"create">> \o [i \in 1 .. n |-> "command"]
  <2>0. PICK n \in 1 .. Undelivered : messages' = <<"create">> \o [i \in 1 .. n |-> "command"]
    BY <1>2, Zenon
  <2>1. n \in Nat \ {0} /\ messages' = <<"create">> \o [i \in 1 .. n |-> "command"]
    <3>1. \A m, k : k \in 1 .. m => k \in Nat \ {0}
      OBVIOUS
    <3> QED
      BY <2>0, <3>1, Zenon
  <2>2. /\ messages' \in Seq(Messages) /\ DOMAIN messages' = 1 .. n + 1
        /\ Len(messages') = n + 1 /\ messages' # << >> /\ messages'[1] = "create"
        /\ \A i \in 2 .. n + 1 : messages'[i] = "command"
    BY <2>1, Redelivered
  <2>3. StateAgrees'
    BY <2>2 DEF StateAgrees
  <2>4. LastMessageAgrees'
    BY <1>2, <2>2 DEF LastMessageAgrees
  <2>5. CommandsReachService'
    BY <2>2 DEF CommandsReachService
  <2> QED
    BY <1>2, <2>2, <2>3, <2>4, <2>5 DEF ServiceGone, ServiceType, ServiceInv
<1> QED
  BY <1>1, <1>2 DEF ServiceGone

\* Every step of the application keeps what queue and state say of each other.
LEMMA ServiceStep == ServiceType /\ ServiceInv /\ [AppNext]_appVars => ServiceType' /\ ServiceInv'
<1> SUFFICES ASSUME ServiceType, ServiceInv, [AppNext]_appVars PROVE ServiceType' /\ ServiceInv'
  OBVIOUS
<1>1. CASE UNCHANGED service
  BY <1>1 DEF service, ServiceType, ServiceInv, StateAgrees, LastMessageAgrees, CommandsReachService
<1>2. CASE DriveService(ClientView)
  <2>1. CASE UNCHANGED <<started, messages>>
    BY <1>1, <1>2, <2>1 DEF DriveService, service
  <2> QED
    BY <1>2, <2>1, StartKeeps, StopKeeps DEF DriveService
<1> QED
  BY <1>1, <1>2, HandleKeeps, GoneService, ServiceSteps

\* The switch is a switch.
LEMMA SwitchStep == automatic \in BOOLEAN /\ [AppNext]_appVars => automatic' \in BOOLEAN
<1> SUFFICES ASSUME automatic \in BOOLEAN, [AppNext]_appVars PROVE automatic' \in BOOLEAN
  OBVIOUS
<1>1. CASE SwitchUpdates
  BY <1>1 DEF SwitchUpdates
<1>2. CASE AppNext /\ ~ SwitchUpdates
  BY <1>2 DEF AppNext, Screen, CreateClient, ResumeClient, RotateClient, RotateCheck, DriveService,
     HandleMessage, OnCreateService, OnDestroyService, OnStartCommand, Fetch, Check, AppDies,
     ServiceGone
<1> QED
  BY <1>1, <1>2 DEF appVars

LEMMA ServiceHolds == AppSpec => [](ServiceType /\ ServiceInv /\ automatic \in BOOLEAN)
<1>1. AppInit => ServiceType /\ ServiceInv /\ automatic \in BOOLEAN
  <2>1. << >> \in Seq(Messages) /\ DOMAIN << >> = {}
    BY EmptySeq
  <2> QED
    BY <2>1 DEF AppInit, ServiceType, ServiceInv, StateAgrees, LastMessageAgrees,
       CommandsReachService
<1>2. (ServiceType /\ ServiceInv /\ automatic \in BOOLEAN) /\ [AppNext]_appVars
        => (ServiceType /\ ServiceInv /\ automatic \in BOOLEAN)'
  BY ServiceStep, SwitchStep
<1> QED
  BY <1>1, <1>2, PTL DEF AppSpec

\* Types, with any number of messages waiting.
THEOREM AppTypeCorrect == AppSpec => []AppTypeOK
<1>1. BaseInv /\ ServiceType /\ automatic \in BOOLEAN => AppTypeOK
  BY DEF BaseInv, ServiceType, AppTypeOK
<1> QED
  BY <1>1, BaseHolds, ServiceHolds, PTL

\* A list made while nothing waits for the service leaves it started if, and only
\* if, updates are on, whatever starts, stops and ends of the process came before.
THEOREM SwitchFollowed == AppSpec => ServiceFollowsSwitch
<1>1. ASSUME ServiceType /\ ServiceInv /\ automatic \in BOOLEAN
      PROVE  (CreateClient \/ RotateClient) /\ ClientView = "list" /\ messages = << >> =>
               started' = automatic
  <2> SUFFICES ASSUME CreateClient \/ RotateClient, ClientView = "list", messages = << >>
               PROVE  started' = automatic
    OBVIOUS
  <2>1. DriveService("list")
    BY DEF CreateClient, RotateClient
  <2>2. serviceState = started
    BY <1>1 DEF ServiceInv, StateAgrees
  <2>3. CASE automatic /\ ~ serviceState
    BY <1>1, <2>1, <2>3 DEF DriveService, StartService
  <2>4. CASE ~ automatic /\ serviceState
    BY <1>1, <2>1, <2>4 DEF DriveService, StopService
  <2>5. CASE automatic = serviceState
    BY <1>1, <2>1, <2>2, <2>5 DEF DriveService, ServiceType
  <2> QED
    BY <1>1, <2>3, <2>4, <2>5 DEF ServiceType
<1>2. (ServiceType /\ ServiceInv /\ automatic \in BOOLEAN)
        => [(CreateClient \/ RotateClient) /\ ClientView = "list" /\ messages = << >> =>
              started' = automatic]_appVars
  BY <1>1
<1> QED
  BY <1>2, ServiceHolds, PTL DEF ServiceFollowsSwitch
=============================================================================
