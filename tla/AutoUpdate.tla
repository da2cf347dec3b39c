----------------------------- MODULE AutoUpdate -----------------------------
(***************************************************************************)
(* The application with its automatic updates: AccountSetup composed with  *)
(* AdsenseDataService, which the client screen starts and stops and which  *)
(* makes the native call from a task of its own for each start command.    *)
(*                                                                         *)
(* A task of the service is a thread of AccountSetup that no check screen  *)
(* owns; its call is the five steps of ReportCall, as a worker's is.       *)
(*                                                                         *)
(* startService and stopService go to the system, which knows at once      *)
(* whether the service is started and posts messages to the UI thread;     *)
(* the service's callbacks, and with them the state the client looks at,   *)
(* follow when the messages are handled.                                   *)
(***************************************************************************)
EXTENDS AccountSetup

CONSTANT MaxMessages   \* messages for the service the UI thread can be behind (a bound)

ASSUME MaxMessagesAssumption == MaxMessages \in Nat

VARIABLES automatic,      \* preference "automatic_updates"
          serviceState,   \* AdsenseDataServiceState of the application object
          started,        \* the system has the service started
          messages        \* what the UI thread has to handle for the service

service == <<serviceState, started, messages>>
appVars == <<vars, automatic, service>>

Messages == {"create", "command", "stop"}

AppTypeOK ==
  /\ TypeOK
  /\ automatic \in BOOLEAN /\ serviceState \in BOOLEAN /\ started \in BOOLEAN
  /\ messages \in Seq(Messages)

AppInit ==
  /\ Init
  /\ automatic = TRUE
  /\ serviceState = FALSE /\ started = FALSE /\ messages = << >>
-----------------------------------------------------------------------------
(* AdsenseClient.onCreate drives the service. *)

StartService ==
  /\ started' = TRUE
  /\ messages' = Append(IF started THEN messages ELSE Append(messages, "create"), "command")

StopService ==
  /\ started' = FALSE
  /\ messages' = IF started THEN Append(messages, "stop") ELSE messages

\* Mutant: the splash screen starts it too.
AnyScreenDrivesService(view) ==
  /\ Len(messages) < MaxMessages
  /\ CASE automatic /\ ~ serviceState -> StartService
       [] ~ automatic /\ serviceState -> StopService
       [] OTHER -> UNCHANGED <<started, messages>>
  /\ UNCHANGED <<automatic, serviceState>>

\* Both lists start and stop the service, the splash screen does not.  What they
\* go by is the state the service itself reported last.
DriveService(view) ==
  /\ Len(messages) < MaxMessages
  /\ CASE view = "list" /\ automatic /\ ~ serviceState -> StartService
       [] view = "list" /\ ~ automatic /\ serviceState -> StopService
       [] OTHER -> UNCHANGED <<started, messages>>
  /\ UNCHANGED <<automatic, serviceState>>

\* onCreate of a new client, or of one resumed after the theme was changed.
CreateClient ==
  /\ ShowClient
  /\ stack'[Len(stack)].view = ClientView
  /\ DriveService(ClientView)

\* onResume alone.
ResumeClient ==
  /\ ToShow("client") /\ ~ Unborn
  /\ front' = Len(stack)
  /\ UNCHANGED <<stack, prefs, sdcard, workers, history, automatic, service>>

RotateClient ==
  /\ Rotate
  /\ stack[front].kind = "client"
  /\ DriveService(ClientView)

RotateCheck ==
  /\ Rotate
  /\ stack[front].kind # "client"
  /\ UNCHANGED <<automatic, service>>

\* The check box of the preferences screen.
SwitchUpdates ==
  /\ InFront("prefs", {"form"})
  /\ automatic' = ~ automatic
  /\ UNCHANGED <<vars, service>>
-----------------------------------------------------------------------------
(* AdsenseDataService, on the UI thread. *)

Handle(message) == messages # << >> /\ Head(messages) = message /\ messages' = Tail(messages)

OnCreateService ==
  /\ Handle("create")
  /\ serviceState' = TRUE
  /\ UNCHANGED <<vars, automatic, started>>

\* Mutant: onDestroy leaves the state as it is.
OnDestroyKeepsState ==
  /\ Handle("stop")
  /\ UNCHANGED <<vars, automatic, serviceState, started>>

\* Nothing stops the tasks that still run.
OnDestroyService ==
  /\ Handle("stop")
  /\ serviceState' = FALSE
  /\ UNCHANGED <<vars, automatic, started>>

\* The account is read on the UI thread, where the form commits it too.
OnStartCommand(t) ==
  /\ Handle("command")
  /\ ~ Running(t)
  /\ thread' = [thread EXCEPT ![t] = [Idle EXCEPT !.pc = "call", !.account = account]]
  /\ UNCHANGED <<prefs, sdcard, ui, session, history, automatic, serviceState, started>>
-----------------------------------------------------------------------------
(* The end of the process. *)

Undelivered == Len(SelectSeq(messages, LAMBDA m : m = "command"))

\* The state is lost with the application object.  The service is not sticky: it
\* comes back only for start commands that were not delivered.
ServiceGone ==
  /\ serviceState' = FALSE
  /\ \/ started' = FALSE /\ messages' = << >>
     \/ /\ started
        /\ \E n \in 1 .. Undelivered :
             messages' = <<"create">> \o [i \in 1 .. n |-> "command"]
        /\ UNCHANGED started
  /\ UNCHANGED automatic

AppDies == (stack # << >> \/ started \/ \E t \in Threads : Running(t)) /\ ProcessGone /\ ServiceGone
-----------------------------------------------------------------------------
(* The tasks of the service. *)

IsFetch(t) == Running(t) /\ thread[t].owner = NoId

\* Offline, or status 1.
SkipFetch(t) ==
  /\ At(t, "call")
  /\ thread' = [thread EXCEPT ![t] = Idle]
  /\ UNCHANGED <<prefs, sdcard, ui, session, history>>

\* The status is thrown away.
EndFetch(t) ==
  /\ At(t, "open") \/ At(t, "post")
  /\ thread' = [thread EXCEPT ![t] = Idle]
  /\ UNCHANGED <<prefs, sdcard, ui, session, history>>

Fetch(t) ==
  /\ IsFetch(t)
  /\ \/ SkipFetch(t) \/ EnterCall(t) \/ FailCall(t) \/ BeginTable(t)
     \/ CloseTable(t) \/ FinishCall(t) \/ EndFetch(t)
  /\ UNCHANGED <<automatic, service>>

Check(t) ==
  /\ ~ IsFetch(t)
  /\ \/ Proceed(t) /\ UNCHANGED <<automatic, service>>
     \/ ShowDialogTooLate(t) /\ ServiceGone
-----------------------------------------------------------------------------
Screen ==
  \/ CreateClient \/ ResumeClient
  \/ (ShowForm \/ CreateCheck \/ ResumeCheck) /\ UNCHANGED <<automatic, service>>

HandleMessage ==
  OnCreateService \/ OnDestroyService \/ \E t \in Threads : OnStartCommand(t)

AppNext ==
  \/ Screen
  \/ Touch /\ UNCHANGED <<automatic, service>>
  \/ RotateClient \/ RotateCheck \/ SwitchUpdates
  \/ HandleMessage
  \/ \E t \in Threads : Fetch(t) \/ Check(t)
  \/ AppDies

AppSpec == AppInit /\ [][AppNext]_appVars

\* The UI thread handles its messages and shows the top of the stack, Android runs
\* the tasks and the workers, and a transfer ends.
AppFairness ==
  /\ WF_appVars(Screen) /\ WF_appVars(HandleMessage)
  /\ \A t \in Threads : WF_appVars(Fetch(t)) /\ WF_appVars(Check(t))

FairAppSpec == AppSpec /\ AppFairness
-----------------------------------------------------------------------------
(* Properties, beside AccountSound, CredentialsPresent and OneAnswerPerScreen of *)
(* AccountSetup, which hold with the service as they do without it.              *)

\* A list that is made while the UI thread has nothing to do for the service leaves
\* it started if, and only if, updates are switched on: the state kept in memory
\* agrees with the system however often the service was started, stopped and lost
\* with its process.
ServiceFollowsSwitch ==
  [][messages = << >> /\ ClientView = "list" /\ (CreateClient \/ RotateClient) =>
       started' = automatic]_appVars

\* Its inductive strengthening, in parts.  Once the UI thread has nothing left to
\* do, the state in memory is what the system knows ...
StateAgrees == messages = << >> => serviceState = started

\* ... the last message tells what the system knows ...
LastMessageAgrees ==
  messages # << >> =>
    /\ messages[Len(messages)] # "create"
    /\ started <=> messages[Len(messages)] # "stop"

\* ... and a start command reaches a service that was created and not destroyed
\* since.
CommandsReachService ==
  \A i \in DOMAIN messages : messages[i] = "command" =>
    IF i = 1 THEN serviceState ELSE messages[i - 1] \in {"create", "command"}

ServiceInv == StateAgrees /\ LastMessageAgrees /\ CommandsReachService

\* No service without an account: the list that starts it is of a verified one.
ServiceEntered == started \/ messages # << >> => account \in Credentials

\* The summary of the preferences, "Updates are fetched every {0}.": as long as the
\* service is on, another fetch comes.  Refuted: see the README.
UpdatesFetched ==
  (automatic /\ serviceState)
    ~> (~ automatic \/ ~ serviceState \/ \E t \in Threads : IsFetch(t))
=============================================================================
