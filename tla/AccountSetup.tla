---------------------------- MODULE AccountSetup ----------------------------
(***************************************************************************)
(* The screens through which a user enters an AdSense account, has it      *)
(* checked, refreshes its reports and edits it again, with the worker      *)
(* threads the check screens start: AdsenseClient, Preferences,            *)
(* AccountSetupBasics and AccountSetupCheckSettings.  One native call is a *)
(* few steps of its worker, with the answers CallContract allows.          *)
(*                                                                         *)
(* The activity stack and the order of its callbacks are Android's: a      *)
(* started activity is on the stack at once and is created when the UI     *)
(* thread next brings the top of the stack to the front; until then the    *)
(* screen that was in front still gets the user's input.                   *)
(***************************************************************************)
EXTENDS CallContract, Naturals, SequencesExt

CONSTANTS Typed,      \* the credentials the user types
          Threads,    \* workers that can run at the same time (a bound)
          Ids,        \* check screens that can be told apart (a bound)
          NoId,       \* the identity of the other screens
          MaxStack    \* screens the user can open on top of each other (a bound)

ASSUME TypedAssumption == Typed \subseteq Credentials
ASSUME NoIdAssumption == NoId \notin Ids
ASSUME MaxStackAssumption == MaxStack \in Nat

VARIABLES account,    \* preferences "email" and "password"
          verified,   \* preference "verified"
          refresh,    \* preference "refresh"
          jar,        \* the session cookies.txt holds
          table,      \* the accounts whose rows afc.csv holds
          cursor,     \* does a query of afc.csv return a cursor?
          stack,      \* the activities of the task, the top last
          front,      \* index of the resumed activity, 0 if there is none
          thread,     \* the workers
          session,    \* the sessions a worker's handle can be signed in to
          wiped,      \* history: the data directory was deleted since the last edit
          doubt       \* history: an edit ran into a worker, or a call into old cookies

prefs == <<account, verified, refresh>>
sdcard == <<jar, table, cursor>>
ui == <<stack, front>>
workers == <<thread, session>>
history == <<wiped, doubt>>
vars == <<prefs, sdcard, ui, workers, history>>

Kinds == {"client", "prefs", "basics", "check"}

\* The dialogs of a check screen.
Dialogs == {"password", "reports", "internet"}

\* What a screen shows.  "unborn": started, not created yet.  "dismissed": a
\* check screen whose dialog was closed.  "stuck": a check screen whose worker
\* ended with status 1 and posted nothing, so that its progress bar keeps on.
Views == {"unborn", "list", "splash", "form", "progress", "dismissed", "stuck"}
         \cup Dialogs

ScreenIds == Ids \cup {NoId}

Screens == [kind : Kinds, view : Views,
            menu : {"unknown", "full", "empty"}, id : ScreenIds]

\* The statements of the worker that touch shared state, in program order.
Steps == {"idle", "email", "password", "refresh", "wipe", "call", "calling",
          "writing", "closing", "open", "commit", "post"}

\* What the preferences can hold of an account, and what a worker read of it.
Entries == [email : Emails \cup {Null}, password : Passwords \cup {Null}]

Workers == [pc : Steps, owner : ScreenIds, account : Entries,
            status : {0, NotSignedIn, TransferError}]

Idle == [pc |-> "idle", owner |-> NoId, account |-> NoAccount, status |-> 0]

Running(t) == thread[t].pc # "idle"
Calling(t) == thread[t].pc \in {"calling", "writing", "closing"}

TypeOK ==
  /\ account \in Entries
  /\ verified \in {0, 1} /\ refresh \in {0, 1}
  /\ jar \in SUBSET Emails /\ table \in SUBSET Emails /\ cursor \in BOOLEAN
  /\ stack \in Seq(Screens) /\ front \in 0 .. Len(stack)
  /\ thread \in [Threads -> Workers]
  /\ session \in [Threads -> SUBSET Emails]
  /\ wiped \in BOOLEAN /\ doubt \in BOOLEAN

Init ==
  /\ account = NoAccount /\ verified = 0 /\ refresh = 0
  /\ jar = {} /\ table = {} /\ cursor = FALSE
  /\ stack = << >> /\ front = 0
  /\ thread = [t \in Threads |-> Idle]
  /\ session = [t \in Threads |-> {}]
  /\ wiped = FALSE /\ doubt = FALSE
-----------------------------------------------------------------------------
(* The activity stack. *)

NewScreen(kind) == [kind |-> kind, view |-> "unborn", menu |-> "unknown", id |-> NoId]

StartActivity(kind) == stack' = Append(stack, NewScreen(kind))

\* The user opens a screen; MaxStack bounds how many.
Open(kind) == Len(stack) < MaxStack /\ StartActivity(kind) /\ UNCHANGED front

\* Mutant: the finished activity keeps the focus.
FinishFrontKeepsFocus == stack' = RemoveAt(stack, front) /\ UNCHANGED front

\* The activity in front finishes; the top of the stack is resumed next.
FinishFront == stack' = RemoveAt(stack, front) /\ front' = 0

InFront(kind, views) ==
  /\ front > 0
  /\ stack[front].kind = kind
  /\ stack[front].view \in views

SetView(i, view) == stack' = [stack EXCEPT ![i].view = view]

\* The UI thread can bring the top of the stack to the front.
ToShow(kind) == front # Len(stack) /\ stack[Len(stack)].kind = kind

Unborn == stack[Len(stack)].view = "unborn"

\* Some live check screen, created or only started.
HasCheck == \E i \in DOMAIN stack : stack[i].kind = "check"

\* No account needs checking: both callbacks of a check screen give up.
NothingToCheck == verified = 1 /\ refresh = 0
-----------------------------------------------------------------------------
(* AdsenseClient. *)

\* What onCreate shows: theme_type is 1 or 2, each with a list of its own.
ClientView == IF cursor /\ verified # 0 THEN "list" ELSE "splash"

LaunchHome ==
  /\ stack = << >>
  /\ StartActivity("client")
  /\ UNCHANGED <<front, prefs, sdcard, workers, history>>

\* onCreate, or onResume, which runs onCreate again if the theme was changed.
ShowClient ==
  /\ ToShow("client")
  /\ \E view \in {ClientView} \cup (IF Unborn THEN {} ELSE {stack[Len(stack)].view}) :
       SetView(Len(stack), view)
  /\ front' = Len(stack)
  /\ UNCHANGED <<prefs, sdcard, workers, history>>

\* Mutant: the splash screen checks the account nobody entered yet.
AddAccountChecks ==
  /\ InFront("client", {"splash"})
  /\ Open("check")
  /\ UNCHANGED <<prefs, sdcard, workers, history>>

AddAccount ==
  /\ InFront("client", {"splash"})
  /\ Open("basics")
  /\ UNCHANGED <<prefs, sdcard, workers, history>>

\* onCreateOptionsMenu runs once for an instance, at the first press of the key.
OpenMenu ==
  /\ InFront("client", Views)
  /\ stack[front].menu = "unknown"
  /\ stack' = [stack EXCEPT ![front].menu =
                 IF cursor /\ verified # 0 THEN "full" ELSE "empty"]
  /\ UNCHANGED <<front, prefs, sdcard, workers, history>>

OpenPreferences ==
  /\ InFront("client", Views)
  /\ stack[front].menu = "full"
  /\ Open("prefs")
  /\ UNCHANGED <<prefs, sdcard, workers, history>>

RefreshAdsenseData ==
  /\ InFront("client", Views)
  /\ stack[front].menu = "full"
  /\ refresh' = 1
  /\ Open("check")
  /\ UNCHANGED <<account, verified, sdcard, workers, history>>
-----------------------------------------------------------------------------
(* Preferences and AccountSetupBasics. *)

ShowForm ==
  /\ ToShow("prefs") \/ ToShow("basics")
  /\ SetView(Len(stack), "form")
  /\ front' = Len(stack)
  /\ UNCHANGED <<prefs, sdcard, workers, history>>

EditLogin ==
  /\ InFront("prefs", {"form"})
  /\ Open("basics")
  /\ UNCHANGED <<prefs, sdcard, workers, history>>

\* "Next": one commit of all four preferences, then the check screen.
OnNext(typed) ==
  /\ InFront("basics", {"form"})
  /\ account' = typed
  /\ verified' = 0
  /\ refresh' = 0
  /\ Open("check")
  /\ wiped' = FALSE
  /\ doubt' = (\E t \in Threads : Running(t))
  /\ UNCHANGED <<sdcard, workers>>
-----------------------------------------------------------------------------
(* AccountSetupCheckSettings, on the UI thread. *)

\* The part of onCreate that follows its first test, on the instance s at
\* position i of the stack: a worker if the device is online, a dialog if not.
BeginCheck(i, s) ==
  \/ \E t \in Threads :
       /\ ~ Running(t)
       /\ thread' = [thread EXCEPT ![t] = [Idle EXCEPT !.pc = "email", !.owner = s]]
       /\ stack' = [stack EXCEPT ![i].view = "progress", ![i].id = s]
  \/ /\ stack' = [stack EXCEPT ![i].view = "internet", ![i].id = s]
     /\ UNCHANGED thread

FreeIds == Ids \ ({stack[i].id : i \in DOMAIN stack} \cup
                  {thread[t].owner : t \in Threads})

\* onCreate sends the user to Basics, and onResume finishes the screen.
LeaveCheck == stack' = ReplaceAt(stack, Len(stack), NewScreen("basics")) /\ front' = 0

CreateCheck ==
  /\ ToShow("check") /\ Unborn
  /\ \/ NothingToCheck /\ LeaveCheck /\ UNCHANGED workers
     \/ /\ ~ NothingToCheck
        /\ \E s \in FreeIds : BeginCheck(Len(stack), s)
        /\ front' = Len(stack)
        /\ UNCHANGED session
  /\ UNCHANGED <<prefs, sdcard, history>>

\* onResume of an instance that was covered or in the background.
ResumeCheck ==
  /\ ToShow("check") /\ ~ Unborn
  /\ IF NothingToCheck
     THEN stack' = RemoveAt(stack, Len(stack)) /\ front' = 0
     ELSE front' = Len(stack) /\ UNCHANGED stack
  /\ UNCHANGED <<prefs, sdcard, workers, history>>

\* "Edit details" of the dialog "Invalid Password".
EditDetails ==
  /\ InFront("check", {"password"})
  /\ Len(stack) < MaxStack
  /\ stack' = Append([stack EXCEPT ![front].view = "dismissed"], NewScreen("basics"))
  /\ UNCHANGED <<front, prefs, sdcard, workers, history>>

\* "Retry" of the other dialogs: onCreate once more, on the same instance.
Retry ==
  /\ InFront("check", {"reports", "internet"})
  /\ \/ /\ NothingToCheck
        /\ stack' = Append([stack EXCEPT ![front].view = "dismissed"], NewScreen("basics"))
        /\ UNCHANGED workers
     \/ /\ ~ NothingToCheck
        /\ BeginCheck(front, stack[front].id)
        /\ UNCHANGED session
  /\ UNCHANGED <<front, prefs, sdcard, history>>
-----------------------------------------------------------------------------
(* What the user and the system can do to any screen. *)

\* The back key closes a dialog first: all three are cancelable.
CloseDialog ==
  /\ InFront("check", Dialogs)
  /\ SetView(front, "dismissed")
  /\ UNCHANGED <<front, prefs, sdcard, workers, history>>

\* Mutant: the back key does not take the request to reload back.
BackFromCheckKeepsRequest ==
  /\ InFront("check", Views \ Dialogs)
  /\ FinishFront
  /\ UNCHANGED <<prefs, sdcard, workers, history>>

BackFromCheck ==
  /\ InFront("check", Views \ Dialogs)
  /\ refresh' = 0
  /\ FinishFront
  /\ UNCHANGED <<account, verified, sdcard, workers, history>>

BackFromOther ==
  /\ front > 0 /\ stack[front].kind # "check"
  /\ FinishFront
  /\ UNCHANGED <<prefs, sdcard, workers, history>>

\* Home key, incoming call: the task goes to the background until it is shown.
GoHome ==
  /\ front > 0
  /\ front' = 0
  /\ UNCHANGED <<stack, prefs, sdcard, workers, history>>

\* Mutant: the instance handles the change itself by running onCreate again.
RotateInPlace ==
  /\ front > 0 /\ front = Len(stack)
  /\ stack[front].kind = "check" /\ ~ NothingToCheck
  /\ BeginCheck(front, stack[front].id)
  /\ UNCHANGED <<front, session, prefs, sdcard, history>>

\* A configuration change: the manifest handles none, so the activity in front
\* is destroyed, with its dialog, and a new instance is created in its place.
Rotate ==
  /\ front > 0 /\ front = Len(stack)
  /\ \/ /\ stack[front].kind = "client"
        /\ stack' = [stack EXCEPT ![front].view = ClientView, ![front].menu = "unknown"]
        /\ UNCHANGED <<front, workers>>
     \/ /\ stack[front].kind = "check" /\ NothingToCheck
        /\ LeaveCheck
        /\ UNCHANGED workers
     \/ /\ stack[front].kind = "check" /\ ~ NothingToCheck
        /\ \E s \in FreeIds : BeginCheck(front, s)
        /\ UNCHANGED <<front, session>>
  /\ UNCHANGED <<prefs, sdcard, history>>

\* The process is gone, and with it the stack and the workers; the preferences
\* and the files stay.
ProcessGone ==
  /\ stack' = << >> /\ front' = 0
  /\ thread' = [t \in Threads |-> Idle]
  /\ session' = [t \in Threads |-> {}]
  /\ UNCHANGED <<prefs, sdcard, history>>

ProcessDies == (stack # << >> \/ \E t \in Threads : Running(t)) /\ ProcessGone
-----------------------------------------------------------------------------
(* The worker of a check screen: the run method of its thread. *)

At(t, pc) == thread[t].pc = pc

Step(t, pc) == thread' = [thread EXCEPT ![t].pc = pc]

\* Where the worker goes once the directory is as it wants it.
AfterWipe(t) ==
  IF Null \in {thread[t].account.email, thread[t].account.password}
  THEN "open" ELSE "call"

ReadEmail(t) ==
  /\ At(t, "email")
  /\ thread' = [thread EXCEPT ![t].pc = "password", ![t].account.email = account.email]
  /\ UNCHANGED <<prefs, sdcard, ui, session, history>>

ReadPassword(t) ==
  /\ At(t, "password")
  /\ thread' = [thread EXCEPT ![t].pc = "refresh", ![t].account.password = account.password]
  /\ UNCHANGED <<prefs, sdcard, ui, session, history>>

ReadRefresh(t) ==
  /\ At(t, "refresh")
  /\ Step(t, IF refresh = 0 THEN "wipe" ELSE AfterWipe(t))
  /\ UNCHANGED <<prefs, sdcard, ui, session, history>>

\* Mutant: only the report files are deleted.
WipeKeepsCookies(t) ==
  /\ At(t, "wipe")
  /\ table' = {} /\ cursor' = FALSE
  /\ Step(t, AfterWipe(t))
  /\ wiped' = TRUE
  /\ UNCHANGED <<prefs, jar, ui, session, doubt>>

\* delAccountDir and mkdirs.
Wipe(t) ==
  /\ At(t, "wipe")
  /\ jar' = {} /\ table' = {} /\ cursor' = FALSE
  /\ Step(t, AfterWipe(t))
  /\ wiped' = TRUE
  /\ UNCHANGED <<prefs, ui, session, doubt>>

\* curl_easy_init fails: status 1, which posts nothing.
InitFails(t) ==
  /\ At(t, "call")
  /\ thread' = [thread EXCEPT ![t] = Idle]
  /\ stack' = [i \in DOMAIN stack |->
                IF stack[i].id = thread[t].owner
                THEN [stack[i] EXCEPT !.view = "stuck"] ELSE stack[i]]
  /\ UNCHANGED <<front, prefs, sdcard, session, history>>

\* The first transfer loads the cookie file into the handle.  The handle is a
\* global variable of the library: calls in progress at the same time use one
\* handle, and each may then run under any session of the others.
EnterCall(t) ==
  /\ At(t, "call")
  /\ Step(t, "calling")
  /\ LET shared == SignIns(jar, thread[t].account)
                   \cup (UNION {session[u] : u \in {v \in Threads : Calling(v)}})
     IN  session' = [u \in Threads |-> IF u = t \/ Calling(u) THEN shared ELSE session[u]]
  /\ doubt' = (doubt \/ ~ wiped)
  /\ UNCHANGED <<prefs, sdcard, ui, wiped>>

\* The call ends before afc.csv is opened, with status 2 or 1000.
FailCall(t) ==
  /\ At(t, "calling")
  /\ jar' \in JarsAfter(jar, session[t])
  /\ \E status \in {NotSignedIn, TransferError} :
       thread' = [thread EXCEPT ![t].pc = "post", ![t].status = status]
  /\ session' = [session EXCEPT ![t] = {}]
  /\ UNCHANGED <<prefs, table, cursor, ui, history>>

\* The reports are fetched: afc.csv is opened for writing and is empty until
\* it is closed.  A query of an empty file returns a cursor without rows.
BeginTable(t) ==
  /\ At(t, "calling")
  /\ session[t] # {}
  /\ Step(t, "writing")
  /\ table' = {} /\ cursor' = TRUE
  /\ UNCHANGED <<prefs, jar, ui, session, history>>

\* afc.csv is closed with the rows of one session, with none, or with rows a
\* query refuses.
CloseTable(t) ==
  /\ At(t, "writing")
  /\ \E e \in session[t] :
       /\ session' = [session EXCEPT ![t] = {e}]
       /\ \/ table' = {e} /\ cursor' = TRUE
          \/ table' = {} /\ cursor' \in BOOLEAN
  /\ Step(t, "closing")
  /\ UNCHANGED <<prefs, jar, ui, history>>

\* The handle is cleaned up, which saves its cookies; status 0.
FinishCall(t) ==
  /\ At(t, "closing")
  /\ jar' \in JarsAfter(jar, session[t])
  /\ Step(t, "open")
  /\ session' = [session EXCEPT ![t] = {}]
  /\ UNCHANGED <<prefs, table, cursor, ui, history>>

\* startActivity of the worker: the client after status 0, Basics if a
\* preference was missing.
OpenNext(t) ==
  /\ At(t, "open")
  /\ IF AfterWipe(t) = "call"
     THEN StartActivity("client") /\ Step(t, "commit")
     ELSE StartActivity("basics") /\ thread' = [thread EXCEPT ![t] = Idle]
  /\ UNCHANGED <<front, prefs, sdcard, session, history>>

Commit(t) ==
  /\ At(t, "commit")
  /\ verified' = 1
  /\ refresh' = 0
  /\ thread' = [thread EXCEPT ![t] = Idle]
  /\ UNCHANGED <<account, sdcard, ui, session, history>>

\* Mutant: a transfer error is only logged.
DialogForRefusal(status) == IF status = NotSignedIn THEN "password" ELSE "progress"

\* The dialog of a status.  No call answers 3, the status of "reports".
DialogFor(status) ==
  CASE status = NotSignedIn -> "password"
    [] status = 3 -> "reports"
    [] OTHER -> "internet"

\* The handler runs the dialog the worker posted; a window on an activity that
\* is no longer there is an exception nobody catches.
ShowDialog(t) ==
  /\ At(t, "post")
  /\ \E i \in DOMAIN stack :
       /\ stack[i].id = thread[t].owner
       /\ SetView(i, DialogFor(thread[t].status))
  /\ thread' = [thread EXCEPT ![t] = Idle]
  /\ UNCHANGED <<front, prefs, sdcard, session, history>>

ShowDialogTooLate(t) ==
  /\ At(t, "post")
  /\ \A i \in DOMAIN stack : stack[i].id # thread[t].owner
  /\ ProcessGone
-----------------------------------------------------------------------------
Show == ShowClient \/ ShowForm \/ CreateCheck \/ ResumeCheck

Touch == \/ LaunchHome \/ AddAccount \/ OpenMenu \/ OpenPreferences
         \/ RefreshAdsenseData \/ EditLogin
         \/ \E typed \in Typed : OnNext(typed)
         \/ EditDetails \/ Retry \/ CloseDialog \/ BackFromCheck \/ BackFromOther
         \/ GoHome

User == Touch \/ Rotate

Proceed(t) == \/ ReadEmail(t) \/ ReadPassword(t) \/ ReadRefresh(t) \/ Wipe(t)
              \/ InitFails(t) \/ EnterCall(t) \/ FailCall(t) \/ BeginTable(t)
              \/ CloseTable(t) \/ FinishCall(t) \/ OpenNext(t) \/ Commit(t)
              \/ ShowDialog(t)

Work(t) == Proceed(t) \/ ShowDialogTooLate(t)

Next == Show \/ User \/ ProcessDies \/ \E t \in Threads : Work(t)

Spec == Init /\ [][Next]_vars

\* Android runs a started thread and a posted runnable, and keeps the UI thread
\* going; a transfer ends, with data or with an error, because the network does.
Fairness == WF_vars(Show) /\ \A t \in Threads : WF_vars(Work(t))

FairSpec == Spec /\ Fairness
-----------------------------------------------------------------------------
(* Properties. *)

\* The account a verified flag vouches for is one AdSense accepts, and what is
\* kept on the card belongs to it: cookies and rows of an account entered before
\* are never shown as the new one's.  This is what AccountSetupCheckSettings is
\* there for; it holds unless an edit overtook a worker, or a call was made with
\* the directory of the account before: the two histories record these cases, in
\* which the flag can vouch for a refused account or for another's rows, and which are
\* left out here.
AccountSound ==
  verified = 1 /\ ~ doubt =>
    /\ account \in Accounts
    /\ jar \subseteq {account.email}
    /\ table \subseteq {account.email}

\* The inductive strengthening of AccountSound, in parts.  As long as no edit
\* overtook a worker and no call met old cookies, every worker has read the
\* account the preferences hold ...
ReadsCurrent ==
  \A t \in Threads :
    /\ thread[t].pc \notin {"idle", "email"} => thread[t].account.email = account.email
    /\ thread[t].pc \notin {"idle", "email", "password"} =>
         thread[t].account.password = account.password

\* ... a wiped card holds nothing but what this account left there ...
CardOwn == wiped => jar \subseteq OwnSession(account) /\ table \subseteq OwnSession(account)

\* ... a call was made with a wiped card and can only be signed in to it ...
CallsOwn ==
  \A t \in Threads : Calling(t) => wiped /\ session[t] \subseteq OwnSession(account)

\* ... and only an accepted account gets to "verified".
AcceptedOnly ==
  /\ \A t \in Threads : At(t, "closing") \/ At(t, "commit") \/ (At(t, "open") /\ AfterWipe(t) = "call") =>
       wiped /\ account \in Accounts
  /\ verified = 1 => wiped /\ account \in Accounts

SoundInv == ~ doubt => ReadsCurrent /\ CardOwn /\ CallsOwn /\ AcceptedOnly

\* A check screen has one worker at most, and as long as it runs, the screen (if
\* it is still there) shows progress: never an answer of another worker, which a
\* retry, a rotation or a screen opened twice could mix up.
OneAnswerPerScreen ==
  \A t \in Threads : Running(t) /\ thread[t].owner \in Ids =>
    /\ \A u \in Threads : Running(u) /\ thread[u].owner = thread[t].owner => u = t
    /\ \A i \in DOMAIN stack : stack[i].id = thread[t].owner => stack[i].view = "progress"

\* Its inductive strengthening: an instance is the only screen of its identity, and
\* a check screen that onCreate has run on.
InstancesApart ==
  \A i \in DOMAIN stack : stack[i].id \in Ids =>
    /\ stack[i].kind = "check" /\ stack[i].view # "unborn"
    /\ \A j \in DOMAIN stack : stack[j].id = stack[i].id => j = i

AnswerInv == OneAnswerPerScreen /\ InstancesApart

\* A worker never calls with a preference it did not find: every way to a check
\* screen passes through a commit of e-mail and password, so that the branch of
\* the worker for a missing one is dead.
CredentialsPresent ==
  \A t \in Threads : thread[t].pc \in Steps \ {"idle", "email", "password"} =>
    Null \notin {thread[t].account.email, thread[t].account.password}

\* When the last check screen goes away, other than with the process, no request
\* to reload stays behind, whichever of the back key, the worker's commit and a client
\* that finds the account verified took it away.  (The form takes the flag back too;
\* one that a menu left over sets after it is not a matter of this property.)
RequestEndsWithCheck ==
  [][HasCheck /\ ~ HasCheck' /\ ~ ProcessGone => refresh' = 0]_vars

\* A worker of a check screen comes to an end the user can see: its dialog, the
\* account verified, the screen gone, or (status 1) a progress bar for ever.
CheckAnswered ==
  \A s \in Ids :
    (\E t \in Threads : Running(t) /\ thread[t].owner = s)
      ~> (\/ verified = 1
          \/ \A i \in DOMAIN stack : stack[i].id # s
          \/ \E i \in DOMAIN stack : stack[i].id = s /\ stack[i].view \in Dialogs \cup {"stuck"})

\* The text of the check screen, "Validating Adsense Settings": an account it
\* let through is one AdSense accepts.  Refuted: see the README.
VerifiedAccepted == verified = 1 => account \in Accounts
=============================================================================
