------------------------ MODULE AccountSetup_proofs ------------------------
(* Theorems about AccountSetup, for every value of its constants. *)
EXTENDS AccountSetup, TLAPS, SequenceTheorems

-----------------------------------------------------------------------------
(* The activity stack: what each of its operations returns. *)

\* Starting an activity adds one screen.
LEMMA StackAppend ==
  ASSUME NEW s \in Seq(Screens), NEW kind \in Kinds
  PROVE  /\ Append(s, NewScreen(kind)) \in Seq(Screens)
         /\ Len(Append(s, NewScreen(kind))) = Len(s) + 1
<1>1. NewScreen(kind) \in Screens
  BY DEF NewScreen, Screens, Views, ScreenIds
<1> QED
  BY <1>1, AppendProperties

\* Finishing an activity leaves a stack of screens.
LEMMA StackRemove ==
  ASSUME NEW s \in Seq(Screens), NEW i \in 1 .. Len(s)
  PROVE  RemoveAt(s, i) \in Seq(Screens)
<1>1. SubSeq(s, 1, i - 1) \in Seq(Screens)
  BY SubSeqProperties
<1>2. SubSeq(s, i + 1, Len(s)) \in Seq(Screens)
  BY SubSeqProperties
<1> QED
  BY <1>1, <1>2, ConcatProperties DEF RemoveAt

\* Replacing a screen keeps the height of the stack.
LEMMA StackReplace ==
  ASSUME NEW s \in Seq(Screens), NEW i \in 1 .. Len(s), NEW screen \in Screens
  PROVE  /\ [s EXCEPT ![i] = screen] \in Seq(Screens)
         /\ Len([s EXCEPT ![i] = screen]) = Len(s)
  BY ExceptSeq

\* A screen that shows something else is a screen.
LEMMA StackView ==
  ASSUME NEW s \in Seq(Screens), NEW i \in 1 .. Len(s), NEW view \in Views
  PROVE  /\ [s EXCEPT ![i].view = view] \in Seq(Screens)
         /\ Len([s EXCEPT ![i].view = view]) = Len(s)
<1>1. s[i] \in Screens
  BY ElementOfSeq
<1>2. [s[i] EXCEPT !.view = view] \in Screens
  BY <1>1 DEF Screens
<1> QED
  BY <1>2, StackReplace

\* A check screen that gets an instance is a screen.
LEMMA StackInstance ==
  ASSUME NEW s \in Seq(Screens), NEW i \in 1 .. Len(s), NEW view \in Views,
         NEW id \in ScreenIds
  PROVE  /\ [s EXCEPT ![i].view = view, ![i].id = id] \in Seq(Screens)
         /\ Len([s EXCEPT ![i].view = view, ![i].id = id]) = Len(s)
<1>1. s[i] \in Screens
  BY ElementOfSeq
<1>2. [s[i] EXCEPT !.view = view, !.id = id] \in Screens
  BY <1>1 DEF Screens
<1>3. [s EXCEPT ![i].view = view, ![i].id = id]
        = [s EXCEPT ![i] = [s[i] EXCEPT !.view = view, !.id = id]]
  BY <1>1, LenProperties DEF Screens
<1> QED
  BY <1>2, <1>3, StackReplace

\* A client that gets its menu is a screen.
LEMMA StackMenu ==
  ASSUME NEW s \in Seq(Screens), NEW i \in 1 .. Len(s), NEW menu \in {"unknown", "full", "empty"}
  PROVE  /\ [s EXCEPT ![i].menu = menu] \in Seq(Screens)
         /\ Len([s EXCEPT ![i].menu = menu]) = Len(s)
<1>1. s[i] \in Screens
  BY ElementOfSeq
<1>2. [s[i] EXCEPT !.menu = menu] \in Screens
  BY <1>1 DEF Screens
<1> QED
  BY <1>2, StackReplace

\* The stack after curl_easy_init failed.
LEMMA StackStuck ==
  ASSUME NEW s \in Seq(Screens), NEW id \in ScreenIds
  PROVE  LET stuck == [i \in DOMAIN s |-> IF s[i].id = id THEN [s[i] EXCEPT !.view = "stuck"]
                                                           ELSE s[i]]
         IN  stuck \in Seq(Screens) /\ Len(stuck) = Len(s)
<1> DEFINE stuck == [i \in DOMAIN s |-> IF s[i].id = id THEN [s[i] EXCEPT !.view = "stuck"]
                                                        ELSE s[i]]
<1>1. DOMAIN s = 1 .. Len(s) /\ Len(s) \in Nat
  BY LenProperties
<1>2. ASSUME NEW i \in 1 .. Len(s)
      PROVE  stuck[i] \in Screens
  <2>1. s[i] \in Screens
    BY ElementOfSeq
  <2>2. [s[i] EXCEPT !.view = "stuck"] \in Screens
    BY <2>1 DEF Screens, Views
  <2> QED
    BY <1>1, <2>1, <2>2
<1>3. stuck \in [1 .. Len(s) -> Screens]
  BY <1>1, <1>2
<1>4. stuck \in Seq(Screens)
  BY <1>1, <1>3, IsASeq
<1> QED
  BY <1>1, <1>3, <1>4, LenProperties
-----------------------------------------------------------------------------
(* Types. *)

\* The stack and the focus after an operation on the screens.
StackOK == stack \in Seq(Screens) /\ front \in 0 .. Len(stack)

\* The workers after a step of one of them.
WorkersOK == thread \in [Threads -> Workers] /\ session \in [Threads -> SUBSET Emails]

\* A worker on its way to another statement is a worker.
LEMMA WorkerStep ==
  ASSUME TypeOK, NEW t \in Threads, NEW pc \in Steps, Step(t, pc)
  PROVE  thread' \in [Threads -> Workers]
BY DEF TypeOK, Step, Workers

\* An idle worker is a worker.
LEMMA IdleWorker == Idle \in Workers
BY DEF Idle, Workers, NoAccount, Steps, Entries, ScreenIds

\* The statement after the directory was seen to is a statement.
LEMMA AfterWipeStep == ASSUME NEW t \in Threads PROVE AfterWipe(t) \in Steps
BY DEF AfterWipe, Steps

\* A waiting screen is the top of a stack that is not empty.
LEMMA TopExists ==
  ASSUME TypeOK, front # Len(stack)
  PROVE  Len(stack) \in 1 .. Len(stack)
BY LenProperties DEF TypeOK

\* onCreate of a check screen keeps the types.
LEMMA BeginCheckType ==
  ASSUME TypeOK, NEW i \in 1 .. Len(stack), NEW s \in ScreenIds,
         BeginCheck(i, s)
  PROVE  /\ stack' \in Seq(Screens) /\ Len(stack') = Len(stack)
         /\ thread' \in [Threads -> Workers]
<1>1. stack \in Seq(Screens) /\ thread \in [Threads -> Workers]
  BY DEF TypeOK
<1>2. "progress" \in Views /\ "internet" \in Views
  BY DEF Views, Dialogs
<1>3. stack' \in Seq(Screens) /\ Len(stack') = Len(stack)
  <2>1. ASSUME NEW view \in Views
        PROVE  /\ [stack EXCEPT ![i].view = view, ![i].id = s] \in Seq(Screens)
               /\ Len([stack EXCEPT ![i].view = view, ![i].id = s]) = Len(stack)
    BY <1>1, StackInstance
  <2>2. PICK view \in Views : stack' = [stack EXCEPT ![i].view = view, ![i].id = s]
    BY <1>2 DEF BeginCheck
  <2> QED
    BY <2>1, <2>2
<1>4. [Idle EXCEPT !.pc = "email", !.owner = s] \in Workers
  BY DEF Idle, Workers, NoAccount, Steps, Entries, ScreenIds
<1>5. thread' \in [Threads -> Workers]
  BY <1>1, <1>4 DEF BeginCheck
<1> QED
  BY <1>3, <1>5

\* The initial state is well typed.
LEMMA InitType == Init => TypeOK
<1> SUFFICES ASSUME Init PROVE TypeOK
  OBVIOUS
<1>1. stack \in Seq(Screens) /\ front \in 0 .. Len(stack)
  BY DEF Init
<1> QED
  BY <1>1, IdleWorker DEF Init, TypeOK, NoAccount, Entries

\* A step of the UI thread that brings a screen to the front keeps the types.
LEMMA ShowType == TypeOK /\ Show => TypeOK'
<1> SUFFICES ASSUME TypeOK, Show PROVE TypeOK'
  OBVIOUS
<1>0. stack \in Seq(Screens) /\ front \in 0 .. Len(stack) /\ Len(stack) \in Nat
  BY LenProperties DEF TypeOK
<1>1. CASE ShowClient
  <2>1. Len(stack) \in 1 .. Len(stack)
    BY <1>1, TopExists DEF ShowClient, ToShow
  <2>2. stack[Len(stack)].view \in Views
    <3>1. stack[Len(stack)] \in Screens
      BY <1>0, <2>1, ElementOfSeq
    <3> QED
      BY <3>1 DEF Screens
  <2>3. PICK view \in Views : SetView(Len(stack), view)
    BY <1>1, <2>2 DEF ShowClient, ClientView, Views
  <2>4. stack' \in Seq(Screens) /\ Len(stack') = Len(stack)
    BY <1>0, <2>1, <2>3, StackView DEF SetView
  <2> QED
    BY <1>0, <1>1, <2>4 DEF ShowClient, TypeOK, prefs, sdcard, workers, history
<1>2. CASE ShowForm
  <2>1. Len(stack) \in 1 .. Len(stack)
    BY <1>2, TopExists DEF ShowForm, ToShow
  <2>2. stack' \in Seq(Screens) /\ Len(stack') = Len(stack)
    BY <1>0, <1>2, <2>1, StackView DEF ShowForm, SetView, Views
  <2> QED
    BY <1>0, <1>2, <2>2 DEF ShowForm, TypeOK, prefs, sdcard, workers, history
<1>3. CASE CreateCheck
  <2>1. Len(stack) \in 1 .. Len(stack)
    BY <1>3, TopExists DEF CreateCheck, ToShow
  <2>2. CASE LeaveCheck /\ UNCHANGED workers
    <3>1. NewScreen("basics") \in Screens
      BY DEF NewScreen, Screens, Kinds, Views, ScreenIds
    <3>2. stack' \in Seq(Screens) /\ Len(stack') = Len(stack)
      BY <1>0, <2>1, <2>2, <3>1, StackReplace DEF LeaveCheck, ReplaceAt
    <3> QED
      BY <1>0, <1>3, <2>2, <3>2 DEF CreateCheck, LeaveCheck, TypeOK, prefs, sdcard, workers, history
  <2>3. CASE /\ \E s \in FreeIds : BeginCheck(Len(stack), s)
             /\ front' = Len(stack)
             /\ UNCHANGED session
    <3>1. PICK s \in ScreenIds : BeginCheck(Len(stack), s)
      BY <2>3 DEF FreeIds, ScreenIds
    <3>2. /\ stack' \in Seq(Screens) /\ Len(stack') = Len(stack)
          /\ thread' \in [Threads -> Workers]
      BY <2>1, <3>1, BeginCheckType
    <3> QED
      BY <1>0, <1>3, <2>3, <3>2 DEF CreateCheck, TypeOK, prefs, sdcard, history
  <2> QED
    BY <1>3, <2>2, <2>3 DEF CreateCheck
<1>4. CASE ResumeCheck
  <2>1. Len(stack) \in 1 .. Len(stack)
    BY <1>4, TopExists DEF ResumeCheck, ToShow
  <2>2. RemoveAt(stack, Len(stack)) \in Seq(Screens)
    BY <1>0, <2>1, StackRemove
  <2>3. CASE NothingToCheck
    <3>1. stack' \in Seq(Screens) /\ front' = 0
      BY <1>4, <2>2, <2>3 DEF ResumeCheck
    <3> QED
      BY <1>4, <3>1, LenProperties DEF ResumeCheck, TypeOK, prefs, sdcard, workers, history
  <2>4. CASE ~ NothingToCheck
    BY <1>0, <1>4, <2>4 DEF ResumeCheck, TypeOK, prefs, sdcard, workers, history
  <2> QED
    BY <2>3, <2>4
<1> QED
  BY <1>1, <1>2, <1>3, <1>4 DEF Show

\* The end of the process keeps the types.
LEMMA ProcessGoneType == TypeOK /\ ProcessGone => TypeOK'
<1> SUFFICES ASSUME TypeOK, ProcessGone PROVE TypeOK'
  OBVIOUS
<1>1. stack' \in Seq(Screens) /\ front' \in 0 .. Len(stack')
  BY DEF ProcessGone
<1> QED
  BY <1>1, IdleWorker DEF ProcessGone, TypeOK, prefs, sdcard, history

\* A step of the user, or of the system on a screen, keeps the types.
LEMMA UserType == TypeOK /\ User => TypeOK'
<1> SUFFICES ASSUME TypeOK, User PROVE TypeOK'
  OBVIOUS
<1>0. stack \in Seq(Screens) /\ front \in 0 .. Len(stack) /\ Len(stack) \in Nat
  BY LenProperties DEF TypeOK
<1>00. front > 0 => front \in 1 .. Len(stack) /\ stack[front] \in Screens
  BY <1>0, ElementOfSeq
<1>1. CASE LaunchHome
  <2>1. stack' \in Seq(Screens) /\ Len(stack') = Len(stack) + 1
    BY <1>0, <1>1, StackAppend DEF LaunchHome, StartActivity, Kinds
  <2>2. StackOK'
    BY <1>0, <1>1, <2>1 DEF LaunchHome, StackOK
  <2> QED
    BY <1>1, <2>2 DEF LaunchHome, StackOK, TypeOK, prefs, sdcard, workers, history
<1>2. CASE AddAccount
  <2>1. StackOK'
    BY <1>0, <1>2, StackAppend DEF AddAccount, Open, StartActivity, StackOK, Kinds
  <2> QED
    BY <1>2, <2>1 DEF AddAccount, StackOK, TypeOK, prefs, sdcard, workers, history
<1>3. CASE OpenMenu
  <2>1. StackOK'
    BY <1>0, <1>00, <1>3, StackMenu DEF OpenMenu, InFront, StackOK
  <2> QED
    BY <1>3, <2>1 DEF OpenMenu, StackOK, TypeOK, prefs, sdcard, workers, history
<1>4. CASE OpenPreferences
  <2>1. StackOK'
    BY <1>0, <1>4, StackAppend DEF OpenPreferences, Open, StartActivity, StackOK, Kinds
  <2> QED
    BY <1>4, <2>1 DEF OpenPreferences, StackOK, TypeOK, prefs, sdcard, workers, history
<1>5. CASE RefreshAdsenseData
  <2>1. StackOK'
    BY <1>0, <1>5, StackAppend DEF RefreshAdsenseData, Open, StartActivity, StackOK, Kinds
  <2> QED
    BY <1>5, <2>1 DEF RefreshAdsenseData, StackOK, TypeOK, prefs, sdcard, workers, history
<1>6. CASE EditLogin
  <2>1. StackOK'
    BY <1>0, <1>6, StackAppend DEF EditLogin, Open, StartActivity, StackOK, Kinds
  <2> QED
    BY <1>6, <2>1 DEF EditLogin, StackOK, TypeOK, prefs, sdcard, workers, history
<1>7. ASSUME NEW typed \in Typed, OnNext(typed)
      PROVE  TypeOK'
  <2>1. StackOK'
    BY <1>0, <1>7, StackAppend DEF OnNext, Open, StartActivity, StackOK, Kinds
  <2>2. account' \in Entries
    BY <1>7, TypedAssumption DEF OnNext, Credentials, Entries
  <2> QED
    BY <1>7, <2>1, <2>2 DEF OnNext, StackOK, TypeOK, sdcard, workers
<1>8. CASE EditDetails
  <2>1. front \in 1 .. Len(stack)
    BY <1>8, <1>00 DEF EditDetails, InFront
  <2>2. /\ [stack EXCEPT ![front].view = "dismissed"] \in Seq(Screens)
        /\ Len([stack EXCEPT ![front].view = "dismissed"]) = Len(stack)
    BY <1>0, <2>1, StackView DEF Views
  <2>3. StackOK'
    BY <1>0, <1>8, <2>2, StackAppend DEF EditDetails, StackOK, Kinds
  <2> QED
    BY <1>8, <2>3 DEF EditDetails, StackOK, TypeOK, prefs, sdcard, workers, history
<1>9. CASE Retry
  <2>1. front \in 1 .. Len(stack) /\ stack[front] \in Screens
    BY <1>9, <1>00 DEF Retry, InFront
  <2>2. CASE NothingToCheck
    <3>1. /\ [stack EXCEPT ![front].view = "dismissed"] \in Seq(Screens)
          /\ Len([stack EXCEPT ![front].view = "dismissed"]) = Len(stack)
      BY <1>0, <2>1, StackView DEF Views
    <3>2. StackOK'
      BY <1>0, <1>9, <2>2, <3>1, StackAppend DEF Retry, StackOK, Kinds
    <3> QED
      BY <1>9, <2>2, <3>2 DEF Retry, StackOK, TypeOK, prefs, sdcard, workers, history
  <2>3. CASE ~ NothingToCheck
    <3>1. stack[front].id \in ScreenIds
      BY <2>1 DEF Screens
    <3>2. /\ stack' \in Seq(Screens) /\ Len(stack') = Len(stack)
          /\ thread' \in [Threads -> Workers]
      BY <1>9, <2>1, <2>3, <3>1, BeginCheckType DEF Retry
    <3> QED
      BY <1>0, <1>9, <2>3, <3>2 DEF Retry, TypeOK, prefs, sdcard, history
  <2> QED
    BY <2>2, <2>3
<1>10. CASE CloseDialog
  <2>1. front \in 1 .. Len(stack)
    BY <1>10, <1>00 DEF CloseDialog, InFront
  <2>2. StackOK'
    BY <1>0, <1>10, <2>1, StackView DEF CloseDialog, SetView, StackOK, Views
  <2> QED
    BY <1>10, <2>2 DEF CloseDialog, StackOK, TypeOK, prefs, sdcard, workers, history
<1>11. CASE BackFromCheck
  <2>1. front \in 1 .. Len(stack)
    BY <1>11, <1>00 DEF BackFromCheck, InFront
  <2>2. StackOK'
    BY <1>0, <1>11, <2>1, StackRemove, LenProperties DEF BackFromCheck, FinishFront, StackOK
  <2> QED
    BY <1>11, <2>2 DEF BackFromCheck, StackOK, TypeOK, sdcard, workers, history
<1>12. CASE BackFromOther
  <2>1. front \in 1 .. Len(stack)
    BY <1>12, <1>00 DEF BackFromOther
  <2>2. StackOK'
    BY <1>0, <1>12, <2>1, StackRemove, LenProperties DEF BackFromOther, FinishFront, StackOK
  <2> QED
    BY <1>12, <2>2 DEF BackFromOther, StackOK, TypeOK, prefs, sdcard, workers, history
<1>13. CASE GoHome
  BY <1>0, <1>13 DEF GoHome, TypeOK, prefs, sdcard, workers, history
<1>14. CASE Rotate
  <2>1. front \in 1 .. Len(stack) /\ front = Len(stack)
    BY <1>14, <1>00 DEF Rotate
  <2>2. CASE /\ stack' = [stack EXCEPT ![front].view = ClientView, ![front].menu = "unknown"]
             /\ UNCHANGED <<front, workers>>
    <3> DEFINE shown == [stack EXCEPT ![front].view = ClientView]
    <3>1. ClientView \in Views
      BY DEF ClientView, Views
    <3>2. shown \in Seq(Screens) /\ Len(shown) = Len(stack)
      BY <1>0, <2>1, <3>1, StackView
    <3> HIDE DEF shown
    <3>3. /\ [shown EXCEPT ![front].menu = "unknown"] \in Seq(Screens)
          /\ Len([shown EXCEPT ![front].menu = "unknown"]) = Len(stack)
      BY <2>1, <3>2, StackMenu
    <3>4. stack' = [shown EXCEPT ![front].menu = "unknown"]
      BY <1>0, <2>1, <2>2 DEF shown
    <3>5. StackOK'
      BY <1>0, <2>2, <3>3, <3>4 DEF StackOK
    <3> QED
      BY <1>14, <2>2, <3>5 DEF Rotate, StackOK, TypeOK, prefs, sdcard, workers, history
  <2>3. CASE LeaveCheck /\ UNCHANGED workers
    <3>1. NewScreen("basics") \in Screens
      BY DEF NewScreen, Screens, Kinds, Views, ScreenIds
    <3>2. stack' \in Seq(Screens) /\ Len(stack') = Len(stack)
      BY <1>0, <2>1, <2>3, <3>1, StackReplace DEF LeaveCheck, ReplaceAt
    <3> QED
      BY <1>0, <1>14, <2>3, <3>2 DEF Rotate, LeaveCheck, TypeOK, prefs, sdcard, workers, history
  <2>4. CASE (\E s \in FreeIds : BeginCheck(front, s)) /\ UNCHANGED <<front, session>>
    <3>1. PICK s \in ScreenIds : BeginCheck(front, s)
      BY <2>4 DEF FreeIds, ScreenIds
    <3>2. /\ stack' \in Seq(Screens) /\ Len(stack') = Len(stack)
          /\ thread' \in [Threads -> Workers]
      BY <2>1, <3>1, BeginCheckType
    <3> QED
      BY <1>0, <1>14, <2>4, <3>2 DEF Rotate, TypeOK, prefs, sdcard, history
  <2> QED
    BY <1>14, <2>2, <2>3, <2>4 DEF Rotate
<1> QED
  BY <1>1, <1>2, <1>3, <1>4, <1>5, <1>6, <1>7, <1>8, <1>9, <1>10, <1>11, <1>12, <1>13, <1>14
  DEF User, Touch

\* A step of a worker keeps the types.
LEMMA WorkType == ASSUME NEW t \in Threads PROVE TypeOK /\ Work(t) => TypeOK'
<1> SUFFICES ASSUME TypeOK, Work(t) PROVE TypeOK'
  OBVIOUS
<1>0. stack \in Seq(Screens) /\ front \in 0 .. Len(stack) /\ Len(stack) \in Nat
  BY LenProperties DEF TypeOK
<1>00. thread \in [Threads -> Workers] /\ session \in [Threads -> SUBSET Emails]
       /\ account \in Entries
  BY DEF TypeOK
<1>000. thread[t] \in Workers /\ session[t] \in SUBSET Emails
  BY <1>00
<1>1. CASE ReadEmail(t)
  <2> DEFINE read == [thread[t] EXCEPT !.pc = "password", !.account.email = account.email]
  <2>1. thread' \in [Threads -> Workers]
    <3>1. read.account \in Entries
      BY <1>00, <1>000 DEF Workers, Entries
    <3>2. read \in Workers
      BY <1>000, <3>1 DEF Workers, Steps
    <3>3. thread' = [thread EXCEPT ![t] = read]
      BY <1>00, <1>1 DEF ReadEmail
    <3> QED
      BY <1>00, <3>2, <3>3
  <2> QED
    BY <1>1, <2>1 DEF ReadEmail, TypeOK, prefs, sdcard, ui, history
<1>2. CASE ReadPassword(t)
  <2> DEFINE read == [thread[t] EXCEPT !.pc = "refresh", !.account.password = account.password]
  <2>1. thread' \in [Threads -> Workers]
    <3>1. read.account \in Entries
      BY <1>00, <1>000 DEF Workers, Entries
    <3>2. read \in Workers
      BY <1>000, <3>1 DEF Workers, Steps
    <3>3. thread' = [thread EXCEPT ![t] = read]
      BY <1>00, <1>2 DEF ReadPassword
    <3> QED
      BY <1>00, <3>2, <3>3
  <2> QED
    BY <1>2, <2>1 DEF ReadPassword, TypeOK, prefs, sdcard, ui, history
<1>3. CASE ReadRefresh(t)
  <2>1. thread' \in [Threads -> Workers]
    <3>1. (IF refresh = 0 THEN "wipe" ELSE AfterWipe(t)) \in Steps
      BY AfterWipeStep DEF Steps
    <3> QED
      BY <1>3, <3>1, WorkerStep DEF ReadRefresh
  <2> QED
    BY <1>3, <2>1 DEF ReadRefresh, TypeOK, prefs, sdcard, ui, history
<1>4. CASE Wipe(t)
  <2>1. thread' \in [Threads -> Workers]
    BY <1>4, WorkerStep, AfterWipeStep DEF Wipe
  <2> QED
    BY <1>4, <2>1 DEF Wipe, TypeOK, prefs, ui
<1>5. CASE InitFails(t)
  <2>1. thread' \in [Threads -> Workers]
    BY <1>00, <1>5, IdleWorker DEF InitFails
  <2>2. thread[t].owner \in ScreenIds
    BY <1>000 DEF Workers
  <2>3. stack' \in Seq(Screens) /\ Len(stack') = Len(stack)
    BY <1>0, <1>5, <2>2, StackStuck DEF InitFails
  <2> QED
    BY <1>0, <1>5, <2>1, <2>3 DEF InitFails, TypeOK, prefs, sdcard, history
<1>6. CASE EnterCall(t)
  <2>1. thread' \in [Threads -> Workers]
    BY <1>6, WorkerStep DEF EnterCall, Steps
  <2>2. SignIns(jar, thread[t].account) \subseteq Emails
    BY DEF SignIns, OwnSession, TypeOK
  <2>3. (UNION {session[u] : u \in {v \in Threads : Calling(v)}}) \subseteq Emails
    BY <1>00
  <2>4. session' \in [Threads -> SUBSET Emails]
    BY <1>00, <1>6, <2>2, <2>3 DEF EnterCall
  <2> QED
    BY <1>6, <2>1, <2>4 DEF EnterCall, TypeOK, prefs, sdcard, ui
<1>7. CASE FailCall(t)
  <2>1. thread' \in [Threads -> Workers]
    <3>1. PICK status \in {NotSignedIn, TransferError} :
            thread' = [thread EXCEPT ![t].pc = "post", ![t].status = status]
      BY <1>7 DEF FailCall
    <3>2. [thread[t] EXCEPT !.pc = "post", !.status = status] \in Workers
      BY <1>000 DEF Workers, Steps
    <3> QED
      BY <1>00, <3>1, <3>2
  <2>2. jar' \in SUBSET Emails
    BY <1>000, <1>7 DEF FailCall, JarsAfter, TypeOK
  <2>3. session' \in [Threads -> SUBSET Emails]
    BY <1>00, <1>7 DEF FailCall
  <2> QED
    BY <1>7, <2>1, <2>2, <2>3 DEF FailCall, TypeOK, prefs, ui, history
<1>8. CASE BeginTable(t)
  <2>1. thread' \in [Threads -> Workers]
    BY <1>8, WorkerStep DEF BeginTable, Steps
  <2> QED
    BY <1>8, <2>1 DEF BeginTable, TypeOK, prefs, ui, history
<1>9. CASE CloseTable(t)
  <2>1. thread' \in [Threads -> Workers]
    BY <1>9, WorkerStep DEF CloseTable, Steps
  <2>2. table' \in SUBSET Emails /\ cursor' \in BOOLEAN
    BY <1>000, <1>9 DEF CloseTable
  <2>3. session' \in [Threads -> SUBSET Emails]
    BY <1>00, <1>000, <1>9 DEF CloseTable
  <2> QED
    BY <1>9, <2>1, <2>2, <2>3 DEF CloseTable, TypeOK, prefs, ui, history
<1>14. CASE FinishCall(t)
  <2>1. thread' \in [Threads -> Workers]
    BY <1>14, WorkerStep DEF FinishCall, Steps
  <2>2. jar' \in SUBSET Emails
    BY <1>000, <1>14 DEF FinishCall, JarsAfter, TypeOK
  <2>3. session' \in [Threads -> SUBSET Emails]
    BY <1>00, <1>14 DEF FinishCall
  <2> QED
    BY <1>14, <2>1, <2>2, <2>3 DEF FinishCall, TypeOK, prefs, ui, history
<1>10. CASE OpenNext(t)
  <2>1. thread' \in [Threads -> Workers]
    <3>1. ASSUME Step(t, "commit") PROVE thread' \in [Threads -> Workers]
      BY <3>1, WorkerStep DEF Steps
    <3> QED
      BY <1>00, <1>10, <3>1, IdleWorker DEF OpenNext
  <2>2. stack' \in Seq(Screens) /\ Len(stack') = Len(stack) + 1
    BY <1>0, <1>10, StackAppend DEF OpenNext, StartActivity, Kinds
  <2> QED
    BY <1>0, <1>10, <2>1, <2>2 DEF OpenNext, TypeOK, prefs, sdcard, history
<1>11. CASE Commit(t)
  <2>1. thread' \in [Threads -> Workers]
    BY <1>00, <1>11, IdleWorker DEF Commit
  <2> QED
    BY <1>11, <2>1 DEF Commit, TypeOK, sdcard, ui, history
<1>12. CASE ShowDialog(t)
  <2>1. thread' \in [Threads -> Workers]
    BY <1>00, <1>12, IdleWorker DEF ShowDialog
  <2>2. DialogFor(thread[t].status) \in Views
    BY DEF DialogFor, Views, Dialogs
  <2>3. PICK i \in 1 .. Len(stack) : SetView(i, DialogFor(thread[t].status))
    BY <1>0, <1>12, LenProperties DEF ShowDialog
  <2>4. stack' \in Seq(Screens) /\ Len(stack') = Len(stack)
    BY <1>0, <2>2, <2>3, StackView DEF SetView
  <2> QED
    BY <1>0, <1>12, <2>1, <2>4 DEF ShowDialog, TypeOK, prefs, sdcard, history
<1>13. CASE ShowDialogTooLate(t)
  BY <1>13, ProcessGoneType DEF ShowDialogTooLate
<1> QED
  BY <1>1, <1>2, <1>3, <1>4, <1>5, <1>6, <1>7, <1>8, <1>9, <1>10, <1>11, <1>12, <1>13, <1>14
  DEF Work, Proceed

\* Every step keeps the types.
LEMMA NextType == TypeOK /\ [Next]_vars => TypeOK'
<1> SUFFICES ASSUME TypeOK, [Next]_vars PROVE TypeOK'
  OBVIOUS
<1>1. CASE Show
  BY <1>1, ShowType
<1>2. CASE User
  BY <1>2, UserType
<1>3. CASE ProcessDies
  BY <1>3, ProcessGoneType DEF ProcessDies
<1>4. CASE \E t \in Threads : Work(t)
  BY <1>4, WorkType
<1>5. CASE UNCHANGED vars
  BY <1>5 DEF vars, TypeOK, prefs, sdcard, ui, workers, history
<1> QED
  BY <1>1, <1>2, <1>3, <1>4, <1>5 DEF Next

\* The types hold in every state: no action leaves the focus outside the stack,
\* a screen it cannot show or a worker between two statements.
THEOREM TypeCorrect == Spec => []TypeOK
<1>1. Init => TypeOK
  BY InitType
<1>2. TypeOK /\ [Next]_vars => TypeOK'
  BY NextType
<1> QED
  BY <1>1, <1>2, PTL DEF Spec
-----------------------------------------------------------------------------
(* What a verified flag vouches for. *)

\* The state the invariant speaks of, but for the workers.
Kept == UNCHANGED <<account, verified, jar, table, wiped, doubt>>

\* A worker where it was, or idle, or just started.
Settled(u) == \/ thread'[u] = thread[u] /\ session'[u] = session[u]
              \/ thread'[u].pc \in {"idle", "email"}

\* Steps that leave that state alone, and each worker where it is, or idle, or
\* just started, keep the invariant.
LEMMA SoundQuiet ==
  ASSUME SoundInv, Kept,
         \A u \in Threads : Settled(u)
  PROVE  SoundInv'
<1> USE DEF Kept, Settled
<1> SUFFICES ASSUME ~ doubt
             PROVE  (ReadsCurrent /\ CardOwn /\ CallsOwn /\ AcceptedOnly)'
  BY DEF SoundInv
<1>0. ReadsCurrent /\ CardOwn /\ CallsOwn /\ AcceptedOnly
  BY DEF SoundInv
<1>1. ReadsCurrent'
  BY <1>0 DEF ReadsCurrent
<1>2. CardOwn'
  BY <1>0 DEF CardOwn, OwnSession
<1>3. CallsOwn'
  BY <1>0 DEF CallsOwn, Calling, OwnSession
<1>4. AcceptedOnly'
  BY <1>0 DEF AcceptedOnly, At, AfterWipe
<1> QED
  BY <1>1, <1>2, <1>3, <1>4

\* A worker that starts was idle, and no other worker moves.
LEMMA BeginCheckQuiet ==
  ASSUME TypeOK, NEW i, NEW s, BeginCheck(i, s), UNCHANGED session
  PROVE  \A u \in Threads : Settled(u)
<1> DEFINE started == [Idle EXCEPT !.pc = "email", !.owner = s]
<1>1. started.pc = "email"
  BY DEF Idle
<1>2. \/ UNCHANGED thread
      \/ \E t \in Threads : thread' = [thread EXCEPT ![t] = started]
  BY DEF BeginCheck
<1> HIDE DEF started
<1> QED
  BY <1>1, <1>2 DEF TypeOK, Settled

\* The UI thread keeps the invariant.
LEMMA ShowSound == TypeOK /\ SoundInv /\ Show => SoundInv'
<1> SUFFICES ASSUME TypeOK, SoundInv, Show PROVE SoundInv'
  OBVIOUS
<1>1. Kept
  BY DEF Show, ShowClient, ShowForm, CreateCheck, ResumeCheck, Kept, prefs, sdcard, history
<1>2. CASE UNCHANGED workers
  BY <1>1, <1>2, SoundQuiet DEF workers, Settled
<1>3. CASE \E s \in FreeIds : BeginCheck(Len(stack), s) /\ UNCHANGED session
  BY <1>1, <1>3, SoundQuiet, BeginCheckQuiet
<1> QED
  BY <1>2, <1>3 DEF Show, ShowClient, ShowForm, CreateCheck, ResumeCheck

\* An edit keeps the invariant: it withdraws "verified", and if it overtakes a
\* worker, nothing is claimed any more.
LEMMA OnNextSound == ASSUME NEW typed \in Typed
                     PROVE  TypeOK /\ SoundInv /\ OnNext(typed) => SoundInv'
<1> SUFFICES ASSUME TypeOK, OnNext(typed), ~ doubt' PROVE SoundInv'
  BY DEF SoundInv
<1>1. \A t \in Threads : thread'[t].pc = "idle"
  BY DEF OnNext, Running, workers
<1>2. ~ wiped' /\ verified' = 0
  BY DEF OnNext
<1> QED
  BY <1>1, <1>2 DEF SoundInv, ReadsCurrent, CardOwn, CallsOwn, Calling, AcceptedOnly, At

\* The user, and the system on a screen, keep the invariant.
LEMMA UserSound == TypeOK /\ SoundInv /\ User => SoundInv'
<1> SUFFICES ASSUME TypeOK, SoundInv, User PROVE SoundInv'
  OBVIOUS
<1>1. ASSUME NEW typed \in Typed, OnNext(typed) PROVE SoundInv'
  BY <1>1, OnNextSound
<1>2. CASE \/ LaunchHome \/ AddAccount \/ OpenMenu \/ OpenPreferences \/ EditLogin
           \/ EditDetails \/ CloseDialog \/ BackFromOther \/ GoHome
  <2>1. Kept /\ UNCHANGED workers
    BY <1>2 DEF LaunchHome, AddAccount, OpenMenu, OpenPreferences, EditLogin, EditDetails,
       CloseDialog, BackFromOther, GoHome, Kept, prefs, sdcard, history
  <2> QED
    BY <2>1, SoundQuiet DEF workers, Settled
<1>3. CASE RefreshAdsenseData \/ BackFromCheck
  <2>1. Kept /\ UNCHANGED workers
    BY <1>3 DEF RefreshAdsenseData, BackFromCheck, Kept, sdcard, history
  <2> QED
    BY <2>1, SoundQuiet DEF workers, Settled
<1>4. CASE Retry
  <2>1. Kept
    BY <1>4 DEF Retry, Kept, prefs, sdcard, history
  <2>2. CASE UNCHANGED workers
    BY <2>1, <2>2, SoundQuiet DEF workers, Settled
  <2>3. CASE BeginCheck(front, stack[front].id) /\ UNCHANGED session
    BY <2>1, <2>3, SoundQuiet, BeginCheckQuiet
  <2> QED
    BY <1>4, <2>2, <2>3 DEF Retry
<1>5. CASE Rotate
  <2>1. Kept
    BY <1>5 DEF Rotate, Kept, prefs, sdcard, history
  <2>2. CASE UNCHANGED workers
    BY <2>1, <2>2, SoundQuiet DEF workers, Settled
  <2>3. CASE \E s \in FreeIds : BeginCheck(front, s) /\ UNCHANGED session
    BY <2>1, <2>3, SoundQuiet, BeginCheckQuiet
  <2> QED
    BY <1>5, <2>2, <2>3 DEF Rotate
<1> QED
  BY <1>1, <1>2, <1>3, <1>4, <1>5 DEF User, Touch

\* The end of the process keeps the invariant: no worker survives it.
LEMMA ProcessGoneSound == SoundInv /\ ProcessGone => SoundInv'
<1> SUFFICES ASSUME SoundInv, ProcessGone PROVE SoundInv'
  OBVIOUS
<1>1. Kept /\ \A u \in Threads : thread'[u].pc = "idle"
  BY DEF ProcessGone, Kept, Idle, prefs, sdcard, history
<1> QED
  BY <1>1, SoundQuiet DEF Settled

\* A worker keeps the invariant.
LEMMA WorkSound == ASSUME NEW t \in Threads
                   PROVE  TypeOK /\ SoundInv /\ Work(t) => SoundInv'
<1> SUFFICES ASSUME TypeOK, SoundInv, Work(t) PROVE SoundInv'
  OBVIOUS
<1>0. thread \in [Threads -> Workers] /\ session \in [Threads -> SUBSET Emails]
      /\ account \in Entries
  BY DEF TypeOK
<1>00. thread[t] \in Workers
  BY <1>0
<1>a. ~ doubt => ReadsCurrent /\ CardOwn /\ CallsOwn /\ AcceptedOnly
  BY DEF SoundInv
<1>1. CASE ReadEmail(t)
  <2> SUFFICES ASSUME ~ doubt' PROVE (ReadsCurrent /\ CardOwn /\ CallsOwn /\ AcceptedOnly)'
    BY DEF SoundInv
  <2>1. UNCHANGED <<prefs, sdcard, session, history>>
    BY <1>1 DEF ReadEmail
  <2>2. thread'[t].pc = "password" /\ thread'[t].account.email = account.email
    BY <1>0, <1>00, <1>1 DEF ReadEmail, Workers, Entries
  <2>3. \A u \in Threads \ {t} : thread'[u] = thread[u]
    BY <1>0, <1>1 DEF ReadEmail
  <2>4. ReadsCurrent /\ CardOwn /\ CallsOwn /\ AcceptedOnly
    BY <1>a, <2>1 DEF history
  <2> QED
    BY <2>1, <2>2, <2>3, <2>4 DEF prefs, sdcard, history, ReadsCurrent, CardOwn, CallsOwn,
       AcceptedOnly, At, Calling, OwnSession, AfterWipe
<1>2. CASE ReadPassword(t)
  <2> SUFFICES ASSUME ~ doubt' PROVE (ReadsCurrent /\ CardOwn /\ CallsOwn /\ AcceptedOnly)'
    BY DEF SoundInv
  <2>1. UNCHANGED <<prefs, sdcard, session, history>>
    BY <1>2 DEF ReadPassword
  <2>2. /\ thread'[t].pc = "refresh" /\ thread'[t].account.email = thread[t].account.email
        /\ thread'[t].account.password = account.password
    BY <1>0, <1>00, <1>2 DEF ReadPassword, Workers, Entries
  <2>3. \A u \in Threads \ {t} : thread'[u] = thread[u]
    BY <1>0, <1>2 DEF ReadPassword
  <2>4. ReadsCurrent /\ CardOwn /\ CallsOwn /\ AcceptedOnly
    BY <1>a, <2>1 DEF history
  <2>5. thread[t].account.email = account.email
    BY <1>2, <2>4 DEF ReadPassword, At, ReadsCurrent
  <2> QED
    BY <2>1, <2>2, <2>3, <2>4, <2>5 DEF prefs, sdcard, history, ReadsCurrent, CardOwn, CallsOwn,
       AcceptedOnly, At, Calling, OwnSession, AfterWipe
<1>3. CASE ReadRefresh(t)
  <2> SUFFICES ASSUME ~ doubt' PROVE (ReadsCurrent /\ CardOwn /\ CallsOwn /\ AcceptedOnly)'
    BY DEF SoundInv
  <2>1. UNCHANGED <<prefs, sdcard, session, history>>
    BY <1>3 DEF ReadRefresh
  <2>2. /\ thread'[t].pc = "wipe" \/ thread'[t].pc = AfterWipe(t)
        /\ thread'[t].account = thread[t].account
    BY <1>0, <1>00, <1>3 DEF ReadRefresh, Step, Workers
  <2>3. \A u \in Threads \ {t} : thread'[u] = thread[u]
    BY <1>0, <1>3 DEF ReadRefresh, Step
  <2>4. ReadsCurrent /\ CardOwn /\ CallsOwn /\ AcceptedOnly
    BY <1>a, <2>1 DEF history
  <2>5. thread[t].account.email = account.email /\ thread[t].account.password = account.password
    BY <1>3, <2>4 DEF ReadRefresh, At, ReadsCurrent
  <2> QED
    BY <2>1, <2>2, <2>3, <2>4, <2>5 DEF prefs, sdcard, history, ReadsCurrent, CardOwn, CallsOwn,
       AcceptedOnly, At, Calling, OwnSession, AfterWipe
<1>4. CASE Wipe(t)
  <2> SUFFICES ASSUME ~ doubt' PROVE (ReadsCurrent /\ CardOwn /\ CallsOwn /\ AcceptedOnly)'
    BY DEF SoundInv
  <2>1. UNCHANGED <<prefs, session, doubt>> /\ jar' = {} /\ table' = {} /\ wiped' = TRUE
    BY <1>4 DEF Wipe
  <2>2. thread'[t].pc = AfterWipe(t) /\ thread'[t].account = thread[t].account
    BY <1>0, <1>00, <1>4 DEF Wipe, Step, Workers
  <2>3. \A u \in Threads \ {t} : thread'[u] = thread[u]
    BY <1>0, <1>4 DEF Wipe, Step
  <2>4. ReadsCurrent /\ CardOwn /\ CallsOwn /\ AcceptedOnly
    BY <1>a, <2>1
  <2>5. thread[t].account.email = account.email /\ thread[t].account.password = account.password
    BY <1>4, <2>4 DEF Wipe, At, ReadsCurrent
  <2> QED
    BY <2>1, <2>2, <2>3, <2>4, <2>5 DEF prefs, ReadsCurrent, CardOwn, CallsOwn,
       AcceptedOnly, At, Calling, OwnSession, AfterWipe
<1>5. CASE InitFails(t)
  <2>1. Kept /\ UNCHANGED session
    BY <1>5 DEF InitFails, Kept, prefs, sdcard, history
  <2>2. \A u \in Threads : thread'[u] = thread[u] \/ thread'[u].pc = "idle"
    BY <1>0, <1>5 DEF InitFails, Idle
  <2> QED
    BY <2>1, <2>2, SoundQuiet DEF Settled
<1>6. CASE EnterCall(t)
  <2> SUFFICES ASSUME ~ doubt' PROVE (ReadsCurrent /\ CardOwn /\ CallsOwn /\ AcceptedOnly)'
    BY DEF SoundInv
  <2>1. UNCHANGED <<prefs, sdcard, wiped>> /\ ~ doubt /\ wiped
    BY <1>6 DEF EnterCall
  <2>2. thread'[t].pc = "calling" /\ thread'[t].account = thread[t].account
    BY <1>0, <1>00, <1>6 DEF EnterCall, Step, Workers
  <2>3. \A u \in Threads \ {t} : thread'[u] = thread[u]
    BY <1>0, <1>6 DEF EnterCall, Step
  <2>4. ReadsCurrent /\ CardOwn /\ CallsOwn /\ AcceptedOnly
    BY <1>a, <2>1
  <2>5. thread[t].account = account
    <3>1. thread[t].account.email = account.email /\ thread[t].account.password = account.password
      BY <1>6, <2>4 DEF EnterCall, At, ReadsCurrent
    <3> QED
      BY <1>0, <1>00, <3>1 DEF Workers, Entries
  <2>6. SignIns(jar, thread[t].account) \subseteq OwnSession(account)
    BY <2>1, <2>4, <2>5 DEF SignIns, CardOwn
  <2>7. (UNION {session[u] : u \in {v \in Threads : Calling(v)}}) \subseteq OwnSession(account)
    BY <2>4 DEF CallsOwn
  <2>8. \A u \in Threads : u = t \/ Calling(u) => session'[u] \subseteq OwnSession(account)
    BY <1>6, <2>6, <2>7 DEF EnterCall
  <2>9. CallsOwn'
    BY <2>1, <2>2, <2>3, <2>8 DEF CallsOwn, Calling, OwnSession, prefs
  <2>10. ReadsCurrent'
    BY <2>1, <2>2, <2>3, <2>4, <2>5 DEF ReadsCurrent, prefs
  <2>11. CardOwn' /\ AcceptedOnly'
    BY <2>1, <2>2, <2>3, <2>4 DEF CardOwn, AcceptedOnly, At, AfterWipe, OwnSession, prefs, sdcard
  <2> QED
    BY <2>9, <2>10, <2>11
<1>7. CASE FailCall(t)
  <2> SUFFICES ASSUME ~ doubt' PROVE (ReadsCurrent /\ CardOwn /\ CallsOwn /\ AcceptedOnly)'
    BY DEF SoundInv
  <2>1. UNCHANGED <<prefs, table, history>>
    BY <1>7 DEF FailCall
  <2>2. thread'[t].pc = "post" /\ thread'[t].account = thread[t].account
    BY <1>0, <1>00, <1>7 DEF FailCall, Workers
  <2>3. \A u \in Threads \ {t} : thread'[u] = thread[u] /\ session'[u] = session[u]
    BY <1>0, <1>7 DEF FailCall
  <2>4. ReadsCurrent /\ CardOwn /\ CallsOwn /\ AcceptedOnly
    BY <1>a, <2>1 DEF history
  <2>5. thread[t].account.email = account.email /\ thread[t].account.password = account.password
    BY <1>7, <2>4 DEF FailCall, At, ReadsCurrent
  <2>6. session[t] \subseteq OwnSession(account) /\ jar \subseteq OwnSession(account)
    BY <1>7, <2>4 DEF FailCall, At, Calling, CallsOwn, CardOwn
  <2>7. jar' \subseteq OwnSession(account)
    BY <1>7, <2>6 DEF FailCall, JarsAfter
  <2>8. CardOwn'
    BY <2>1, <2>4, <2>7 DEF CardOwn, OwnSession, prefs, history
  <2>9. CallsOwn' /\ AcceptedOnly'
    BY <2>1, <2>2, <2>3, <2>4 DEF CallsOwn, Calling, AcceptedOnly, At, AfterWipe, OwnSession, prefs, history
  <2> QED
    BY <2>1, <2>2, <2>3, <2>4, <2>5, <2>8, <2>9 DEF ReadsCurrent, prefs
<1>8. CASE BeginTable(t)
  <2> SUFFICES ASSUME ~ doubt' PROVE (ReadsCurrent /\ CardOwn /\ CallsOwn /\ AcceptedOnly)'
    BY DEF SoundInv
  <2>1. UNCHANGED <<prefs, jar, session, history>> /\ table' = {}
    BY <1>8 DEF BeginTable
  <2>2. thread'[t].pc = "writing" /\ thread'[t].account = thread[t].account
    BY <1>0, <1>00, <1>8 DEF BeginTable, Step, Workers
  <2>3. \A u \in Threads \ {t} : thread'[u] = thread[u]
    BY <1>0, <1>8 DEF BeginTable, Step
  <2>4. ReadsCurrent /\ CardOwn /\ CallsOwn /\ AcceptedOnly
    BY <1>a, <2>1 DEF history
  <2>5. thread[t].account.email = account.email /\ thread[t].account.password = account.password
    BY <1>8, <2>4 DEF BeginTable, At, ReadsCurrent
  <2>6. wiped /\ session[t] \subseteq OwnSession(account)
    BY <1>8, <2>4 DEF BeginTable, At, Calling, CallsOwn
  <2>7. CallsOwn' /\ CardOwn' /\ AcceptedOnly'
    BY <2>1, <2>2, <2>3, <2>4, <2>6 DEF CallsOwn, CardOwn, Calling, AcceptedOnly, At, AfterWipe,
       OwnSession, prefs, history
  <2> QED
    BY <2>1, <2>2, <2>3, <2>4, <2>5, <2>7 DEF ReadsCurrent, prefs
<1>9. CASE CloseTable(t)
  <2> SUFFICES ASSUME ~ doubt' PROVE (ReadsCurrent /\ CardOwn /\ CallsOwn /\ AcceptedOnly)'
    BY DEF SoundInv
  <2>1. UNCHANGED <<prefs, jar, history>>
    BY <1>9 DEF CloseTable
  <2>2. thread'[t].pc = "closing" /\ thread'[t].account = thread[t].account
    BY <1>0, <1>00, <1>9 DEF CloseTable, Step, Workers
  <2>3. \A u \in Threads \ {t} : thread'[u] = thread[u] /\ session'[u] = session[u]
    BY <1>0, <1>9 DEF CloseTable, Step
  <2>4. ReadsCurrent /\ CardOwn /\ CallsOwn /\ AcceptedOnly
    BY <1>a, <2>1 DEF history
  <2>5. thread[t].account.email = account.email /\ thread[t].account.password = account.password
    BY <1>9, <2>4 DEF CloseTable, At, ReadsCurrent
  <2>6. wiped /\ session[t] \subseteq OwnSession(account)
    BY <1>9, <2>4 DEF CloseTable, At, Calling, CallsOwn
  <2>7. PICK e \in session[t] : session'[t] = {e} /\ (table' = {e} \/ table' = {})
    BY <1>0, <1>9 DEF CloseTable
  <2>8. /\ account \in Accounts /\ session'[t] \subseteq OwnSession(account)
        /\ table' \subseteq OwnSession(account)
    BY <2>6, <2>7 DEF OwnSession
  <2>9. CallsOwn' /\ CardOwn' /\ AcceptedOnly'
    BY <2>1, <2>2, <2>3, <2>4, <2>6, <2>8 DEF CallsOwn, CardOwn, Calling, AcceptedOnly, At, AfterWipe,
       OwnSession, prefs, history
  <2> QED
    BY <2>1, <2>2, <2>3, <2>4, <2>5, <2>9 DEF ReadsCurrent, prefs
<1>14. CASE FinishCall(t)
  <2> SUFFICES ASSUME ~ doubt' PROVE (ReadsCurrent /\ CardOwn /\ CallsOwn /\ AcceptedOnly)'
    BY DEF SoundInv
  <2>1. UNCHANGED <<prefs, table, history>>
    BY <1>14 DEF FinishCall
  <2>2. thread'[t].pc = "open" /\ thread'[t].account = thread[t].account
    BY <1>0, <1>00, <1>14 DEF FinishCall, Step, Workers
  <2>3. \A u \in Threads \ {t} : thread'[u] = thread[u] /\ session'[u] = session[u]
    BY <1>0, <1>14 DEF FinishCall, Step
  <2>4. ReadsCurrent /\ CardOwn /\ CallsOwn /\ AcceptedOnly
    BY <1>a, <2>1 DEF history
  <2>5. thread[t].account.email = account.email /\ thread[t].account.password = account.password
    BY <1>14, <2>4 DEF FinishCall, At, ReadsCurrent
  <2>6. /\ wiped /\ account \in Accounts
        /\ session[t] \subseteq OwnSession(account) /\ jar \subseteq OwnSession(account)
    BY <1>14, <2>4 DEF FinishCall, At, Calling, CallsOwn, CardOwn, AcceptedOnly
  <2>7. jar' \subseteq OwnSession(account)
    BY <1>14, <2>6 DEF FinishCall, JarsAfter
  <2>8. CallsOwn' /\ CardOwn' /\ AcceptedOnly'
    BY <2>1, <2>2, <2>3, <2>4, <2>6, <2>7 DEF CallsOwn, CardOwn, Calling, AcceptedOnly, At, AfterWipe,
       OwnSession, prefs, history
  <2> QED
    BY <2>1, <2>2, <2>3, <2>4, <2>5, <2>8 DEF ReadsCurrent, prefs
<1>10. CASE OpenNext(t)
  <2>1. Kept /\ UNCHANGED session
    BY <1>10 DEF OpenNext, Kept, prefs, sdcard, history
  <2>2. CASE AfterWipe(t) # "call"
    <3>1. \A u \in Threads : thread'[u] = thread[u] \/ thread'[u].pc = "idle"
      BY <1>0, <1>10, <2>2 DEF OpenNext, Idle
    <3> QED
      BY <2>1, <3>1, SoundQuiet DEF Settled
  <2>3. CASE AfterWipe(t) = "call"
    <3> SUFFICES ASSUME ~ doubt' PROVE (ReadsCurrent /\ CardOwn /\ CallsOwn /\ AcceptedOnly)'
      BY DEF SoundInv
    <3>1. thread'[t].pc = "commit" /\ thread'[t].account = thread[t].account
      BY <1>0, <1>00, <1>10, <2>3 DEF OpenNext, Step, Workers
    <3>2. \A u \in Threads \ {t} : thread'[u] = thread[u]
      BY <1>0, <1>10, <2>3 DEF OpenNext, Step
    <3>3. ReadsCurrent /\ CardOwn /\ CallsOwn /\ AcceptedOnly
      BY <1>a, <2>1 DEF Kept
    <3>4. thread[t].account.email = account.email /\ thread[t].account.password = account.password
      BY <1>10, <3>3 DEF OpenNext, At, ReadsCurrent
    <3>5. wiped /\ account \in Accounts
      BY <1>10, <2>3, <3>3 DEF OpenNext, At, AcceptedOnly
    <3> QED
      BY <2>1, <3>1, <3>2, <3>3, <3>4, <3>5 DEF Kept, ReadsCurrent, CardOwn, CallsOwn, AcceptedOnly,
         At, Calling, OwnSession, AfterWipe
  <2> QED
    BY <2>2, <2>3
<1>11. CASE Commit(t)
  <2> SUFFICES ASSUME ~ doubt' PROVE (ReadsCurrent /\ CardOwn /\ CallsOwn /\ AcceptedOnly)'
    BY DEF SoundInv
  <2>1. UNCHANGED <<account, sdcard, session, history>>
    BY <1>11 DEF Commit
  <2>2. thread'[t].pc = "idle" /\ \A u \in Threads \ {t} : thread'[u] = thread[u]
    BY <1>0, <1>11 DEF Commit, Idle
  <2>3. ReadsCurrent /\ CardOwn /\ CallsOwn /\ AcceptedOnly
    BY <1>a, <2>1 DEF history
  <2>4. wiped /\ account \in Accounts
    BY <1>11, <2>3 DEF Commit, At, AcceptedOnly
  <2> QED
    BY <2>1, <2>2, <2>3, <2>4 DEF sdcard, history, ReadsCurrent, CardOwn, CallsOwn, AcceptedOnly,
       At, Calling, OwnSession, AfterWipe
<1>12. CASE ShowDialog(t)
  <2>1. Kept /\ UNCHANGED session
    BY <1>12 DEF ShowDialog, Kept, prefs, sdcard, history
  <2>2. \A u \in Threads : thread'[u] = thread[u] \/ thread'[u].pc = "idle"
    BY <1>0, <1>12 DEF ShowDialog, Idle
  <2> QED
    BY <2>1, <2>2, SoundQuiet DEF Settled
<1>13. CASE ShowDialogTooLate(t)
  BY <1>13, ProcessGoneSound DEF ShowDialogTooLate
<1> QED
  BY <1>1, <1>2, <1>3, <1>4, <1>5, <1>6, <1>7, <1>8, <1>9, <1>10, <1>11, <1>12, <1>13, <1>14
  DEF Work, Proceed

\* The invariant is inductive on well-typed states.
LEMMA NextSound == TypeOK /\ SoundInv /\ [Next]_vars => SoundInv'
<1> SUFFICES ASSUME TypeOK, SoundInv, [Next]_vars PROVE SoundInv'
  OBVIOUS
<1>1. CASE Show
  BY <1>1, ShowSound
<1>2. CASE User
  BY <1>2, UserSound
<1>3. CASE ProcessDies
  BY <1>3, ProcessGoneSound DEF ProcessDies
<1>4. CASE \E t \in Threads : Work(t)
  BY <1>4, WorkSound
<1>5. CASE UNCHANGED vars
  <2>1. Kept /\ UNCHANGED workers
    BY <1>5 DEF vars, Kept, prefs, sdcard, history
  <2> QED
    BY <2>1, SoundQuiet DEF workers, Settled
<1> QED
  BY <1>1, <1>2, <1>3, <1>4, <1>5 DEF Next

\* Nothing is claimed of the initial state: no account, no worker, no file.
LEMMA InitSound == Init => SoundInv
BY DEF Init, Idle, SoundInv, ReadsCurrent, CardOwn, CallsOwn, Calling, AcceptedOnly, At

\* The parts say what AccountSound says.
LEMMA SoundInvSound == SoundInv => AccountSound
BY DEF SoundInv, AcceptedOnly, CardOwn, OwnSession, AccountSound

\* What "verified" vouches for, for any number of workers, accounts and screens:
\* unless an edit overtook a worker or a call met cookies of the account before,
\* a verified account is one AdSense accepts, and cookies and table are its own.
THEOREM VerifiedMeansAccepted == Spec => []AccountSound
<1>1. Init => TypeOK /\ SoundInv
  BY InitType, InitSound
<1>2. (TypeOK /\ SoundInv) /\ [Next]_vars => (TypeOK /\ SoundInv)'
  BY NextType, NextSound
<1>3. TypeOK /\ SoundInv => AccountSound
  BY SoundInvSound
<1> QED
  BY <1>1, <1>2, <1>3, PTL DEF Spec
-----------------------------------------------------------------------------
(* What a worker found of the account. *)

\* No way leads from these screens to a check.
Unarmed(s) == \A i \in DOMAIN s : s[i].kind # "check" /\ s[i].menu # "full"

\* Before the first commit of an account there is nothing that could check one.
Untouched == verified = 0 /\ Unarmed(stack) /\ \A t \in Threads : ~ Running(t)

\* A worker past a read found what it read.
HasRead(t) ==
  /\ thread[t].pc \notin {"idle", "email"} => thread[t].account.email # Null
  /\ thread[t].pc \notin {"idle", "email", "password"} => thread[t].account.password # Null

\* The inductive strengthening of CredentialsPresent.
EnteredInv ==
  /\ account \in Credentials \/ Untouched
  /\ \A t \in Threads : HasRead(t)

\* Opening a screen other than a check arms nothing.
LEMMA UnarmedAppend ==
  ASSUME NEW s \in Seq(Screens), Unarmed(s), NEW kind \in Kinds \ {"check"}
  PROVE  Unarmed(Append(s, NewScreen(kind)))
<1>1. NewScreen(kind) \in Screens
  BY DEF NewScreen, Screens, Views, ScreenIds
<1>2. \A i \in 1 .. Len(s) + 1 :
        Append(s, NewScreen(kind))[i] = IF i <= Len(s) THEN s[i] ELSE NewScreen(kind)
  BY <1>1, AppendProperties
<1>3. DOMAIN Append(s, NewScreen(kind)) = 1 .. Len(s) + 1 /\ DOMAIN s = 1 .. Len(s)
  BY <1>1, AppendProperties, LenProperties
<1> QED
  BY <1>2, <1>3, LenProperties DEF Unarmed, NewScreen

\* Finishing an activity moves the ones above it down by one.
LEMMA StackWithout ==
  ASSUME NEW s \in Seq(Screens), NEW i \in 1 .. Len(s)
  PROVE  /\ DOMAIN RemoveAt(s, i) = 1 .. Len(s) - 1
         /\ \A j \in 1 .. Len(s) - 1 : RemoveAt(s, i)[j] = s[IF j < i THEN j ELSE j + 1]
<1> DEFINE before == SubSeq(s, 1, i - 1)
           after == SubSeq(s, i + 1, Len(s))
<1>0. /\ Len(s) \in Nat /\ DOMAIN s = 1 .. Len(s)
      /\ i \in Nat /\ 1 <= i /\ i <= Len(s)
      /\ \A k \in 1 .. Len(s) : s[k] \in Screens
  BY LenProperties, ElementOfSeq
<1>1. /\ before \in Seq(Screens) /\ Len(before) = i - 1
      /\ \A j \in 1 .. i - 1 : before[j] = s[j]
  <2>1. \A k \in 1 .. i - 1 : s[k] \in Screens
    BY <1>0
  <2>2. /\ before \in Seq(Screens)
        /\ Len(before) = IF 1 <= i - 1 THEN (i - 1) - 1 + 1 ELSE 0
        /\ \A j \in 1 .. (i - 1) - 1 + 1 : before[j] = s[1 + j - 1]
    BY <1>0, <2>1, SubSeqProperties
  <2>3. \A j \in Int : 1 + j - 1 = j
    OBVIOUS
  <2> QED
    BY <1>0, <2>2, <2>3
<1>2. /\ after \in Seq(Screens) /\ Len(after) = Len(s) - i
      /\ \A j \in 1 .. Len(s) - i : after[j] = s[i + j]
  <2>1. \A k \in i + 1 .. Len(s) : s[k] \in Screens
    BY <1>0
  <2>2. /\ after \in Seq(Screens)
        /\ Len(after) = IF i + 1 <= Len(s) THEN Len(s) - (i + 1) + 1 ELSE 0
        /\ \A j \in 1 .. Len(s) - (i + 1) + 1 : after[j] = s[i + 1 + j - 1]
    BY <1>0, <2>1, SubSeqProperties
  <2>3. Len(after) = Len(s) - i
    <3>1. CASE i + 1 <= Len(s)
      <4>1. Len(s) - (i + 1) + 1 = Len(s) - i
        BY <1>0
      <4> QED
        BY <2>2, <3>1, <4>1
    <3>2. CASE i = Len(s)
      <4>1. ~ (i + 1 <= Len(s)) /\ Len(s) - i = 0
        BY <1>0, <3>2
      <4> QED
        BY <2>2, <4>1
    <3>3. i + 1 <= Len(s) \/ i = Len(s)
      <4>1. \A a, b \in Nat : a <= b => a + 1 <= b \/ a = b
        OBVIOUS
      <4> QED
        BY <1>0, <4>1
    <3> QED
      BY <3>1, <3>2, <3>3
  <2>4. ASSUME NEW j \in 1 .. Len(s) - i
        PROVE  after[j] = s[i + j]
    <3>1. j \in 1 .. Len(s) - (i + 1) + 1 /\ i + 1 + j - 1 = i + j
      BY <1>0
    <3>2. after[j] = s[i + 1 + j - 1]
      BY <2>2, <3>1
    <3> QED
      BY <3>1, <3>2
  <2> QED
    BY <2>2, <2>3, <2>4
<1>3. RemoveAt(s, i) = before \o after
  BY DEF RemoveAt
<1> HIDE DEF before, after
<1>4. /\ DOMAIN (before \o after) = 1 .. Len(before) + Len(after)
      /\ \A j \in 1 .. Len(before) + Len(after) :
           (before \o after)[j] = IF j <= Len(before) THEN before[j] ELSE after[j - Len(before)]
  <2>1. before \o after \in Seq(Screens)
    BY <1>1, <1>2, ConcatProperties
  <2>2. DOMAIN (before \o after) = 1 .. Len(before \o after)
    BY <2>1, LenProperties
  <2> QED
    BY <1>1, <1>2, <2>2, ConcatProperties
<1>5. Len(before) + Len(after) = Len(s) - 1
  BY <1>0, <1>1, <1>2
<1>6. ASSUME NEW j \in 1 .. Len(s) - 1
      PROVE  (before \o after)[j] = s[IF j < i THEN j ELSE j + 1]
  <2>1. CASE j < i
    <3>1. j \in 1 .. i - 1 /\ j <= Len(before)
      BY <1>0, <1>1, <2>1
    <3> QED
      BY <1>1, <1>4, <1>5, <2>1, <3>1
  <2>2. CASE ~ (j < i)
    <3>1. ~ (j <= Len(before)) /\ j - Len(before) \in 1 .. Len(s) - i
      BY <1>0, <1>1, <2>2
    <3>2. after[j - Len(before)] = s[i + (j - Len(before))]
      BY <1>2, <3>1
    <3>3. i + (j - Len(before)) = j + 1
      BY <1>0, <1>1
    <3> QED
      BY <1>4, <1>5, <2>2, <3>1, <3>2, <3>3
  <2> QED
    BY <2>1, <2>2
<1> QED
  BY <1>3, <1>4, <1>5, <1>6

\* Finishing a screen arms nothing.
LEMMA UnarmedRemove ==
  ASSUME NEW s \in Seq(Screens), Unarmed(s), NEW i \in 1 .. Len(s)
  PROVE  Unarmed(RemoveAt(s, i))
<1>1. Len(s) \in Nat /\ DOMAIN s = 1 .. Len(s)
  BY LenProperties
<1>2. ASSUME NEW j \in 1 .. Len(s) - 1
      PROVE  \E k \in DOMAIN s : RemoveAt(s, i)[j] = s[k]
  <2>1. j \in DOMAIN s /\ j + 1 \in DOMAIN s
    BY <1>1
  <2> QED
    BY <2>1, StackWithout
<1> QED
  BY <1>2, StackWithout DEF Unarmed

\* The account is entered once and for all.
LEMMA EnteredStays ==
  ASSUME account \in Credentials, [Next]_vars
  PROVE  account' \in Credentials
<1>1. CASE UNCHANGED account
  BY <1>1
<1>2. CASE \E typed \in Typed : OnNext(typed)
  BY <1>2, TypedAssumption DEF OnNext
<1>3. CASE Show
  BY <1>3 DEF Show, ShowClient, ShowForm, CreateCheck, ResumeCheck, prefs
<1>4. CASE User /\ ~ \E typed \in Typed : OnNext(typed)
  BY <1>4 DEF User, Touch, LaunchHome, AddAccount, OpenMenu, OpenPreferences, RefreshAdsenseData,
     EditLogin, EditDetails, Retry, CloseDialog, BackFromCheck, BackFromOther, GoHome, Rotate, prefs
<1>5. CASE ProcessDies
  BY <1>5 DEF ProcessDies, ProcessGone, prefs
<1>6. CASE \E t \in Threads : Work(t)
  BY <1>6 DEF Work, Proceed, ReadEmail, ReadPassword, ReadRefresh, Wipe, InitFails, EnterCall, FailCall,
     BeginTable, CloseTable, FinishCall, OpenNext, Commit, ShowDialog, ShowDialogTooLate,
     ProcessGone, prefs
<1>7. CASE UNCHANGED vars
  BY <1>7 DEF vars, prefs
<1> QED
  BY <1>1, <1>2, <1>3, <1>4, <1>5, <1>6, <1>7 DEF Next

\* Before the first commit, the UI thread shows the client or a form.
LEMMA ShowUntouched == TypeOK /\ Untouched /\ Show => Untouched'
<1> SUFFICES ASSUME TypeOK, Untouched, Show PROVE Untouched'
  OBVIOUS
<1>1. stack \in Seq(Screens) /\ front \in 0 .. Len(stack) /\ DOMAIN stack = 1 .. Len(stack)
  BY LenProperties DEF TypeOK
<1>2. front # Len(stack) => Len(stack) \in DOMAIN stack
  BY <1>1, TopExists
<1>3. ~ CreateCheck /\ ~ ResumeCheck
  BY <1>2 DEF CreateCheck, ResumeCheck, ToShow, Untouched, Unarmed
<1>4. ASSUME NEW view, SetView(Len(stack), view), front # Len(stack)
      PROVE  Unarmed(stack')
  BY <1>1, <1>2, <1>4 DEF SetView, Untouched, Unarmed, Screens
<1>5. Unarmed(stack')
  BY <1>3, <1>4 DEF Show, ShowClient, ShowForm, ToShow
<1> QED
  BY <1>3, <1>5 DEF Show, ShowClient, ShowForm, Untouched, Running, prefs, workers

\* Before the first commit, the user only finds clients with an empty menu, forms,
\* and at last the button that commits.
LEMMA UserUntouched ==
  TypeOK /\ Untouched /\ User => account' \in Credentials \/ Untouched'
<1> SUFFICES ASSUME TypeOK, Untouched, User PROVE account' \in Credentials \/ Untouched'
  OBVIOUS
<1>1. stack \in Seq(Screens) /\ front \in 0 .. Len(stack) /\ DOMAIN stack = 1 .. Len(stack)
  BY LenProperties DEF TypeOK
<1>2. front > 0 => front \in DOMAIN stack /\ front \in 1 .. Len(stack) /\ stack[front] \in Screens
  BY <1>1, ElementOfSeq, LenProperties
<1>3. /\ front > 0 => stack[front].kind # "check" /\ stack[front].menu # "full"
      /\ verified = 0 /\ Unarmed(stack)
  BY <1>2 DEF Untouched, Unarmed
<1>4. ~ OpenPreferences /\ ~ RefreshAdsenseData /\ ~ EditDetails /\ ~ Retry /\ ~ CloseDialog
      /\ ~ BackFromCheck
  BY <1>3 DEF OpenPreferences, RefreshAdsenseData, EditDetails, Retry, CloseDialog, BackFromCheck,
     InFront
<1>5. CASE \E typed \in Typed : OnNext(typed)
  BY <1>5, TypedAssumption DEF OnNext
<1>6. CASE LaunchHome \/ AddAccount \/ EditLogin
  <2>1. Unarmed(stack')
    BY <1>1, <1>3, <1>6, UnarmedAppend DEF LaunchHome, AddAccount, EditLogin, Open, StartActivity,
       Kinds
  <2> QED
    BY <1>6, <2>1 DEF LaunchHome, AddAccount, EditLogin, Untouched, Running, prefs, workers
<1>7. CASE OpenMenu
  <2>1. stack' = [stack EXCEPT ![front].menu = "empty"]
    BY <1>3, <1>7 DEF OpenMenu
  <2>2. Unarmed(stack')
    BY <1>2, <1>3, <1>7, <2>1 DEF OpenMenu, InFront, Unarmed, Screens
  <2> QED
    BY <1>7, <2>2 DEF OpenMenu, Untouched, Running, prefs, workers
<1>8. CASE BackFromOther
  <2>1. Unarmed(stack')
    BY <1>1, <1>2, <1>3, <1>8, UnarmedRemove DEF BackFromOther, FinishFront
  <2> QED
    BY <1>8, <2>1 DEF BackFromOther, Untouched, Running, prefs, workers
<1>9. CASE GoHome
  BY <1>3, <1>9 DEF GoHome, Untouched, Running, prefs, workers
<1>10. CASE Rotate
  <2>1. stack' = [stack EXCEPT ![front].view = ClientView, ![front].menu = "unknown"]
        /\ UNCHANGED <<prefs, workers>> /\ front > 0
    BY <1>3, <1>10 DEF Rotate
  <2>2. Unarmed(stack')
    BY <1>2, <1>3, <2>1 DEF Unarmed, Screens
  <2> QED
    BY <2>1, <2>2 DEF Untouched, Running, prefs, workers
<1> QED
  BY <1>4, <1>5, <1>6, <1>7, <1>8, <1>9, <1>10 DEF User, Touch

\* The end of the process leaves no screen and no worker.
LEMMA ProcessGoneUntouched == Untouched /\ ProcessGone => Untouched'
BY EmptySeq DEF Untouched, ProcessGone, Unarmed, Running, Idle, prefs

\* An account, or nothing that could check one.
LEMMA NextEntered ==
  ASSUME TypeOK, account \in Credentials \/ Untouched, [Next]_vars
  PROVE  (account \in Credentials \/ Untouched)'
<1>1. CASE account \in Credentials
  BY <1>1, EnteredStays
<1>2. CASE Untouched
  <2>1. ASSUME NEW t \in Threads PROVE ~ Work(t)
    BY <1>2 DEF Untouched, Running, Work, Proceed, At, ReadEmail, ReadPassword, ReadRefresh, Wipe, InitFails,
       EnterCall, FailCall, BeginTable, CloseTable, FinishCall, OpenNext, Commit, ShowDialog,
       ShowDialogTooLate
  <2>2. CASE UNCHANGED vars
    BY <1>2, <2>2 DEF vars, prefs, ui, workers, Untouched, Unarmed, Running
  <2> QED
    BY <1>2, <2>1, <2>2, ShowUntouched, UserUntouched, ProcessGoneUntouched DEF Next, ProcessDies
<1> QED
  BY <1>1, <1>2

\* A worker that stays, ends or starts has read what it had.
LEMMA ReadQuiet ==
  ASSUME \A t \in Threads : HasRead(t),
         \A u \in Threads : thread'[u] = thread[u] \/ thread'[u].pc \in {"idle", "email"}
  PROVE  \A u \in Threads : HasRead(u)'
BY DEF HasRead

\* The screens start workers, or leave them alone.
LEMMA ScreensRead ==
  ASSUME TypeOK, \A t \in Threads : HasRead(t), Show \/ User \/ ProcessDies
  PROVE  \A t \in Threads : HasRead(t)'
<1>1. CASE UNCHANGED thread
  BY <1>1, ReadQuiet
<1>2. ASSUME NEW i, NEW s, BeginCheck(i, s)
      PROVE  \A u \in Threads : thread'[u] = thread[u] \/ thread'[u].pc \in {"idle", "email"}
  <2> DEFINE started == [Idle EXCEPT !.pc = "email", !.owner = s]
  <2>1. started.pc = "email"
    BY DEF Idle
  <2>2. \/ UNCHANGED thread
        \/ \E t \in Threads : thread' = [thread EXCEPT ![t] = started]
    BY <1>2 DEF BeginCheck
  <2> HIDE DEF started
  <2> QED
    BY <2>1, <2>2 DEF TypeOK
<1>3. CASE \E i, s : BeginCheck(i, s)
  BY <1>2, <1>3, ReadQuiet
<1>4. CASE ProcessDies
  BY <1>4, ReadQuiet DEF ProcessDies, ProcessGone, Idle
<1>5. Show => UNCHANGED thread \/ \E i, s : BeginCheck(i, s)
  BY DEF Show, ShowClient, ShowForm, CreateCheck, ResumeCheck, workers
<1>6. User => UNCHANGED thread \/ \E i, s : BeginCheck(i, s)
  BY DEF User, Touch, LaunchHome, AddAccount, OpenMenu, OpenPreferences, RefreshAdsenseData, EditLogin,
     OnNext, EditDetails, Retry, CloseDialog, BackFromCheck, BackFromOther, GoHome, Rotate, workers
<1> QED
  BY <1>1, <1>3, <1>4, <1>5, <1>6

\* A worker reads what was committed, and keeps it.
LEMMA WorkRead ==
  ASSUME TypeOK, EnteredInv, NEW t \in Threads, Work(t)
  PROVE  \A u \in Threads : HasRead(u)'
<1>0. /\ thread \in [Threads -> Workers] /\ thread[t] \in Workers
      /\ \A u \in Threads : HasRead(u)
  BY DEF TypeOK, EnteredInv
<1>1. ASSUME \A u \in Threads \ {t} : thread'[u] = thread[u], HasRead(t)'
      PROVE  \A u \in Threads : HasRead(u)'
  BY <1>0, <1>1 DEF HasRead
<1>2. CASE ReadEmail(t)
  <2>1. account \in Credentials
    BY <1>2 DEF ReadEmail, At, EnteredInv, Untouched, Running
  <2>2. account.email # Null
    BY <2>1, NullAssumption DEF Credentials
  <2>3. thread'[t].pc = "password" /\ thread'[t].account.email = account.email
    BY <1>0, <1>2 DEF ReadEmail, Workers, Entries
  <2>4. \A u \in Threads \ {t} : thread'[u] = thread[u]
    BY <1>0, <1>2 DEF ReadEmail
  <2> QED
    BY <1>1, <2>2, <2>3, <2>4 DEF HasRead
<1>3. CASE ReadPassword(t)
  <2>1. account \in Credentials
    BY <1>3 DEF ReadPassword, At, EnteredInv, Untouched, Running
  <2>2. account.password # Null
    BY <2>1, NullAssumption DEF Credentials
  <2>3. /\ thread'[t].account.email = thread[t].account.email
        /\ thread'[t].account.password = account.password
    BY <1>0, <1>3 DEF ReadPassword, Workers, Entries
  <2>4. thread[t].account.email # Null
    BY <1>0, <1>3 DEF ReadPassword, At, HasRead
  <2>5. \A u \in Threads \ {t} : thread'[u] = thread[u]
    BY <1>0, <1>3 DEF ReadPassword
  <2> QED
    BY <1>1, <2>2, <2>3, <2>4, <2>5 DEF HasRead
<1>4. CASE ReadRefresh(t) \/ Wipe(t) \/ EnterCall(t) \/ FailCall(t) \/ BeginTable(t)
           \/ CloseTable(t) \/ FinishCall(t)
  <2>1. thread[t].account.email # Null /\ thread[t].account.password # Null
    BY <1>0, <1>4 DEF ReadRefresh, Wipe, EnterCall, FailCall, BeginTable, CloseTable, FinishCall,
       At, HasRead
  <2>2. thread'[t].account = thread[t].account /\ \A u \in Threads \ {t} : thread'[u] = thread[u]
    BY <1>0, <1>4 DEF ReadRefresh, Wipe, EnterCall, FailCall, BeginTable, CloseTable, FinishCall,
       Step, Workers
  <2> QED
    BY <1>1, <2>1, <2>2 DEF HasRead
<1>5. CASE InitFails(t) \/ Commit(t) \/ ShowDialog(t) \/ ShowDialogTooLate(t)
  <2>1. \A u \in Threads : thread'[u] = thread[u] \/ thread'[u].pc = "idle"
    BY <1>0, <1>5 DEF InitFails, Commit, ShowDialog, ShowDialogTooLate, ProcessGone, Idle
  <2> QED
    BY <1>0, <2>1, ReadQuiet
<1>6. CASE OpenNext(t)
  <2>1. thread[t].account.email # Null /\ thread[t].account.password # Null
    BY <1>0, <1>6 DEF OpenNext, At, HasRead
  <2>2. /\ thread'[t].account = thread[t].account \/ thread'[t].pc = "idle"
        /\ \A u \in Threads \ {t} : thread'[u] = thread[u]
    BY <1>0, <1>6 DEF OpenNext, Step, Workers, Idle
  <2> QED
    BY <1>1, <2>1, <2>2 DEF HasRead
<1> QED
  BY <1>2, <1>3, <1>4, <1>5, <1>6 DEF Work, Proceed

\* Every step keeps what the workers found.
LEMMA NextRead ==
  ASSUME TypeOK, EnteredInv, [Next]_vars
  PROVE  \A t \in Threads : HasRead(t)'
<1>1. CASE UNCHANGED vars
  BY <1>1 DEF vars, workers, EnteredInv, HasRead
<1>2. CASE Show \/ User \/ ProcessDies
  BY <1>2, ScreensRead DEF EnteredInv
<1>3. CASE \E t \in Threads : Work(t)
  BY <1>3, WorkRead
<1> QED
  BY <1>1, <1>2, <1>3 DEF Next

\* Nothing was entered, and no worker runs.
LEMMA InitEntered == Init => EnteredInv
<1>1. Init => Untouched /\ \A t \in Threads : HasRead(t)
  BY EmptySeq DEF Init, Untouched, Unarmed, Running, Idle, HasRead
<1> QED
  BY <1>1 DEF EnteredInv

\* The strengthening is inductive on well-typed states.
LEMMA NextEnteredInv == TypeOK /\ EnteredInv /\ [Next]_vars => EnteredInv'
BY NextEntered, NextRead DEF EnteredInv

\* A worker that has read what was committed did not read nothing.
LEMMA EnteredPresent == TypeOK /\ EnteredInv => CredentialsPresent
BY DEF EnteredInv, HasRead, CredentialsPresent, Steps

\* The branch of a check for a missing preference is dead: for any number of
\* workers, accounts and screens, a worker past its reads found both.
THEOREM PreferencesFound == Spec => []CredentialsPresent
<1>1. Init => TypeOK /\ EnteredInv
  BY InitType, InitEntered
<1>2. (TypeOK /\ EnteredInv) /\ [Next]_vars => (TypeOK /\ EnteredInv)'
  BY NextType, NextEnteredInv
<1> QED
  BY <1>1, <1>2, EnteredPresent, PTL DEF Spec
-----------------------------------------------------------------------------
(* Each check screen gets the answer of its own worker. *)

\* Workers that only go on, or end.
WorkersGoOn ==
  \A u \in Threads : thread'[u].pc # "idle" /\ thread'[u].owner \in Ids =>
    Running(u) /\ thread[u].owner = thread'[u].owner

\* A step that keeps, moves or removes screens, ends workers and starts none for a
\* screen: what becomes screen i was screen from[i].
LEMMA AnswerKept ==
  ASSUME AnswerInv, WorkersGoOn, NEW from,
         \A i \in DOMAIN stack' : stack'[i].id \in Ids =>
           /\ from[i] \in DOMAIN stack
           /\ stack[from[i]].id = stack'[i].id /\ stack[from[i]].kind = stack'[i].kind
           /\ stack'[i].view # "unborn"
           /\ \/ stack'[i].view = stack[from[i]].view
              \/ \A u \in Threads : thread'[u].pc # "idle" => thread'[u].owner # stack'[i].id,
         \A i, j \in DOMAIN stack' : from[i] = from[j] => i = j
  PROVE  AnswerInv'
<1>1. InstancesApart'
  BY DEF AnswerInv, InstancesApart
<1>2. ASSUME NEW t \in Threads, thread'[t].pc # "idle", thread'[t].owner \in Ids
      PROVE  /\ \A u \in Threads : thread'[u].pc # "idle" /\ thread'[u].owner = thread'[t].owner => u = t
             /\ \A i \in DOMAIN stack' : stack'[i].id = thread'[t].owner => stack'[i].view = "progress"
  BY <1>2 DEF AnswerInv, OneAnswerPerScreen, WorkersGoOn, Running
<1>3. OneAnswerPerScreen'
  BY <1>2 DEF OneAnswerPerScreen, Running
<1> QED
  BY <1>1, <1>3 DEF AnswerInv

\* A step that leaves the screens alone.
LEMMA AnswerQuiet ==
  ASSUME AnswerInv, UNCHANGED stack, WorkersGoOn
  PROVE  AnswerInv'
<1> DEFINE from == [i \in DOMAIN stack |-> i]
<1>1. \A i \in DOMAIN stack' : stack'[i].id \in Ids =>
        /\ from[i] \in DOMAIN stack
        /\ stack[from[i]].id = stack'[i].id /\ stack[from[i]].kind = stack'[i].kind
        /\ stack'[i].view # "unborn" /\ stack'[i].view = stack[from[i]].view
  BY DEF AnswerInv, InstancesApart
<1>2. \A i, j \in DOMAIN stack' : from[i] = from[j] => i = j
  OBVIOUS
<1> HIDE DEF from
<1> QED
  BY <1>1, <1>2, AnswerKept

\* A step that changes screens in their places: only their views, if they have an
\* identity, and not while a worker is to answer them.
LEMMA AnswerInPlace ==
  ASSUME AnswerInv, WorkersGoOn, DOMAIN stack' = DOMAIN stack,
         \A i \in DOMAIN stack : stack'[i].id \in Ids =>
           /\ stack'[i].id = stack[i].id /\ stack'[i].kind = stack[i].kind
           /\ \/ stack'[i].view = stack[i].view
              \/ /\ stack'[i].view # "unborn"
                 /\ \A u \in Threads : thread'[u].pc # "idle" => thread'[u].owner # stack'[i].id
  PROVE  AnswerInv'
<1> DEFINE from == [i \in DOMAIN stack |-> i]
<1>1. \A i \in DOMAIN stack' : stack'[i].id \in Ids =>
        /\ from[i] \in DOMAIN stack
        /\ stack[from[i]].id = stack'[i].id /\ stack[from[i]].kind = stack'[i].kind
        /\ stack'[i].view # "unborn"
        /\ \/ stack'[i].view = stack[from[i]].view
           \/ \A u \in Threads : thread'[u].pc # "idle" => thread'[u].owner # stack'[i].id
  BY DEF AnswerInv, InstancesApart
<1>2. \A i, j \in DOMAIN stack' : from[i] = from[j] => i = j
  OBVIOUS
<1> HIDE DEF from
<1> QED
  BY <1>1, <1>2, AnswerKept

\* A started activity has no identity yet.
LEMMA AnswerAppend ==
  ASSUME TypeOK, AnswerInv, WorkersGoOn, NEW kind \in Kinds, NEW s \in Seq(Screens),
         stack' = Append(s, NewScreen(kind)), Len(s) = Len(stack),
         \A i \in DOMAIN stack : s[i].id \in Ids =>
           /\ s[i].id = stack[i].id /\ s[i].kind = stack[i].kind
           /\ \/ s[i].view = stack[i].view
              \/ /\ s[i].view # "unborn"
                 /\ \A u \in Threads : thread'[u].pc # "idle" => thread'[u].owner # s[i].id
  PROVE  AnswerInv'
<1>1. NewScreen(kind) \in Screens
  BY DEF NewScreen, Screens, Views, ScreenIds
<1>2. /\ DOMAIN stack = 1 .. Len(stack) /\ Len(stack) \in Nat
      /\ DOMAIN stack' = 1 .. Len(stack) + 1
      /\ \A i \in 1 .. Len(stack) + 1 :
           stack'[i] = IF i <= Len(stack) THEN s[i] ELSE NewScreen(kind)
  BY <1>1, AppendProperties, LenProperties DEF TypeOK
<1> DEFINE from == [i \in DOMAIN stack' |-> i]
<1>3. ASSUME NEW i \in DOMAIN stack', stack'[i].id \in Ids
      PROVE  i \in DOMAIN stack /\ stack'[i] = s[i]
  <2>1. NewScreen(kind).id \notin Ids
    BY NoIdAssumption DEF NewScreen
  <2>2. i <= Len(stack)
    BY <1>2, <1>3, <2>1
  <2> QED
    BY <1>2, <2>2
<1>4. \A i \in DOMAIN stack' : stack'[i].id \in Ids =>
        /\ from[i] \in DOMAIN stack
        /\ stack[from[i]].id = stack'[i].id /\ stack[from[i]].kind = stack'[i].kind
        /\ stack'[i].view # "unborn"
        /\ \/ stack'[i].view = stack[from[i]].view
           \/ \A u \in Threads : thread'[u].pc # "idle" => thread'[u].owner # stack'[i].id
  BY <1>3 DEF AnswerInv, InstancesApart
<1>5. \A i, j \in DOMAIN stack' : from[i] = from[j] => i = j
  OBVIOUS
<1> HIDE DEF from
<1> QED
  BY <1>4, <1>5, AnswerKept

\* A finished activity takes its identity with it.
LEMMA AnswerRemove ==
  ASSUME TypeOK, AnswerInv, WorkersGoOn, NEW k \in 1 .. Len(stack), stack' = RemoveAt(stack, k)
  PROVE  AnswerInv'
<1>1. /\ stack \in Seq(Screens) /\ DOMAIN stack = 1 .. Len(stack) /\ Len(stack) \in Nat
      /\ DOMAIN stack' = 1 .. Len(stack) - 1
      /\ \A j \in 1 .. Len(stack) - 1 : stack'[j] = stack[IF j < k THEN j ELSE j + 1]
  BY LenProperties, StackWithout DEF TypeOK
<1> DEFINE from == [j \in DOMAIN stack' |-> IF j < k THEN j ELSE j + 1]
<1>2. \A j \in DOMAIN stack' : from[j] \in DOMAIN stack /\ stack'[j] = stack[from[j]]
  BY <1>1
<1>3. \A i, j \in DOMAIN stack' : from[i] = from[j] => i = j
  BY <1>1
<1> HIDE DEF from
<1> QED
  BY <1>2, <1>3, AnswerKept DEF AnswerInv, InstancesApart

\* onCreate of a check screen, on an instance that nobody else has and that no
\* worker is to answer.
LEMMA AnswerBegun ==
  ASSUME TypeOK, AnswerInv, NEW i \in 1 .. Len(stack), NEW s \in ScreenIds, BeginCheck(i, s),
         stack[i].kind = "check",
         s \in Ids => /\ \A j \in DOMAIN stack : stack[j].id = s => j = i
                      /\ \A u \in Threads : Running(u) => thread[u].owner # s
  PROVE  AnswerInv'
<1>1. /\ stack \in Seq(Screens) /\ DOMAIN stack = 1 .. Len(stack)
      /\ stack[i] \in Screens /\ thread \in [Threads -> Workers]
  BY LenProperties, ElementOfSeq DEF TypeOK
<1>2. ASSUME NEW view \in {"progress", "internet"},
             stack' = [stack EXCEPT ![i].view = view, ![i].id = s]
      PROVE  /\ DOMAIN stack' = DOMAIN stack
             /\ stack'[i].view = view /\ stack'[i].id = s /\ stack'[i].kind = "check"
             /\ \A j \in DOMAIN stack \ {i} : stack'[j] = stack[j]
  BY <1>1, <1>2 DEF Screens
<1>3. PICK view \in {"progress", "internet"} :
        stack' = [stack EXCEPT ![i].view = view, ![i].id = s]
  BY DEF BeginCheck
<1>4. /\ DOMAIN stack' = DOMAIN stack
      /\ stack'[i].view = view /\ stack'[i].id = s /\ stack'[i].kind = "check"
      /\ \A j \in DOMAIN stack \ {i} : stack'[j] = stack[j]
  BY <1>2, <1>3
<1>5. InstancesApart'
  BY <1>1, <1>4 DEF AnswerInv, InstancesApart
<1>6. CASE \E t \in Threads :
             /\ ~ Running(t)
             /\ thread' = [thread EXCEPT ![t] = [Idle EXCEPT !.pc = "email", !.owner = s]]
             /\ stack' = [stack EXCEPT ![i].view = "progress", ![i].id = s]
  <2>1. PICK t \in Threads :
          /\ ~ Running(t)
          /\ thread' = [thread EXCEPT ![t] = [Idle EXCEPT !.pc = "email", !.owner = s]]
          /\ stack' = [stack EXCEPT ![i].view = "progress", ![i].id = s]
    BY <1>6
  <2>2. /\ thread'[t].owner = s /\ \A u \in Threads \ {t} : thread'[u] = thread[u]
        /\ stack'[i].view = "progress"
    BY <1>1, <1>2, <2>1 DEF Idle
  <2> QED
    BY <1>1, <1>4, <1>5, <2>1, <2>2 DEF AnswerInv, OneAnswerPerScreen, InstancesApart, Running
<1>7. CASE UNCHANGED thread
  BY <1>1, <1>4, <1>5, <1>7 DEF AnswerInv, OneAnswerPerScreen, InstancesApart, Running
<1> QED
  BY <1>6, <1>7 DEF BeginCheck

\* The identity of a new instance is nobody's.
LEMMA FreshInstance ==
  ASSUME TypeOK, AnswerInv, NEW i \in 1 .. Len(stack), NEW s \in FreeIds, BeginCheck(i, s),
         stack[i].kind = "check"
  PROVE  AnswerInv'
<1>1. s \in ScreenIds
  BY DEF FreeIds, ScreenIds
<1>2. /\ \A j \in DOMAIN stack : stack[j].id # s
      /\ \A u \in Threads : thread[u].owner # s
  BY DEF FreeIds
<1> QED
  BY <1>1, <1>2, AnswerBegun

\* A screen without an identity is not a check screen that onCreate has run on.
LEMMA OtherScreen ==
  ASSUME AnswerInv, NEW i \in DOMAIN stack, stack[i].kind # "check" \/ stack[i].view = "unborn"
  PROVE  stack[i].id \notin Ids
BY DEF AnswerInv, InstancesApart

\* A step of the UI thread.
LEMMA ShowAnswers == TypeOK /\ AnswerInv /\ Show => AnswerInv'
<1> SUFFICES ASSUME TypeOK, AnswerInv, Show PROVE AnswerInv'
  OBVIOUS
<1> DEFINE n == Len(stack)
<1>1. /\ stack \in Seq(Screens) /\ DOMAIN stack = 1 .. n /\ n \in Nat
      /\ \A i \in DOMAIN stack : stack[i] \in Screens
  BY LenProperties, ElementOfSeq DEF TypeOK
<1>2. front # n => n \in 1 .. n
  BY TopExists
<1>3. UNCHANGED thread => WorkersGoOn
  BY DEF WorkersGoOn, Running
<1>4. CASE ShowClient \/ ShowForm
  <2>1. n \in 1 .. n /\ stack[n].kind # "check" /\ UNCHANGED thread
    BY <1>2, <1>4 DEF ShowClient, ShowForm, ToShow, workers
  <2>2. PICK view : stack' = [stack EXCEPT ![n].view = view]
    BY <1>4 DEF ShowClient, ShowForm, SetView
  <2>3. /\ DOMAIN stack' = DOMAIN stack
        /\ stack'[n].id = stack[n].id /\ \A i \in DOMAIN stack \ {n} : stack'[i] = stack[i]
    BY <1>1, <2>1, <2>2 DEF Screens
  <2>4. stack[n].id \notin Ids
    BY <1>1, <2>1, OtherScreen
  <2> HIDE DEF n
  <2> QED
    BY <1>3, <2>1, <2>3, <2>4, AnswerInPlace
<1>5. CASE CreateCheck
  <2>1. n \in 1 .. n /\ stack[n].kind = "check"
    BY <1>2, <1>5 DEF CreateCheck, ToShow
  <2>2. CASE LeaveCheck /\ UNCHANGED workers
    <3>1. /\ DOMAIN stack' = DOMAIN stack
          /\ stack'[n].id = NoId /\ \A i \in DOMAIN stack \ {n} : stack'[i] = stack[i]
      BY <1>1, <2>1, <2>2 DEF LeaveCheck, ReplaceAt, NewScreen
    <3> HIDE DEF n
    <3> QED
      BY <1>3, <2>2, <3>1, AnswerInPlace, NoIdAssumption DEF workers
  <2>3. CASE \E s \in FreeIds : BeginCheck(n, s)
    BY <2>1, <2>3, FreshInstance
  <2> QED
    BY <1>5, <2>2, <2>3 DEF CreateCheck
<1>6. CASE ResumeCheck
  <2>1. n \in 1 .. n /\ UNCHANGED thread
    BY <1>2, <1>6 DEF ResumeCheck, ToShow, workers
  <2>2. stack' = RemoveAt(stack, n) \/ UNCHANGED stack
    BY <1>6 DEF ResumeCheck
  <2> QED
    BY <1>3, <2>1, <2>2, AnswerRemove, AnswerQuiet
<1> QED
  BY <1>4, <1>5, <1>6 DEF Show

\* A step of the user, or of the system on a screen.
LEMMA UserAnswers == TypeOK /\ AnswerInv /\ User => AnswerInv'
<1> SUFFICES ASSUME TypeOK, AnswerInv, User PROVE AnswerInv'
  OBVIOUS
<1>1. /\ stack \in Seq(Screens) /\ DOMAIN stack = 1 .. Len(stack) /\ front \in 0 .. Len(stack)
      /\ \A i \in DOMAIN stack : stack[i] \in Screens
      /\ front > 0 => front \in DOMAIN stack
  BY LenProperties, ElementOfSeq DEF TypeOK
<1>2. UNCHANGED thread => WorkersGoOn
  BY DEF WorkersGoOn, Running
<1>3. ASSUME NEW view, stack' = [stack EXCEPT ![front].view = view], front > 0
      PROVE  /\ DOMAIN stack' = DOMAIN stack
             /\ stack'[front].id = stack[front].id /\ stack'[front].kind = stack[front].kind
             /\ stack'[front].view = view
             /\ \A i \in DOMAIN stack \ {front} : stack'[i] = stack[i]
  BY <1>1, <1>3 DEF Screens
\* No worker is to answer a screen that shows a dialog.
<1>4. ASSUME front > 0, stack[front].view \in Dialogs, NEW u \in Threads, Running(u),
             thread[u].owner \in Ids
      PROVE  thread[u].owner # stack[front].id
  BY <1>1, <1>4 DEF Dialogs, AnswerInv, OneAnswerPerScreen
<1>5. CASE LaunchHome \/ AddAccount \/ OpenPreferences \/ RefreshAdsenseData \/ EditLogin
           \/ \E typed \in Typed : OnNext(typed)
  <2>1. UNCHANGED thread /\ \E kind \in Kinds : stack' = Append(stack, NewScreen(kind))
    BY <1>5 DEF LaunchHome, AddAccount, OpenPreferences, RefreshAdsenseData, EditLogin, OnNext,
       Open, StartActivity, Kinds, workers
  <2> QED
    BY <1>1, <1>2, <2>1, AnswerAppend
<1>6. CASE OpenMenu \/ GoHome
  <2>1. CASE OpenMenu
    <3>1. PICK menu : stack' = [stack EXCEPT ![front].menu = menu]
      BY <2>1 DEF OpenMenu
    <3>2. front \in DOMAIN stack /\ UNCHANGED thread
      BY <1>1, <2>1 DEF OpenMenu, InFront, workers
    <3>3. /\ DOMAIN stack' = DOMAIN stack
          /\ \A i \in DOMAIN stack : /\ stack'[i].id = stack[i].id
                                    /\ stack'[i].kind = stack[i].kind
                                    /\ stack'[i].view = stack[i].view
      BY <1>1, <3>1, <3>2 DEF Screens
    <3> QED
      BY <1>2, <3>2, <3>3, AnswerInPlace
  <2>2. CASE GoHome
    BY <1>2, <2>2, AnswerQuiet DEF GoHome, workers
  <2> QED
    BY <1>6, <2>1, <2>2
<1>7. CASE EditDetails \/ (Retry /\ NothingToCheck)
  <2> DEFINE s == [stack EXCEPT ![front].view = "dismissed"]
  <2>1. front > 0 /\ stack[front].view \in Dialogs /\ UNCHANGED thread
        /\ stack' = Append(s, NewScreen("basics"))
    BY <1>7 DEF EditDetails, Retry, InFront, Dialogs, workers
  <2>2. s \in Seq(Screens) /\ Len(s) = Len(stack)
    BY <1>1, <2>1, StackView DEF Views
  <2>3. \A i \in DOMAIN stack :
          /\ s[i].id = stack[i].id /\ s[i].kind = stack[i].kind
          /\ s[i].view = stack[i].view \/ (i = front /\ s[i].view = "dismissed")
    BY <1>1, <2>1 DEF Screens
  <2>4. \A i \in DOMAIN stack : s[i].id \in Ids =>
          \/ s[i].view = stack[i].view
          \/ /\ s[i].view # "unborn"
             /\ \A u \in Threads : thread'[u].pc # "idle" => thread'[u].owner # s[i].id
    BY <1>4, <2>1, <2>3 DEF Running
  <2> HIDE DEF s
  <2> QED
    BY <1>2, <2>1, <2>2, <2>3, <2>4, AnswerAppend DEF Kinds
<1>8. CASE Retry /\ ~ NothingToCheck
  <2>1. /\ front > 0 /\ stack[front].kind = "check" /\ stack[front].view \in Dialogs
        /\ BeginCheck(front, stack[front].id)
    BY <1>8 DEF Retry, InFront, Dialogs
  <2>2. front \in 1 .. Len(stack) /\ stack[front].id \in ScreenIds
    BY <1>1, <2>1 DEF Screens
  <2>3. stack[front].id \in Ids =>
          /\ \A j \in DOMAIN stack : stack[j].id = stack[front].id => j = front
          /\ \A u \in Threads : Running(u) => thread[u].owner # stack[front].id
    BY <1>1, <1>4, <2>1 DEF AnswerInv, InstancesApart
  <2> QED
    BY <2>1, <2>2, <2>3, AnswerBegun
<1>9. CASE CloseDialog
  <2>1. /\ front > 0 /\ stack[front].view \in Dialogs /\ UNCHANGED thread
        /\ stack' = [stack EXCEPT ![front].view = "dismissed"]
    BY <1>9 DEF CloseDialog, InFront, SetView, workers
  <2>2. /\ DOMAIN stack' = DOMAIN stack
        /\ stack'[front].id = stack[front].id /\ stack'[front].kind = stack[front].kind
        /\ stack'[front].view = "dismissed"
        /\ \A i \in DOMAIN stack \ {front} : stack'[i] = stack[i]
    BY <1>3, <2>1
  <2> QED
    BY <1>2, <1>4, <2>1, <2>2, AnswerInPlace DEF Running
<1>10. CASE BackFromCheck \/ BackFromOther
  <2>1. front \in 1 .. Len(stack) /\ stack' = RemoveAt(stack, front) /\ UNCHANGED thread
    BY <1>1, <1>10 DEF BackFromCheck, BackFromOther, InFront, FinishFront, workers
  <2> QED
    BY <1>2, <2>1, AnswerRemove
<1>11. CASE Rotate
  <2>1. front \in DOMAIN stack /\ front \in 1 .. Len(stack) /\ front = Len(stack)
    BY <1>1, <1>11 DEF Rotate
  <2>2. CASE /\ stack[front].kind = "client" /\ UNCHANGED workers
             /\ stack' = [stack EXCEPT ![front].view = ClientView, ![front].menu = "unknown"]
    <3>1. /\ DOMAIN stack' = DOMAIN stack /\ stack'[front].id = stack[front].id
          /\ \A i \in DOMAIN stack \ {front} : stack'[i] = stack[i]
      BY <1>1, <2>1, <2>2 DEF Screens
    <3>2. stack[front].id \notin Ids
      BY <2>1, <2>2, OtherScreen
    <3> QED
      BY <1>2, <2>2, <3>1, <3>2, AnswerInPlace DEF workers
  <2>3. CASE LeaveCheck /\ UNCHANGED workers
    <3>1. /\ DOMAIN stack' = DOMAIN stack
          /\ stack'[front].id = NoId /\ \A i \in DOMAIN stack \ {front} : stack'[i] = stack[i]
      BY <1>1, <2>1, <2>3 DEF LeaveCheck, ReplaceAt, NewScreen
    <3> QED
      BY <1>2, <2>3, <3>1, AnswerInPlace, NoIdAssumption DEF workers
  <2>4. CASE stack[front].kind = "check" /\ \E s \in FreeIds : BeginCheck(front, s)
    BY <2>1, <2>4, FreshInstance
  <2> QED
    BY <1>11, <2>2, <2>3, <2>4 DEF Rotate
<1> QED
  BY <1>5, <1>6, <1>7, <1>8, <1>9, <1>10, <1>11 DEF User, Touch

\* The end of the process takes the screens and the workers along.
LEMMA ProcessGoneAnswers == ProcessGone => AnswerInv'
BY EmptySeq DEF ProcessGone, AnswerInv, OneAnswerPerScreen, InstancesApart, Running, Idle

\* A step of a worker.
LEMMA WorkAnswers ==
  ASSUME TypeOK, AnswerInv, NEW t \in Threads, Work(t)
  PROVE  AnswerInv'
<1>1. /\ stack \in Seq(Screens) /\ DOMAIN stack = 1 .. Len(stack)
      /\ \A i \in DOMAIN stack : stack[i] \in Screens
      /\ thread \in [Threads -> Workers] /\ thread[t] \in Workers
  BY LenProperties, ElementOfSeq DEF TypeOK
<1>2. CASE ReadEmail(t) \/ ReadPassword(t) \/ ReadRefresh(t) \/ Wipe(t) \/ EnterCall(t)
           \/ FailCall(t) \/ BeginTable(t) \/ CloseTable(t) \/ FinishCall(t)
  <2>1. /\ Running(t) /\ thread'[t].owner = thread[t].owner
        /\ \A u \in Threads \ {t} : thread'[u] = thread[u]
    BY <1>1, <1>2 DEF ReadEmail, ReadPassword, ReadRefresh, Wipe, EnterCall, FailCall, BeginTable,
       CloseTable, FinishCall, At, Step, Running, Workers
  <2>2. UNCHANGED stack /\ WorkersGoOn
    BY <1>2, <2>1 DEF ReadEmail, ReadPassword, ReadRefresh, Wipe, EnterCall, FailCall, BeginTable,
       CloseTable, FinishCall, ui, WorkersGoOn, Running
  <2> QED
    BY <2>2, AnswerQuiet
\* A worker that ends: its screen is no longer to be answered.
<1>3. ASSUME thread' = [thread EXCEPT ![t] = Idle]
      PROVE  /\ WorkersGoOn
             /\ Running(t) /\ thread[t].owner \in Ids =>
                  \A u \in Threads : thread'[u].pc # "idle" => thread'[u].owner # thread[t].owner
  BY <1>1, <1>3 DEF WorkersGoOn, Running, Idle, AnswerInv, OneAnswerPerScreen
<1>4. CASE InitFails(t)
  <2>1. Running(t) /\ thread' = [thread EXCEPT ![t] = Idle]
    BY <1>4 DEF InitFails, At, Running
  <2>2. /\ DOMAIN stack' = DOMAIN stack
        /\ \A i \in DOMAIN stack :
             /\ stack'[i].id = stack[i].id /\ stack'[i].kind = stack[i].kind
             /\ \/ stack'[i].view = stack[i].view
                \/ stack'[i].view = "stuck" /\ stack[i].id = thread[t].owner
    BY <1>1, <1>4 DEF InitFails, Screens
  <2> QED
    BY <1>3, <2>1, <2>2, AnswerInPlace
<1>5. CASE OpenNext(t)
  <2>1. Running(t)
    BY <1>5 DEF OpenNext, At, Running
  <2>2. WorkersGoOn
    <3>1. CASE Step(t, "commit")
      BY <1>1, <2>1, <3>1 DEF Step, Workers, WorkersGoOn, Running
    <3> QED
      BY <1>3, <1>5, <3>1 DEF OpenNext
  <2>3. \E kind \in Kinds : stack' = Append(stack, NewScreen(kind))
    BY <1>5 DEF OpenNext, StartActivity, Kinds
  <2> QED
    BY <1>1, <2>2, <2>3, AnswerAppend
<1>6. CASE Commit(t)
  BY <1>3, <1>6, AnswerQuiet DEF Commit, ui
<1>7. CASE ShowDialog(t)
  <2>1. Running(t) /\ thread' = [thread EXCEPT ![t] = Idle]
    BY <1>7 DEF ShowDialog, At, Running
  <2>2. PICK i \in DOMAIN stack : /\ stack[i].id = thread[t].owner
                                 /\ SetView(i, DialogFor(thread[t].status))
    BY <1>7 DEF ShowDialog
  <2>3. DialogFor(thread[t].status) # "unborn"
    BY DEF DialogFor
  <2>4. /\ DOMAIN stack' = DOMAIN stack
        /\ stack'[i].id = stack[i].id /\ stack'[i].kind = stack[i].kind
        /\ stack'[i].view = DialogFor(thread[t].status)
        /\ \A j \in DOMAIN stack \ {i} : stack'[j] = stack[j]
    BY <1>1, <2>2 DEF SetView, Screens
  <2> QED
    BY <1>3, <2>1, <2>2, <2>3, <2>4, AnswerInPlace
<1>8. CASE ShowDialogTooLate(t)
  BY <1>8, ProcessGoneAnswers DEF ShowDialogTooLate
<1> QED
  BY <1>2, <1>4, <1>5, <1>6, <1>7, <1>8 DEF Work, Proceed

\* No screen, and no worker.
LEMMA InitAnswers == Init => AnswerInv
BY EmptySeq DEF Init, AnswerInv, OneAnswerPerScreen, InstancesApart, Running, Idle

\* The strengthening is inductive on well-typed states.
LEMMA NextAnswers == TypeOK /\ AnswerInv /\ [Next]_vars => AnswerInv'
<1>1. CASE UNCHANGED vars
  BY <1>1 DEF vars, ui, workers, AnswerInv, OneAnswerPerScreen, InstancesApart, Running
<1> QED
  BY <1>1, ShowAnswers, UserAnswers, ProcessGoneAnswers, WorkAnswers DEF Next, ProcessDies

\* Each check screen gets the answer of its own worker, and of no other, however
\* many of them are opened, retried and rotated while workers run.
THEOREM EachScreenItsAnswer == Spec => []OneAnswerPerScreen
<1>1. Init => TypeOK /\ AnswerInv
  BY InitType, InitAnswers
<1>2. (TypeOK /\ AnswerInv) /\ [Next]_vars => (TypeOK /\ AnswerInv)'
  BY NextType, NextAnswers
<1>3. AnswerInv => OneAnswerPerScreen
  BY DEF AnswerInv
<1> QED
  BY <1>1, <1>2, <1>3, PTL DEF Spec

-----------------------------------------------------------------------------
(* A request to reload does not outlive the last check screen.             *)

\* A step that leaves every screen where it was, of the kind it was, leaves the check
\* screens.
LEMMA CheckStays ==
  ASSUME HasCheck,
         \A i \in DOMAIN stack : i \in DOMAIN stack' /\ stack'[i].kind = stack[i].kind
  PROVE  HasCheck'
BY DEF HasCheck

\* So does a step that writes in a screen, other than its kind.
LEMMA CheckStaysChanged ==
  ASSUME HasCheck, stack \in Seq(Screens), NEW i, NEW view, NEW menu, NEW s,
         \/ SetView(i, view)
         \/ stack' = [stack EXCEPT ![i].view = view, ![i].id = s]
         \/ stack' = [stack EXCEPT ![i].view = view, ![i].menu = menu]
         \/ stack' = [stack EXCEPT ![i].menu = menu]
  PROVE  HasCheck'
<1>1. DOMAIN stack' = DOMAIN stack
  BY DEF SetView
<1>2. \A j \in DOMAIN stack : stack[j] \in Screens
  BY LenProperties, ElementOfSeq
<1>3. ASSUME NEW j \in DOMAIN stack PROVE stack'[j].kind = stack[j].kind
  <2>1. CASE j # i
    BY <2>1 DEF SetView
  <2>2. CASE j = i
    <3> DEFINE c == stack[j]
    <3>1. c \in Screens
      BY <1>2
    <3>2. \/ stack'[j] = [c EXCEPT !.view = view]
          \/ stack'[j] = [c EXCEPT !.view = view, !.id = s]
          \/ stack'[j] = [c EXCEPT !.view = view, !.menu = menu]
          \/ stack'[j] = [c EXCEPT !.menu = menu]
      BY <2>2 DEF SetView
    <3> HIDE DEF c
    <3>3. stack'[j].kind = c.kind
      BY <3>1, <3>2 DEF Screens
    <3> QED
      BY <3>3 DEF c
  <2> QED
    BY <2>1, <2>2
<1> QED
  BY <1>1, <1>3, CheckStays

LEMMA CheckStaysBegun ==
  ASSUME HasCheck, stack \in Seq(Screens), NEW i, NEW s, BeginCheck(i, s)
  PROVE  HasCheck'
<1>1. PICK view : stack' = [stack EXCEPT ![i].view = view, ![i].id = s]
  BY Zenon DEF BeginCheck
<1> QED
  BY <1>1, CheckStaysChanged, Zenon

\* So does another screen on top of them.
LEMMA CheckStaysBelow ==
  ASSUME HasCheck, stack \in Seq(Screens), NEW s \in Seq(Screens), NEW kind \in Kinds,
         Len(s) = Len(stack), \A i \in DOMAIN stack : s[i].kind = stack[i].kind,
         stack' = Append(s, NewScreen(kind))
  PROVE  HasCheck'
<1>1. DOMAIN stack = 1 .. Len(s) /\ Len(s) \in Nat
  BY LenProperties
<1>2. NewScreen(kind) \in Screens
  BY DEF NewScreen, Screens, Views, ScreenIds
<1>3. \A i \in 1 .. Len(s) : i \in DOMAIN stack' /\ stack'[i] = s[i]
  BY <1>1, <1>2, AppendProperties
<1> QED
  BY <1>1, <1>3, CheckStays

\* So does the end of a screen of another kind.
LEMMA CheckStaysWithout ==
  ASSUME HasCheck, stack \in Seq(Screens), NEW i \in 1 .. Len(stack), stack[i].kind # "check",
         stack' = RemoveAt(stack, i)
  PROVE  HasCheck'
<1>1. DOMAIN stack = 1 .. Len(stack) /\ Len(stack) \in Nat
  BY LenProperties
<1>2. PICK k \in 1 .. Len(stack) : stack[k].kind = "check"
  BY <1>1 DEF HasCheck
<1>3. /\ DOMAIN stack' = 1 .. Len(stack) - 1
      /\ \A j \in 1 .. Len(stack) - 1 : stack'[j] = stack[IF j < i THEN j ELSE j + 1]
  BY StackWithout
<1>4. CASE k < i
  <2>1. k \in 1 .. Len(stack) - 1
    BY <1>1, <1>4
  <2> QED
    BY <1>2, <1>3, <1>4, <2>1 DEF HasCheck
<1>5. CASE k > i
  <2>1. k - 1 \in 1 .. Len(stack) - 1 /\ ~ (k - 1 < i) /\ (k - 1) + 1 = k
    BY <1>1, <1>5
  <2>2. stack'[k - 1] = stack[k]
    BY <1>3, <2>1
  <2> QED
    BY <1>2, <1>3, <2>1, <2>2 DEF HasCheck
<1>6. k # i
  BY <1>2
<1> QED
  BY <1>1, <1>4, <1>5, <1>6

\* What a step may do to the check screens and to the request.
RequestKept == HasCheck /\ ~ HasCheck' /\ ~ ProcessGone => refresh' = 0

LEMMA ShowRequest == TypeOK /\ Show => RequestKept
<1> SUFFICES ASSUME TypeOK, Show PROVE RequestKept
  OBVIOUS
<1>1. /\ stack \in Seq(Screens) /\ front \in 0 .. Len(stack) /\ DOMAIN stack = 1 .. Len(stack)
      /\ Len(stack) \in Nat
  BY LenProperties DEF TypeOK
<1>2. ASSUME NEW view, SetView(Len(stack), view) PROVE RequestKept
  BY <1>1, <1>2, CheckStaysChanged DEF RequestKept
<1>3. CASE ShowClient \/ ShowForm
  BY <1>2, <1>3 DEF ShowClient, ShowForm
<1>4. CASE CreateCheck
  <2>1. CASE NothingToCheck
    BY <1>4, <2>1 DEF CreateCheck, NothingToCheck, RequestKept, prefs
  <2>2. CASE ~ NothingToCheck
    <3>1. PICK s \in FreeIds : BeginCheck(Len(stack), s)
      BY <1>4, <2>2 DEF CreateCheck
    <3> QED
      BY <1>1, <3>1, CheckStaysBegun, Zenon DEF RequestKept
  <2> QED
    BY <2>1, <2>2
<1>5. CASE ResumeCheck
  <2>1. CASE NothingToCheck
    BY <1>5, <2>1 DEF ResumeCheck, NothingToCheck, RequestKept, prefs
  <2>2. CASE ~ NothingToCheck
    BY <1>5, <2>2, CheckStays DEF ResumeCheck, RequestKept
  <2> QED
    BY <2>1, <2>2
<1> QED
  BY <1>3, <1>4, <1>5 DEF Show

LEMMA UserRequest == TypeOK /\ User => RequestKept
<1> SUFFICES ASSUME TypeOK, User, HasCheck, ~ HasCheck' PROVE refresh' = 0
  BY DEF RequestKept
<1>1. /\ stack \in Seq(Screens) /\ front \in 0 .. Len(stack) /\ DOMAIN stack = 1 .. Len(stack)
      /\ Len(stack) \in Nat /\ front > 0 => front \in 1 .. Len(stack)
  BY LenProperties DEF TypeOK
<1>2. ASSUME NEW kind \in Kinds, StartActivity(kind) PROVE FALSE
  BY <1>1, <1>2, CheckStaysBelow DEF StartActivity
<1>3. ASSUME front > 0, stack' = Append([stack EXCEPT ![front].view = "dismissed"], NewScreen("basics"))
      PROVE  FALSE
  <2> DEFINE s == [stack EXCEPT ![front].view = "dismissed"]
  <2>1. s \in Seq(Screens) /\ Len(s) = Len(stack)
    <3>1. front \in 1 .. Len(stack) /\ "dismissed" \in Views
      BY <1>1, <1>3 DEF Views
    <3> QED
      BY <1>1, <3>1, StackView
  <2>2. \A i \in DOMAIN stack : s[i].kind = stack[i].kind
    BY <1>1, <1>3 DEF Screens
  <2>3. "basics" \in Kinds /\ stack' = Append(s, NewScreen("basics"))
    BY <1>3 DEF Kinds
  <2> HIDE DEF s
  <2> QED
    BY <1>1, <2>1, <2>2, <2>3, CheckStaysBelow
<1>4. ASSUME front > 0, NEW s, BeginCheck(front, s) PROVE FALSE
  BY <1>1, <1>4, CheckStaysBegun, Zenon
<1>5. ~ (\/ LaunchHome \/ AddAccount \/ OpenPreferences \/ RefreshAdsenseData \/ EditLogin
         \/ \E typed \in Typed : OnNext(typed))
  BY <1>2 DEF LaunchHome, AddAccount, OpenPreferences, RefreshAdsenseData, EditLogin, OnNext,
     Open, Kinds
<1>6. ~ (OpenMenu \/ CloseDialog \/ GoHome)
  <2>1. ~ OpenMenu
    BY <1>1, CheckStaysChanged DEF OpenMenu
  <2>2. ~ CloseDialog
    BY <1>1, CheckStaysChanged DEF CloseDialog
  <2>3. ~ GoHome
    BY CheckStays DEF GoHome
  <2> QED
    BY <2>1, <2>2, <2>3
<1>7. ~ (EditDetails \/ Retry)
  BY <1>3, <1>4 DEF EditDetails, Retry, InFront
<1>8. ~ BackFromOther
  BY <1>1, CheckStaysWithout DEF BackFromOther, FinishFront
<1>9. CASE BackFromCheck
  BY <1>9 DEF BackFromCheck
<1>10. CASE Rotate
  <2>1. CASE NothingToCheck
    BY <1>10, <2>1 DEF Rotate, NothingToCheck, prefs
  <2>2. stack' # [stack EXCEPT ![front].view = ClientView, ![front].menu = "unknown"]
    BY <1>1, CheckStaysChanged, ZenonT(40)
  <2> QED
    BY <1>4, <1>10, <2>1, <2>2 DEF Rotate
<1> QED
  BY <1>5, <1>6, <1>7, <1>8, <1>9, <1>10 DEF User, Touch

LEMMA WorkRequest ==
  ASSUME NEW t \in Threads
  PROVE  TypeOK /\ Work(t) => RequestKept
<1> SUFFICES ASSUME TypeOK, Work(t), HasCheck, ~ HasCheck', ~ ProcessGone PROVE FALSE
  BY DEF RequestKept
<1>1. stack \in Seq(Screens) /\ DOMAIN stack = 1 .. Len(stack)
  BY LenProperties DEF TypeOK
<1>2. stack' # stack
  BY CheckStays
<1>3. ~ OpenNext(t)
  BY <1>1, CheckStaysBelow DEF OpenNext, StartActivity, Kinds
<1>4. ~ ShowDialog(t)
  <2>1. ASSUME NEW i \in DOMAIN stack, NEW view, SetView(i, view) PROVE FALSE
    BY <1>1, <2>1, CheckStaysChanged
  <2> QED
    BY <2>1 DEF ShowDialog
<1>5. ~ ShowDialogTooLate(t)
  BY DEF ShowDialogTooLate
<1>6. ~ (ReadEmail(t) \/ ReadPassword(t) \/ ReadRefresh(t) \/ Wipe(t) \/ InitFails(t) \/ Commit(t))
  <2>1. ~ ReadEmail(t) /\ ~ ReadPassword(t)
    BY <1>2 DEF ReadEmail, ReadPassword, ui
  <2>2. ~ ReadRefresh(t)
    BY <1>2 DEF ReadRefresh, ui
  <2>3. ~ Wipe(t)
    BY <1>2 DEF Wipe, ui
  <2>4. ~ InitFails(t)
    <3> SUFFICES ASSUME InitFails(t) PROVE FALSE
      OBVIOUS
    <3>1. stack' = [i \in DOMAIN stack |-> IF stack[i].id = thread[t].owner
                                           THEN [stack[i] EXCEPT !.view = "stuck"] ELSE stack[i]]
      BY DEF InitFails
    <3>2. ASSUME NEW i \in DOMAIN stack PROVE stack'[i].kind = stack[i].kind
      <4>1. stack[i] \in Screens
        BY <1>1
      <4>2. [stack[i] EXCEPT !.view = "stuck"].kind = stack[i].kind
        BY <4>1 DEF Screens
      <4> QED
        BY <3>1, <4>2
    <3> QED
      BY <3>1, <3>2, CheckStays
  <2>5. ~ Commit(t)
    BY <1>2 DEF Commit, ui
  <2> QED
    BY <2>1, <2>2, <2>3, <2>4, <2>5
<1>7. ~ (EnterCall(t) \/ FailCall(t) \/ BeginTable(t) \/ CloseTable(t) \/ FinishCall(t))
  BY <1>2 DEF EnterCall, FailCall, BeginTable, CloseTable, FinishCall, ui
<1> QED
  BY <1>3, <1>4, <1>5, <1>6, <1>7, Zenon DEF Work, Proceed

\* The last check screen leaves no request to reload behind, whichever way it goes: by
\* the back key, or because an account was verified and there is nothing to check.
THEOREM RequestGoesWithCheck == Spec => RequestEndsWithCheck
<1>1. TypeOK /\ [Next]_vars => [RequestKept]_vars
  <2> SUFFICES ASSUME TypeOK, Next PROVE RequestKept
    OBVIOUS
  <2> QED
    BY ShowRequest, UserRequest, WorkRequest DEF Next, ProcessDies, RequestKept
<1> QED
  BY <1>1, TypeCorrect, PTL DEF Spec, RequestEndsWithCheck, RequestKept
=============================================================================
