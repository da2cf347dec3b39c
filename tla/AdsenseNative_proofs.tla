------------------------ MODULE AdsenseNative_proofs ------------------------
(***************************************************************************)
(* Theorems about AdsenseNative: the types for any number of callers, and  *)
(* for one caller, whose calls follow each other, the safety properties    *)
(* and that a call keeps the contract.  Accounts, handles, time ranges and *)
(* entries of the FILE table are as many as one likes.                     *)
(***************************************************************************)
EXTENDS AdsenseNative, Recursion

\* fopen takes a free entry, and none below it is free.
LEMMA FirstFreeIsFirst ==
  ASSUME NEW open, FreeSlots(open) # {}
  PROVE  /\ FirstFree(open) \in 1 .. Slots /\ FirstFree(open) \notin open
         /\ \A s \in FreeSlots(open) : FirstFree(open) <= s
<1>1. FreeSlots(open) \subseteq Nat
  BY SlotsAssumption DEF FreeSlots
<1>2. \E m \in FreeSlots(open) : \A n \in FreeSlots(open) : m <= n
  BY <1>1, LeastNumber
<1>3. /\ FirstFree(open) \in FreeSlots(open)
      /\ \A s \in FreeSlots(open) : FirstFree(open) <= s
  BY <1>2 DEF FirstFree
<1> QED
  BY <1>3 DEF FreeSlots
-----------------------------------------------------------------------------
(* Types. *)

\* A call that has its streams open knows which: without that, fclose would give back
\* no entry for the next fopen to take.
StreamGiven == \A c \in Callers : call[c].pc \in {"pseudo", "reopen"} => call[c].fp \in 1 .. Slots

TypeInv == TypeOK /\ StreamGiven

\* The handle and the caller that are not there have their types.
LEMMA ClosedType == Closed \in HandleStates /\ Returned \in Calls
<1>1. 0 \in 0 .. Slots /\ 1 \in 1 .. Reports
  BY SlotsAssumption, ReportsAssumption
<1>2. {} \in SUBSET Emails
  OBVIOUS
<1> QED
  BY <1>1, <1>2 DEF Closed, Returned, HandleStates, Calls, Steps

\* What a step does to one caller has a type, and so has what it does to all.
LEMMA CallsType ==
  ASSUME TypeInv, NEW c \in Callers, NEW k \in Calls,
         k.pc \in {"pseudo", "reopen"} => k.fp \in 1 .. Slots,
         call' = [call EXCEPT ![c] = k]
  PROVE  call' \in [Callers -> Calls] /\ StreamGiven'
BY DEF TypeInv, TypeOK, StreamGiven

\* Going on to a step that is no transfer into a stream just opened.
LEMMA GotoType ==
  ASSUME TypeInv, NEW c \in Callers, NEW pc \in Steps \ {"pseudo", "reopen"}, Goto(c, pc)
  PROVE  call' \in [Callers -> Calls] /\ StreamGiven'
<1> DEFINE k == [call[c] EXCEPT !.pc = pc]
<1>1. k \in Calls /\ k.pc = pc
  BY DEF TypeInv, TypeOK, Calls
<1>2. call' = [call EXCEPT ![c] = k]
  BY DEF Goto
<1> HIDE DEF k
<1> QED
  BY <1>1, <1>2, CallsType

\* Going on to the cleanup.
LEMMA LeaveType ==
  ASSUME TypeInv, NEW c \in Callers, NEW ret \in {NotSignedIn, TransferError}, Leave(c, ret)
  PROVE  call' \in [Callers -> Calls] /\ StreamGiven'
<1> DEFINE k == [call[c] EXCEPT !.pc = "cleanup", !.ret = ret]
<1>1. k \in Calls /\ k.pc = "cleanup"
  BY ZenonT(60) DEF TypeInv, TypeOK, Calls, Steps
<1>2. call' = [call EXCEPT ![c] = k]
  BY DEF Leave
<1> HIDE DEF k
<1> QED
  BY <1>1, <1>2, CallsType

\* A call that is over.
LEMMA ReturnedType ==
  ASSUME TypeInv, NEW c \in Callers, call' = [call EXCEPT ![c] = Returned]
  PROVE  call' \in [Callers -> Calls] /\ StreamGiven'
<1>1. Returned \in Calls /\ Returned.pc = "idle"
  BY ClosedType DEF Returned
<1> QED
  BY <1>1, CallsType

\* Setting the handle to another state.
LEMMA HandleType ==
  ASSUME TypeOK, NEW h \in Handles, NEW k \in HandleStates, handle' = [handle EXCEPT ![h] = k]
  PROVE  handle' \in [Handles -> HandleStates]
BY DEF TypeOK

\* The cookies of a transfer are sessions.
LEMMA CookiesType == ASSUME TypeOK PROVE Cookies \subseteq Emails
BY DEF TypeOK, Cookies, HandleStates

\* It begins with the types.
LEMMA InitType == Init => TypeInv
BY ClosedType DEF Init, TypeInv, TypeOK, StreamGiven, Returned

\* The start of a call.
LEMMA CallType ==
  ASSUME TypeInv, NEW c \in Callers, NEW typed \in Typed, Call(c, typed)
  PROVE  TypeInv'
<1> DEFINE k == [Returned EXCEPT !.pc = "init", !.cred = typed]
<1>1. k \in Calls /\ k.pc = "init"
  BY ClosedType DEF Calls, Steps
<1>2. call' = [call EXCEPT ![c] = k]
  BY DEF Call
<1> HIDE DEF k
<1>3. call' \in [Callers -> Calls] /\ StreamGiven'
  BY <1>1, <1>2, CallsType
<1>4. \A lines \in SUBSET Lines : Aged(lines) \subseteq Lines
  BY DEF Aged, Lines
<1>5. /\ jar' \in SUBSET Emails /\ temp' \in SUBSET Lines /\ table' \in SUBSET Lines
      /\ report' \in [1 .. Reports -> SUBSET Lines]
  BY <1>4, ZenonT(60) DEF Call, TypeInv, TypeOK
<1> QED
  BY <1>3, <1>5 DEF Call, process, TypeInv, TypeOK

\* curl_local_init, and its failure.
LEMMA CurlInitType ==
  ASSUME TypeInv, NEW c \in Callers, CurlLocalInit(c) \/ InitFails(c)
  PROVE  TypeInv'
<1>1. CASE CurlLocalInit(c)
  <2>1. PICK h \in Handles : /\ curl' = h
                             /\ handle' = [handle EXCEPT ![h] = [Closed EXCEPT !.open = TRUE]]
    BY <1>1 DEF CurlLocalInit
  <2>2. [Closed EXCEPT !.open = TRUE] \in HandleStates
    BY ClosedType DEF HandleStates
  <2>3. handle' \in [Handles -> HandleStates]
    BY <2>1, <2>2 DEF TypeInv, TypeOK
  <2>4. call' \in [Callers -> Calls] /\ StreamGiven'
    BY <1>1, GotoType DEF CurlLocalInit, Steps, Transfers, LoginTransfers
  <2> QED
    BY <1>1, <2>1, <2>3, <2>4 DEF CurlLocalInit, card, TypeInv, TypeOK
<1>2. CASE InitFails(c)
  <2>1. call' \in [Callers -> Calls] /\ StreamGiven'
    BY <1>2, ReturnedType DEF InitFails
  <2>2. answer' \in [Callers -> {0, InitFailed, NotSignedIn, TransferError}]
    BY <1>2 DEF InitFails, TypeInv, TypeOK
  <2> QED
    BY <1>2, <2>1, <2>2 DEF InitFails, card, TypeInv, TypeOK
<1> QED
  BY <1>1, <1>2
\* What a server can answer in the login: the session stays as it is, ends, or becomes
\* the account's own; a page with the sign-out link comes with a session that stays.
LEMMA AnswersAre ==
  ASSUME NEW transfer \in LoginTransfers, NEW cookies, NEW cred,
         NEW a \in Answers(transfer, cookies, cred)
  PROVE  /\ a.page \in {"form", "refused", "signed in", "other"}
         /\ a.cookies \in {cookies, {}} \cup {{e} : e \in OwnSession(cred)}
         /\ transfer # "STAGE2" => a.cookies \in {cookies, {}}
         /\ transfer \in {"probe STAGE4", "STAGE4"} /\ a.page = "signed in" =>
              a.cookies = cookies /\ cookies # {}
<1>1. CASE transfer \in {"LOGIN_URL", "STAGE3"}
  BY <1>1 DEF Answers
<1>2. CASE transfer \in {"probe STAGE4", "STAGE4"}
  <2>1. a \in [page : {"signed in"}, cookies : {cookies} \ {{}}]
              \cup [page : {"other"}, cookies : {cookies, {}}]
    BY <1>2 DEF Answers
  <2> QED
    BY <1>2, <2>1
<1>3. CASE transfer = "STAGE2"
  <2>1. a \in [page : {"refused", "other"}, cookies : {cookies, {}}]
              \cup [page : {"other"}, cookies : {{e} : e \in OwnSession(cred)}]
    BY <1>3 DEF Answers
  <2> QED
    BY <1>3, <2>1
<1> QED
  BY <1>1, <1>2, <1>3 DEF LoginTransfers

\* A transfer of the login that goes through.
LEMMA AskType ==
  ASSUME TypeInv, NEW c \in Callers, NEW transfer \in LoginTransfers,
         NEW next \in Steps \ {"pseudo", "reopen"}, NEW options,
         Usable => options \in HandleStates,
         Ask(c, transfer, next, options), session' \in [Callers -> SUBSET Emails]
  PROVE  TypeInv'
<1>1. PICK a \in Answers(transfer, Cookies, call[c].cred) :
        /\ page' = a.page
        /\ handle' = [handle EXCEPT ![curl] =
                        [options EXCEPT !.sink = 0, !.loaded = TRUE, !.cookies = a.cookies]]
  BY DEF Ask
<1>2. a.page \in {"form", "refused", "signed in", "other"} /\ a.cookies \in SUBSET Emails
  <2>1. /\ a.page \in {"form", "refused", "signed in", "other"}
        /\ a.cookies \in {Cookies, {}} \cup {{e} : e \in OwnSession(call[c].cred)}
    BY AnswersAre
  <2>2. Cookies \subseteq Emails /\ OwnSession(call[c].cred) \subseteq Emails
    BY CookiesType DEF OwnSession, TypeInv
  <2> QED
    BY <2>1, <2>2
<1>3. curl \in Handles /\ options \in HandleStates
  BY DEF Ask, Usable, TypeInv, TypeOK
<1>4. [options EXCEPT !.sink = 0, !.loaded = TRUE, !.cookies = a.cookies] \in HandleStates
  <2>1. 0 \in 0 .. Slots
    BY SlotsAssumption
  <2>2. [options EXCEPT !.sink = 0] \in HandleStates
    BY <1>3, <2>1 DEF HandleStates
  <2>3. [[options EXCEPT !.sink = 0] EXCEPT !.loaded = TRUE] \in HandleStates
    BY <2>2 DEF HandleStates
  <2> QED
    BY <1>2, <2>3 DEF HandleStates
<1>5. handle' \in [Handles -> HandleStates]
  BY <1>1, <1>3, <1>4, HandleType DEF TypeInv
<1>6. call' \in [Callers -> Calls] /\ StreamGiven'
  BY GotoType DEF Ask
<1> QED
  BY <1>1, <1>2, <1>5, <1>6 DEF Ask, card, TypeInv, TypeOK

\* The sessions a call can be signed in to are known when it enters the login.
LEMMA SignInsType ==
  ASSUME TypeInv, NEW c \in Callers, session' = [session EXCEPT ![c] = SignIns(jar, call[c].cred)]
  PROVE  session' \in [Callers -> SUBSET Emails]
<1>1. SignIns(jar, call[c].cred) \in SUBSET Emails
  BY DEF SignIns, OwnSession, TypeInv, TypeOK
<1> QED
  BY <1>1 DEF TypeInv, TypeOK

\* adsense_login.
LEMMA LoginType ==
  ASSUME TypeInv, NEW c \in Callers, Login(c)
  PROVE  TypeInv'
<1> USE DEF Steps, Transfers, LoginTransfers, ReportTransfers
<1>1. Usable => handle[curl] \in HandleStates
  BY DEF Usable, TypeInv, TypeOK
<1>2. session \in [Callers -> SUBSET Emails]
  BY DEF TypeInv, TypeOK
<1>3. \A ret \in {NotSignedIn, TransferError} :
        Leave(c, ret) => call' \in [Callers -> Calls] /\ StreamGiven'
  BY LeaveType
<1>4. \A pc \in Steps \ {"pseudo", "reopen"} :
        Goto(c, pc) => call' \in [Callers -> Calls] /\ StreamGiven'
  BY GotoType
<1>5. CASE AskLoginBox(c)
  <2>1. session' \in [Callers -> SUBSET Emails]
    BY <1>5, SignInsType DEF AskLoginBox
  <2> QED
    BY <1>5, <1>1, <2>1, AskType DEF AskLoginBox
<1>6. CASE ProbeSession(c) \/ CheckCookie(c) \/ AskHome(c)
  BY <1>6, <1>1, <1>2, AskType DEF ProbeSession, CheckCookie, AskHome
<1>7. CASE PostCredentials(c)
  <2>1. Usable => [handle[curl] EXCEPT !.post = TRUE] \in HandleStates
    BY <1>1 DEF HandleStates
  <2> QED
    BY <1>7, <1>2, <2>1, AskType DEF PostCredentials
<1>8. CASE FindForm(c) \/ CheckProbe(c) \/ CheckHome(c)
  <2>1. call' \in [Callers -> Calls] /\ StreamGiven'
    BY <1>8, <1>3, <1>4 DEF FindForm, CheckProbe, CheckHome
  <2> QED
    BY <1>8, <2>1 DEF FindForm, CheckProbe, CheckHome, card, process, TypeInv, TypeOK
<1>9. CASE CheckPost(c)
  <2>1. call' \in [Callers -> Calls] /\ StreamGiven'
    BY <1>9, <1>3, <1>4 DEF CheckPost
  <2>2. Usable => [handle[curl] EXCEPT !.post = FALSE] \in HandleStates /\ curl \in Handles
    BY <1>1 DEF HandleStates, Usable, TypeInv, TypeOK
  <2>3. handle' \in [Handles -> HandleStates]
    BY <1>9, <2>2, HandleType DEF CheckPost, SetOpt, TypeInv, TypeOK
  <2> QED
    BY <1>9, <2>1, <2>3 DEF CheckPost, card, TypeInv, TypeOK
<1>10. CASE TransferFails(c)
  <2>1. call' \in [Callers -> Calls] /\ StreamGiven'
    BY <1>10, <1>3 DEF TransferFails
  <2>2. session' \in [Callers -> SUBSET Emails]
    BY <1>10, <1>2, SignInsType DEF TransferFails
  <2> QED
    BY <1>10, <2>1, <2>2 DEF TransferFails, card, process, TypeInv, TypeOK
<1> QED
  BY <1>5, <1>6, <1>7, <1>8, <1>9, <1>10 DEF Login

\* fopen finds two entries, and they are not the same.
LEMMA OpenStreamsAre ==
  ASSUME FreeSlots(streams) # {}, FreeSlots(streams \cup {FirstFree(streams)}) # {}
  PROVE  LET fp == FirstFree(streams)
             fpreal == FirstFree(streams \cup {fp})
         IN  /\ fp \in 1 .. Slots /\ fp \notin streams /\ 1 .. fp - 1 \subseteq streams
             /\ fpreal \in 1 .. Slots /\ fpreal \notin streams /\ fpreal # fp
<1>1. FirstFree(streams) \in 1 .. Slots /\ FirstFree(streams) \notin streams
  BY FirstFreeIsFirst
<1>2. 1 .. FirstFree(streams) - 1 \subseteq streams
  BY FirstFreeIsFirst, SlotsAssumption DEF FreeSlots
<1>3. /\ FirstFree(streams \cup {FirstFree(streams)}) \in 1 .. Slots
      /\ FirstFree(streams \cup {FirstFree(streams)}) \notin streams \cup {FirstFree(streams)}
  BY FirstFreeIsFirst
<1> QED
  BY <1>1, <1>2, <1>3

\* The entry that fclose gave back is free again.
LEMMA ReopenFindsOne ==
  ASSUME NEW fp \in 1 .. Slots
  PROVE  /\ FirstFree(streams \ {fp}) \in 1 .. Slots
         /\ 1 .. fp - 1 \subseteq streams => FirstFree(streams \ {fp}) = fp
<1>1. fp \in FreeSlots(streams \ {fp})
  BY DEF FreeSlots
<1>2. /\ FirstFree(streams \ {fp}) \in 1 .. Slots /\ FirstFree(streams \ {fp}) \notin streams \ {fp}
      /\ FirstFree(streams \ {fp}) <= fp
  BY <1>1, FirstFreeIsFirst
<1>3. ASSUME 1 .. fp - 1 \subseteq streams PROVE FirstFree(streams \ {fp}) = fp
  BY <1>2, <1>3, SlotsAssumption
<1> QED
  BY <1>2, <1>3
\* The type of what the report steps do to a caller.
LEMMA WithStreamType ==
  ASSUME TypeInv, NEW c \in Callers, NEW pc \in {"pseudo", "reopen", "fetch"},
         NEW fp \in 1 .. Slots, NEW fpreal \in 1 .. Slots,
         call' = [call EXCEPT ![c].pc = pc, ![c].fp = fp, ![c].fpreal = fpreal]
  PROVE  call' \in [Callers -> Calls] /\ StreamGiven'
<1> DEFINE k == [call[c] EXCEPT !.pc = pc, !.fp = fp, !.fpreal = fpreal]
<1>0. call[c] \in Calls /\ call \in [Callers -> Calls]
  BY DEF TypeInv, TypeOK
<1>1. fp \in 0 .. Slots /\ fpreal \in 0 .. Slots
  BY SlotsAssumption
<1>2. [call[c] EXCEPT !.pc = pc] \in Calls
  BY <1>0 DEF Calls, Steps, Transfers, ReportTransfers
<1>3. [[call[c] EXCEPT !.pc = pc] EXCEPT !.fp = fp] \in Calls
  BY <1>1, <1>2 DEF Calls
<1>4. k \in Calls /\ k.pc = pc /\ k.fp = fp
  BY <1>0, <1>1, <1>3 DEF Calls
<1>5. call' = [call EXCEPT ![c] = k]
  OBVIOUS
<1> HIDE DEF k
<1> QED
  BY <1>4, <1>5, CallsType

\* A transfer into the stream of afc_temp.csv.
LEMMA FetchType ==
  ASSUME TypeInv, NEW c \in Callers, Fetch(c)
  PROVE  /\ temp' \in SUBSET Lines /\ handle' \in [Handles -> HandleStates]
         /\ UNCHANGED <<jar, report, table, curl, page, streams, session, answer>>
<1>1. PICK cookies \in {Cookies, {}} :
        /\ \E line \in FetchedLine(cookies) : temp' = temp \cup {line}
        /\ handle' = [handle EXCEPT ![curl].greeted = TRUE, ![curl].cookies = cookies]
  BY DEF Fetch
<1>2. cookies \in SUBSET Emails
  BY CookiesType DEF TypeInv
<1>3. ASSUME NEW line \in FetchedLine(cookies) PROVE line \in Lines
  <2>1. CASE line \in [of : cookies, fresh : {TRUE}]
    BY <1>2, <2>1 DEF Lines
  <2>2. CASE line = [of |-> Null, fresh |-> TRUE]
    BY <2>2 DEF Lines
  <2> QED
    BY <1>3, <2>1, <2>2 DEF FetchedLine
<1>4. curl \in Handles /\ handle[curl] \in HandleStates
  BY DEF Fetch, Usable, TypeInv, TypeOK
<1>5. [handle[curl] EXCEPT !.greeted = TRUE, !.cookies = cookies] \in HandleStates
  BY <1>2, <1>4 DEF HandleStates
<1>6. handle' = [handle EXCEPT ![curl] =
                   [handle[curl] EXCEPT !.greeted = TRUE, !.cookies = cookies]]
  BY <1>1
<1>7. handle' \in [Handles -> HandleStates]
  BY <1>4, <1>5, <1>6, HandleType DEF TypeInv
<1>8. temp' \in SUBSET Lines
  BY <1>1, <1>3 DEF TypeInv, TypeOK
<1> QED
  BY <1>7, <1>8 DEF Fetch

\* get_adsense_reports.
LEMMA ReportsType ==
  ASSUME TypeInv, NEW c \in Callers, FetchReports(c)
  PROVE  TypeInv'
<1> USE DEF TypeInv
<1>1. call[c] \in Calls /\ call \in [Callers -> Calls]
  BY DEF TypeOK
<1>2. CASE OpenReport(c)
  <2> DEFINE fp == FirstFree(streams)
             fpreal == FirstFree(streams \cup {fp})
             pc == IF call[c].range = 1 THEN "pseudo" ELSE "fetch"
  <2>0. fp \in 1 .. Slots /\ fpreal \in 1 .. Slots
    BY <1>2, OpenStreamsAre DEF OpenReport, OpenStreams
  <2>1. fp \in 1 .. Slots /\ fpreal \in 1 .. Slots /\ fp \in 0 .. Slots
    BY <2>0, SlotsAssumption
  <2>2. /\ streams' = streams \cup {fp, fpreal}
        /\ SetOpt([handle[curl] EXCEPT !.sink = fp])
        /\ call' = [call EXCEPT ![c].pc = pc, ![c].fp = fp, ![c].fpreal = fpreal]
    BY <1>2 DEF OpenReport, OpenStreams
  <2> HIDE DEF fp, fpreal
  <2>3. call' \in [Callers -> Calls] /\ StreamGiven'
    BY <2>1, <2>2, WithStreamType
  <2>4. curl # NoHandle => curl \in Handles /\ [handle[curl] EXCEPT !.sink = fp] \in HandleStates
    BY <2>1 DEF TypeOK, HandleStates
  <2>5. handle' \in [Handles -> HandleStates]
    BY <2>2, <2>4, HandleType DEF SetOpt, TypeOK
  <2>6. report' \in [1 .. Reports -> SUBSET Lines] /\ temp' \in SUBSET Lines
    BY <1>2 DEF OpenReport, TypeOK
  <2> QED
    BY <1>2, <2>1, <2>2, <2>3, <2>5, <2>6 DEF OpenReport, TypeOK
<1>3. CASE PseudoFetch(c)
  <2> DEFINE k == [call[c] EXCEPT !.pc = "reopen"]
             s == [call[c] EXCEPT !.pc = "reopen", !.spared = TRUE]
  <2>1. call[c].fp \in 1 .. Slots
    BY <1>3 DEF StreamGiven, PseudoFetch, At
  <2>2. k \in Calls /\ k.pc = "reopen" /\ k.fp = call[c].fp
    BY <1>1 DEF Calls, Steps
  <2>3. s \in Calls /\ s.pc = "reopen" /\ s.fp = call[c].fp
    BY <1>1 DEF Calls, Steps
  <2>4. \/ call' = [call EXCEPT ![c] = k] /\ UNCHANGED <<card, process, session, answer>>
        \/ call' = [call EXCEPT ![c] = s] /\ Fetch(c)
    BY <1>3 DEF PseudoFetch, Goto
  <2> HIDE DEF k, s
  <2>5. call' \in [Callers -> Calls] /\ StreamGiven'
    BY <2>1, <2>2, <2>3, <2>4, CallsType
  <2> QED
    BY <2>4, <2>5, FetchType DEF card, process, TypeOK
<1>4. CASE ReopenTemp(c)
  <2> DEFINE fp == FirstFree(streams \ {call[c].fp})
             k == [call[c] EXCEPT !.pc = "fetch", !.fp = fp]
  <2>1. fp \in 1 .. Slots /\ fp \in 0 .. Slots
    BY <1>4, ReopenFindsOne, SlotsAssumption DEF StreamGiven, ReopenTemp, At
  <2>2. call' = [call EXCEPT ![c] = k] /\ streams' = (streams \ {call[c].fp}) \cup {fp}
    BY <1>4 DEF ReopenTemp
  <2> HIDE DEF fp
  <2>3. k \in Calls /\ k.pc = "fetch"
    BY <1>1, <2>1 DEF Calls, Steps, Transfers, ReportTransfers
  <2> HIDE DEF k
  <2>4. call' \in [Callers -> Calls] /\ StreamGiven'
    BY <2>2, <2>3, CallsType
  <2> QED
    BY <1>4, <2>1, <2>2, <2>4 DEF ReopenTemp, TypeOK
<1>5. CASE FetchReport(c)
  <2>1. call' \in [Callers -> Calls] /\ StreamGiven'
    BY <1>5, GotoType DEF FetchReport, Steps
  <2> QED
    BY <1>5, <2>1, FetchType DEF FetchReport, TypeOK
<1>6. CASE ConvertReport(c)
  <2> DEFINE pc == IF call[c].range = Reports THEN "process" ELSE "open"
             range == NextRange(call[c].range)
             k == [call[c] EXCEPT !.pc = pc, !.range = range, !.fp = 0, !.fpreal = 0]
  <2>1. call' = [call EXCEPT ![c] = k] /\ streams' = streams \ {call[c].fp, call[c].fpreal}
    BY <1>6 DEF ConvertReport
  <2>2. range \in 1 .. Reports /\ 0 \in 0 .. Slots /\ pc \in {"process", "open"}
    BY <1>1, ReportsAssumption, SlotsAssumption DEF NextRange, Calls
  <2> HIDE DEF range, pc
  <2>3. [call[c] EXCEPT !.pc = pc, !.range = range] \in Calls
    BY <1>1, <2>2 DEF Calls, Steps
  <2>4. [[call[c] EXCEPT !.pc = pc, !.range = range] EXCEPT !.fp = 0] \in Calls
    BY <2>2, <2>3 DEF Calls
  <2>5. k \in Calls /\ k.pc = pc
    BY <1>1, <2>2, <2>4 DEF Calls
  <2> HIDE DEF k
  <2>6. call' \in [Callers -> Calls] /\ StreamGiven'
    BY <2>1, <2>2, <2>5, CallsType
  <2>7. report' \in [1 .. Reports -> SUBSET Lines]
    BY <1>6, ZenonT(60) DEF ConvertReport, TypeOK
  <2> QED
    BY <1>6, <2>1, <2>6, <2>7 DEF ConvertReport, TypeOK
<1> QED
  BY <1>2, <1>3, <1>4, <1>5, <1>6 DEF FetchReports
\* process_adsense_reports and the end of the call.
LEMMA EndType ==
  ASSUME TypeInv, NEW c \in Callers, OpenTable(c) \/ WriteTable(c) \/ Cleanup(c)
  PROVE  TypeInv'
<1> USE DEF TypeInv
<1>1. call[c] \in Calls /\ call \in [Callers -> Calls]
  BY DEF TypeOK
<1>2. CASE OpenTable(c)
  <2>1. call' \in [Callers -> Calls] /\ StreamGiven'
    BY <1>2, GotoType DEF OpenTable, Steps
  <2> QED
    BY <1>2, <2>1 DEF OpenTable, process, TypeOK
<1>3. CASE WriteTable(c)
  <2> DEFINE k == [call[c] EXCEPT !.pc = "cleanup", !.ret = 0]
  <2>1. k \in Calls /\ k.pc = "cleanup"
    BY <1>1 DEF Calls, Steps
  <2>2. call' = [call EXCEPT ![c] = k]
    BY <1>3 DEF WriteTable
  <2> HIDE DEF k
  <2>3. call' \in [Callers -> Calls] /\ StreamGiven'
    BY <2>1, <2>2, CallsType
  <2>4. table' \in SUBSET Lines
    BY <1>3, ZenonT(60) DEF WriteTable, TypeOK
  <2>5. session' \in [Callers -> SUBSET Emails]
    BY <1>3 DEF WriteTable, TypeOK
  <2> QED
    BY <1>3, <2>3, <2>4, <2>5 DEF WriteTable, process, TypeOK
<1>4. CASE Cleanup(c)
  <2>1. call' \in [Callers -> Calls] /\ StreamGiven'
    BY <1>4, ReturnedType DEF Cleanup
  <2>2. handle' \in [Handles -> HandleStates] /\ jar' \in SUBSET Emails
    BY <1>4, ClosedType, CookiesType, HandleType DEF Cleanup, TypeOK
  <2>3. call[c].ret \in {0, NotSignedIn, TransferError}
    BY <1>1 DEF Calls
  <2>4. /\ answer' \in [Callers -> {0, InitFailed, NotSignedIn, TransferError}]
        /\ session' \in [Callers -> SUBSET Emails]
    BY <1>4, <2>3 DEF Cleanup, TypeOK
  <2> QED
    BY <1>4, <2>1, <2>2, <2>4 DEF Cleanup, TypeOK
<1> QED
  BY <1>2, <1>3, <1>4

\* Every step keeps the types.
LEMMA NextType == TypeInv /\ [Next]_vars => TypeInv'
<1> SUFFICES ASSUME TypeInv, [Next]_vars PROVE TypeInv'
  OBVIOUS
<1>1. CASE ProcessDies
  BY <1>1, ClosedType
  DEF ProcessDies, NewProcess, card, TypeInv, TypeOK, StreamGiven, Returned
<1>2. CASE UNCHANGED vars
  BY <1>2 DEF vars, card, process, TypeInv, TypeOK, StreamGiven
<1> QED
  BY <1>1, <1>2, CallType, CurlInitType, LoginType, ReportsType, EndType DEF Next

\* The variables of the native library keep their types, however many callers are in it
\* at once.
THEOREM TypesKept == Spec => []TypeOK
<1>1. Spec => []TypeInv
  BY InitType, NextType, PTL DEF Spec
<1> QED
  BY <1>1, PTL DEF TypeInv
-----------------------------------------------------------------------------
(* One caller: its calls follow each other.  Each step keeps CallInv. *)

\* The strings of the steps are told apart where this is used.
AfterLoginURL == {"form?", "probe STAGE4", "open session?", "STAGE2", "refused?", "STAGE3",
                  "STAGE4", "signed in?"}

\* In the login nothing was written, and nothing is to be spared.
LEMMA InLogin ==
  ASSUME NEW c, Callers = {c}, call'[c].pc \in AfterLoginURL \cup {"idle", "init", "LOGIN_URL"},
         call'[c].range = 1, ~ call'[c].spared, HandleInv', SessionInv'
  PROVE  CallInv'
<1> USE DEF AfterLoginURL, ReportSteps, At
<1>1. StreamInv' /\ FreshInv'
  BY DEF StreamInv, FreshInv
<1>2. SparedInv' /\ OneSessionInv'
  BY DEF SparedInv, OneSessionInv
<1> QED
  BY <1>1, <1>2 DEF CallInv

\* A call that failed has nothing more to say.
LEMMA InFailure ==
  ASSUME NEW c, Callers = {c}, call'[c].pc = "cleanup", call'[c].ret # 0, HandleInv', SessionInv'
  PROVE  CallInv'
<1> USE DEF ReportSteps, At
<1>1. StreamInv' /\ FreshInv'
  BY DEF StreamInv, FreshInv
<1>2. SparedInv' /\ OneSessionInv'
  BY DEF SparedInv, OneSessionInv
<1> QED
  BY <1>1, <1>2 DEF CallInv

\* The reports that were written, step by step.
LEMMA WrittenIs ==
  ASSUME NEW k
  PROVE  /\ k.pc \in {"process", "merge"} => Written(k) = 1 .. Reports
         /\ k.pc \in {"pseudo", "reopen", "fetch", "convert"} => Written(k) = 1 .. k.range
         /\ k.pc = "open" => Written(k) = 1 .. k.range - 1
         /\ k.pc = "open" /\ k.range = 1 => Written(k) = {}
<1>1. /\ k.pc \in {"process", "merge"} => Written(k) = 1 .. Reports
      /\ k.pc \in {"pseudo", "reopen", "fetch", "convert"} => Written(k) = 1 .. k.range
      /\ k.pc = "open" => Written(k) = 1 .. k.range - 1
  BY DEF Written
<1>2. 1 .. 1 - 1 = {}
  OBVIOUS
<1> QED
  BY <1>1, <1>2

\* What Goto and Leave change.
LEMMA GotoIs ==
  ASSUME TypeInv, NEW c \in Callers, NEW pc, Goto(c, pc)
  PROVE  call'[c].pc = pc /\ \A f \in {"cred", "range", "fp", "ret", "spared"} : call'[c][f] = call[c][f]
BY DEF Goto, TypeInv, TypeOK, Calls

LEMMA LeaveIs ==
  ASSUME TypeInv, NEW c \in Callers, NEW ret, Leave(c, ret)
  PROVE  call'[c].pc = "cleanup" /\ call'[c].ret = ret /\ call'[c].cred = call[c].cred
BY DEF Leave, TypeInv, TypeOK, Calls

\* It begins with the invariant.
LEMMA InitInv == Init => CallInv
<1> SUFFICES ASSUME Init PROVE CallInv
  OBVIOUS
<1> USE DEF Init, Returned, Closed, ReportSteps, At
<1>1. HandleInv /\ StreamInv /\ FreshInv
  BY DEF HandleInv, StreamInv, FreshInv
<1>2. SparedInv /\ SessionInv /\ OneSessionInv
  BY DEF SparedInv, SessionInv, OneSessionInv, AtMostOne
<1> QED
  BY <1>1, <1>2 DEF CallInv

\* A process that ends takes all but the files with it.
LEMMA DiesInv == ASSUME CallInv, ProcessDies PROVE CallInv'
<1> USE DEF ProcessDies, NewProcess, card, CallInv, Returned, Closed, ReportSteps, At
<1>1. HandleInv' /\ StreamInv' /\ FreshInv'
  BY DEF HandleInv, StreamInv, FreshInv
<1>2. SparedInv' /\ SessionInv' /\ OneSessionInv'
  BY DEF SparedInv, SessionInv, OneSessionInv, AtMostOne
<1> QED
  BY <1>1, <1>2 DEF CallInv

\* The start of a call.
LEMMA StartInv ==
  ASSUME TypeInv, CallInv, NEW c, Callers = {c}, NEW typed \in Typed, Call(c, typed)
  PROVE  CallInv'
<1>1. call'[c].pc = "init" /\ call'[c].range = 1 /\ ~ call'[c].spared /\ call[c].pc = "idle"
  BY DEF Call, At, Returned, TypeInv, TypeOK
<1>2. HandleInv'
  BY <1>1 DEF HandleInv, At
<1>3. AtMostOne(jar') /\ UNCHANGED <<handle, session>>
  BY DEF Call, process, CallInv, SessionInv, AtMostOne
<1>4. SessionInv'
  BY <1>1, <1>3 DEF SessionInv, CallInv, AtMostOne
<1> QED
  BY <1>1, <1>2, <1>4, InLogin
\* curl_local_init, and its failure.
LEMMA CurlInitInv ==
  ASSUME TypeInv, CallInv, NEW c, Callers = {c}, CurlLocalInit(c) \/ InitFails(c)
  PROVE  CallInv'
<1>0. call[c].pc = "init" /\ call[c].range = 1 /\ ~ call[c].spared /\ session[c] = {}
  <2>1. call[c].pc = "init" /\ call[c].range = 1
    BY DEF CurlLocalInit, InitFails, At, CallInv, FreshInv, ReportSteps
  <2> QED
    BY <2>1 DEF CallInv, SparedInv, SessionInv, ReportSteps
<1>1. CASE CurlLocalInit(c)
  <2>1. PICK h \in Handles : /\ curl' = h
                             /\ handle' = [handle EXCEPT ![h] = [Closed EXCEPT !.open = TRUE]]
    BY <1>1 DEF CurlLocalInit
  <2>2. /\ handle'[h].open /\ ~ handle'[h].post /\ ~ handle'[h].loaded
        /\ handle'[h].cookies = {} /\ \A g \in Handles \ {h} : handle'[g] = handle[g]
    BY <2>1 DEF Closed, TypeInv, TypeOK
  <2>3. call'[c].pc = "LOGIN_URL" /\ call'[c].range = 1 /\ ~ call'[c].spared
    BY <1>0, <1>1, GotoIs DEF CurlLocalInit
  <2>4. HandleInv'
    BY <2>1, <2>2, <2>3, NoHandleAssumption DEF HandleInv, At, Usable
  <2>5. SessionInv'
    <3>1. AtMostOne(jar') /\ \A g \in Handles : AtMostOne(handle'[g].cookies)
      BY <1>1, <2>2, ZenonT(60) DEF CurlLocalInit, card, CallInv, SessionInv, AtMostOne
    <3>2. session'[c] = {}
      BY <1>0, <1>1 DEF CurlLocalInit
    <3> QED
      BY <2>3, <3>1, <3>2 DEF SessionInv, AtMostOne
  <2> QED
    BY <2>3, <2>4, <2>5, InLogin
<1>2. CASE InitFails(c)
  <2>1. call'[c].pc = "idle" /\ call'[c].range = 1 /\ ~ call'[c].spared
    BY <1>2 DEF InitFails, Returned, TypeInv, TypeOK
  <2>2. HandleInv'
    BY <2>1 DEF HandleInv, At
  <2>3. SessionInv'
    BY <1>0, <1>2, <2>1 DEF InitFails, card, CallInv, SessionInv, AtMostOne
  <2> QED
    BY <2>1, <2>2, <2>3, InLogin
<1> QED
  BY <1>1, <1>2

\* A transfer of the login that goes through.
LEMMA AskInv ==
  ASSUME TypeInv, CallInv, NEW c, Callers = {c}, NEW transfer \in LoginTransfers,
         NEW next \in AfterLoginURL, NEW options \in HandleStates,
         Ask(c, transfer, next, options), options.open, options.post => next = "refused?",
         next \in {"open session?", "signed in?"} => transfer \in {"probe STAGE4", "STAGE4"},
         IF transfer = "LOGIN_URL" THEN session' = [session EXCEPT ![c] = SignIns(jar, call[c].cred)]
         ELSE session' = session
  PROVE  CallInv'
<1>1. PICK a \in Answers(transfer, Cookies, call[c].cred) :
        /\ page' = a.page
        /\ handle' = [handle EXCEPT ![curl] =
                        [options EXCEPT !.sink = 0, !.loaded = TRUE, !.cookies = a.cookies]]
  BY DEF Ask
<1>2. call[c].pc = transfer /\ curl \in Handles /\ curl' = curl /\ jar' = jar
  BY DEF Ask, At, Usable, card, TypeInv, TypeOK
<1>3. /\ handle'[curl].open /\ handle'[curl].post = options.post /\ handle'[curl].loaded
      /\ handle'[curl].cookies = a.cookies /\ \A h \in Handles \ {curl} : handle'[h] = handle[h]
  BY <1>1, <1>2 DEF HandleStates, TypeInv, TypeOK
<1>4. call[c].range = 1 /\ ~ call[c].spared
  BY <1>2 DEF CallInv, FreshInv, SparedInv, ReportSteps, LoginTransfers
<1>5. call'[c].pc = next /\ call'[c].range = 1 /\ ~ call'[c].spared /\ call'[c].cred = call[c].cred
  BY <1>4, GotoIs DEF Ask
<1>6. HandleInv'
  BY <1>2, <1>3, <1>5, NoHandleAssumption DEF HandleInv, AfterLoginURL, At, Usable
<1>7. AtMostOne(Cookies) /\ AtMostOne(a.cookies)
  <2>1. AtMostOne(Cookies)
    BY <1>2 DEF Cookies, CallInv, SessionInv, AtMostOne
  <2>2. a.cookies \in {Cookies, {}} \cup {{e} : e \in OwnSession(call[c].cred)}
    BY AnswersAre, ZenonT(60)
  <2> QED
    BY <2>1, <2>2 DEF AtMostOne
<1>8. Cookies \cup OwnSession(call[c].cred) \subseteq session'[c]
  <2>1. CASE transfer = "LOGIN_URL"
    <3>1. Cookies = jar
      BY <1>2, <2>1, NoHandleAssumption DEF Cookies, CallInv, HandleInv, At
    <3> QED
      BY <2>1, <3>1 DEF SignIns, TypeInv, TypeOK
  <2>2. CASE transfer # "LOGIN_URL"
    BY <1>2, <2>2 DEF CallInv, SessionInv, LoginTransfers, ReportSteps
  <2> QED
    BY <2>1, <2>2
<1>9. a.cookies \subseteq session'[c] /\ OwnSession(call[c].cred) \subseteq session'[c]
  <2>1. a.cookies \in {Cookies, {}} \cup {{e} : e \in OwnSession(call[c].cred)}
    BY AnswersAre, ZenonT(60)
  <2> QED
    BY <1>8, <2>1
<1>10. next \in {"open session?", "signed in?"} /\ page' = "signed in" => a.cookies # {}
  <2>1. /\ transfer \in {"probe STAGE4", "STAGE4"} /\ a.page = "signed in" =>
             a.cookies = Cookies /\ Cookies # {}
    BY AnswersAre
  <2> QED
    BY <1>1, <2>1
<1>11. SessionInv'
  <2>1. Cookies' = a.cookies
    BY <1>2, <1>3, NoHandleAssumption DEF Cookies
  <2>2. AtMostOne(jar') /\ \A h \in Handles : AtMostOne(handle'[h].cookies)
    BY <1>2, <1>3, <1>7, ZenonT(60) DEF CallInv, SessionInv, AtMostOne
  <2>3. call'[c].pc \notin {"idle", "init", "LOGIN_URL"}
    BY <1>5 DEF AfterLoginURL
  <2> QED
    BY <1>2, <1>3, <1>5, <1>9, <1>10, <2>1, <2>2, <2>3 DEF SessionInv, AtMostOne
<1> QED
  BY <1>5, <1>6, <1>11, InLogin
\* A call that gives up, in or after the login.
LEMMA FailInv ==
  ASSUME TypeInv, CallInv, NEW c, Callers = {c}, NEW ret \in {NotSignedIn, TransferError},
         Leave(c, ret), call[c].pc \notin {"idle", "init"}, UNCHANGED <<jar, curl, handle>>,
         IF At(c, "LOGIN_URL") THEN session' = [session EXCEPT ![c] = SignIns(jar, call[c].cred)]
         ELSE session' = session
  PROVE  CallInv'
<1>1. call'[c].pc = "cleanup" /\ call'[c].ret # 0
  BY LeaveIs DEF NotSignedIn, TransferError
<1>2. HandleInv'
  BY <1>1 DEF HandleInv, At, Usable, CallInv
<1>3. Cookies' \subseteq session'[c]
  <2>1. Cookies' = Cookies
    BY DEF Cookies
  <2>2. CASE At(c, "LOGIN_URL")
    <3>1. Cookies = jar
      BY <2>2, NoHandleAssumption DEF Cookies, CallInv, HandleInv, Usable, At
    <3> QED
      BY <2>1, <2>2, <3>1, ZenonT(60) DEF SignIns, TypeInv, TypeOK
  <2>3. CASE ~ At(c, "LOGIN_URL")
    BY <2>1, <2>3 DEF CallInv, SessionInv, At
  <2> QED
    BY <2>2, <2>3
<1>4. AtMostOne(jar') /\ \A h \in Handles : AtMostOne(handle'[h].cookies)
  BY DEF CallInv, SessionInv, AtMostOne
<1>5. SessionInv'
  BY <1>1, <1>3, <1>4 DEF SessionInv, AtMostOne, ReportSteps
<1> QED
  BY <1>1, <1>2, <1>5, InFailure

\* The page with the sign-out link: on to the reports, of one session.
LEMMA SignedInInv ==
  ASSUME TypeInv, CallInv, NEW c, Callers = {c}, call[c].pc \in {"open session?", "signed in?"},
         page = "signed in", Goto(c, "open"), UNCHANGED <<card, process, session>>
  PROVE  CallInv'
<1> USE DEF ReportSteps
<1>1. UNCHANGED <<jar, temp, report, table, curl, handle, page, streams>>
  BY DEF card, process
<1>2. call[c].range = 1 /\ ~ call[c].spared
  BY DEF CallInv, FreshInv, SparedInv
<1>3. call'[c].pc = "open" /\ call'[c].range = 1 /\ ~ call'[c].spared
  BY <1>2, GotoIs
<1>4. Written(call'[c]) = {}
  BY <1>3, WrittenIs
<1>5. HandleInv' /\ StreamInv'
  BY <1>1, <1>3 DEF CallInv, HandleInv, StreamInv, At, Usable
<1>6. FreshInv' /\ SparedInv'
  BY <1>3, <1>4 DEF FreshInv, SparedInv, At
<1>7. Cookies' = Cookies /\ Cookies \subseteq session[c]
  BY <1>1 DEF Cookies, CallInv, SessionInv
<1>8. SessionInv'
  BY <1>1, <1>3, <1>7 DEF CallInv, SessionInv, AtMostOne
<1>9. OneSessionInv'
  <2>1. PICK e \in handle[curl].cookies : TRUE
    BY DEF CallInv, SessionInv
  <2>2. Cookies = handle[curl].cookies
    BY NoHandleAssumption DEF Cookies, CallInv, HandleInv, Usable, TypeInv, TypeOK
  <2>3. e \in session'[c] /\ handle'[curl'].cookies \subseteq {e}
    <3>1. AtMostOne(handle[curl].cookies)
      BY <2>1 DEF CallInv, SessionInv, HandleInv, Usable, TypeInv, TypeOK
    <3>2. handle[curl].cookies \subseteq {e}
      BY <2>1, <3>1 DEF AtMostOne
    <3> QED
      BY <1>1, <1>7, <2>1, <2>2, <3>2
  <2> QED
    BY <1>3, <1>4, <2>3 DEF OneSessionInv
<1> QED
  BY <1>5, <1>6, <1>8, <1>9 DEF CallInv

\* The login's decisions on the pages it was answered.
LEMMA DecideInv ==
  ASSUME TypeInv, CallInv, NEW c, Callers = {c},
         FindForm(c) \/ CheckProbe(c) \/ CheckPost(c) \/ CheckHome(c)
  PROVE  CallInv'
<1> USE DEF ReportSteps
<1>0. call[c].pc \in {"form?", "open session?", "refused?", "signed in?"}
  BY DEF FindForm, CheckProbe, CheckPost, CheckHome, At
<1>1. /\ call[c].range = 1 /\ ~ call[c].spared /\ Usable /\ curl \in Handles
      /\ UNCHANGED <<jar, curl, page, session>>
  <2>1. call[c].range = 1 /\ ~ call[c].spared /\ Usable
    BY <1>0 DEF CallInv, FreshInv, SparedInv, HandleInv
  <2>2. UNCHANGED <<jar, curl, page, session>>
    BY DEF FindForm, CheckProbe, CheckPost, CheckHome, card, process
  <2> QED
    BY <2>1, <2>2 DEF Usable, TypeInv, TypeOK
<1>2. CASE \E ret \in {NotSignedIn, TransferError} : Leave(c, ret) /\ UNCHANGED handle
  BY <1>0, <1>1, <1>2, FailInv DEF At
<1>3. CASE (CheckProbe(c) \/ CheckHome(c)) /\ page = "signed in"
  BY <1>0, <1>3, SignedInInv DEF CheckProbe, CheckHome, At
<1>4. CASE /\ \E next \in {"STAGE2", "probe STAGE4", "STAGE3"} : Goto(c, next)
           /\ \/ call[c].pc = "form?" /\ UNCHANGED handle
              \/ call[c].pc = "refused?" /\ SetOpt([handle[curl] EXCEPT !.post = FALSE])
  <2>1. /\ call'[c].pc \in {"STAGE2", "probe STAGE4", "STAGE3"} /\ call'[c].range = 1
        /\ ~ call'[c].spared /\ call'[c].cred = call[c].cred
    BY <1>1, <1>4, GotoIs
  <2>2. /\ handle'[curl].open /\ handle'[curl].loaded /\ ~ handle'[curl].post
        /\ \A h \in Handles : handle'[h].cookies = handle[h].cookies
    <3>1. CASE call[c].pc = "form?" /\ UNCHANGED handle
      BY <1>1, <3>1 DEF CallInv, HandleInv, Usable
    <3>2. CASE call[c].pc = "refused?" /\ SetOpt([handle[curl] EXCEPT !.post = FALSE])
      <4>1. handle' = [handle EXCEPT ![curl] = [handle[curl] EXCEPT !.post = FALSE]]
        BY <1>1, <3>2 DEF SetOpt, Usable
      <4>2. handle[curl].open /\ handle[curl].loaded
        BY <1>1, <3>2 DEF CallInv, HandleInv, Usable
      <4> QED
        BY <1>1, <4>1, <4>2 DEF TypeInv, TypeOK, HandleStates
    <3> QED
      BY <1>4, <3>1, <3>2
  <2>3. HandleInv'
    BY <1>1, <2>1, <2>2 DEF HandleInv, Usable, At
  <2>4. /\ Cookies \subseteq session[c] /\ Cookies = handle[curl].cookies
        /\ OwnSession(call[c].cred) \subseteq session[c]
    BY <1>0, <1>1 DEF CallInv, SessionInv, HandleInv, Cookies, Usable
  <2>5. Cookies' = handle[curl].cookies
    BY <1>1, <2>2 DEF Cookies, Usable
  <2>6. AtMostOne(jar') /\ \A h \in Handles : AtMostOne(handle'[h].cookies)
    BY <1>1, <2>2 DEF CallInv, SessionInv, AtMostOne
  <2>7. SessionInv'
    BY <1>1, <2>1, <2>4, <2>5, <2>6 DEF SessionInv, AtMostOne
  <2> QED
    BY <2>1, <2>3, <2>7, InLogin DEF AfterLoginURL
<1> QED
  BY <1>2, <1>3, <1>4 DEF FindForm, CheckProbe, CheckPost, CheckHome, process, At

\* adsense_login.
LEMMA LoginInv ==
  ASSUME TypeInv, CallInv, NEW c, Callers = {c}, Login(c) PROVE CallInv'
<1> USE DEF LoginTransfers, AfterLoginURL
<1>1. CASE AskLoginBox(c) \/ ProbeSession(c) \/ CheckCookie(c) \/ AskHome(c)
  <2>1. /\ call[c].pc \in {"LOGIN_URL", "probe STAGE4", "STAGE3", "STAGE4"}
        /\ handle[curl] \in HandleStates /\ handle[curl].open
    BY <1>1 DEF AskLoginBox, ProbeSession, CheckCookie, AskHome, Ask, At, Usable, TypeInv, TypeOK
  <2>2. ~ handle[curl].post
    BY <2>1 DEF CallInv, HandleInv
  <2> QED
    BY <1>1, <2>1, <2>2, AskInv DEF AskLoginBox, ProbeSession, CheckCookie, AskHome
<1>2. CASE PostCredentials(c)
  <2>1. handle[curl] \in HandleStates /\ handle[curl].open
    BY <1>2 DEF PostCredentials, Ask, Usable, TypeInv, TypeOK
  <2>2. /\ [handle[curl] EXCEPT !.post = TRUE] \in HandleStates
        /\ [handle[curl] EXCEPT !.post = TRUE].open
    BY <2>1 DEF HandleStates
  <2> QED
    BY <1>2, <2>2, AskInv DEF PostCredentials
<1>3. CASE TransferFails(c)
  <2>1. call[c].pc \notin {"idle", "init"}
    BY <1>3 DEF TransferFails, Transfers, ReportTransfers
  <2> QED
    BY <1>3, <2>1, FailInv DEF TransferFails, card, process
<1> QED
  BY <1>1, <1>2, <1>3, DecideInv DEF Login
\* The handle of the report steps, and what its session can come to.
SameHandle ==
  /\ UNCHANGED <<jar, curl, session>>
  /\ handle'[curl].open /\ ~ handle'[curl].post /\ handle'[curl].loaded
  /\ handle[curl].greeted => handle'[curl].greeted
  /\ handle'[curl].cookies \in {handle[curl].cookies, {}}
  /\ \A h \in Handles \ {curl} : handle'[h] = handle[h]

\* From report step to report step.
LEMMA SameHandleInv ==
  ASSUME TypeInv, CallInv, NEW c, Callers = {c}, SameHandle,
         call[c].pc \in ReportSteps, call'[c].pc \in ReportSteps
  PROVE  HandleInv' /\ SessionInv'
<1> USE DEF ReportSteps, SameHandle
<1>1. Usable /\ curl \in Handles
  BY DEF CallInv, HandleInv, Usable, TypeInv, TypeOK
<1>2. HandleInv'
  BY <1>1 DEF HandleInv, Usable, At
<1>3. Cookies' = handle'[curl].cookies /\ Cookies = handle[curl].cookies
  BY <1>1 DEF Cookies, Usable, CallInv, HandleInv
<1>4. Cookies' \subseteq session'[c]
  BY <1>3 DEF CallInv, SessionInv
<1>5. AtMostOne(jar) /\ \A h \in Handles : AtMostOne(handle[h].cookies)
  BY DEF CallInv, SessionInv
<1>6. AtMostOne(handle'[curl].cookies)
  BY <1>1, <1>5 DEF AtMostOne
<1>7. AtMostOne(jar') /\ \A h \in Handles : AtMostOne(handle'[h].cookies)
  BY <1>5, <1>6
<1>8. SessionInv'
  BY <1>4, <1>7 DEF SessionInv, AtMostOne
<1> QED
  BY <1>2, <1>8

\* A step that leaves the handle alone.
LEMMA HandleLeftAlone ==
  ASSUME TypeInv, CallInv, NEW c, Callers = {c}, call[c].pc \in ReportSteps,
         UNCHANGED <<jar, curl, handle, session>>
  PROVE  SameHandle
BY DEF SameHandle, ReportSteps, CallInv, HandleInv, Usable

\* A report transfer that goes through: its line is of this call, of its session, and
\* no page of the site once that was shown.
LEMMA FetchIs ==
  ASSUME TypeInv, CallInv, NEW c, Callers = {c}, Fetch(c), call[c].pc \in {"pseudo", "fetch"}
  PROVE  /\ SameHandle /\ handle'[curl].greeted /\ handle'[curl].sink = handle[curl].sink
         /\ UNCHANGED <<report, table, streams>>
         /\ \E line : /\ temp' = temp \cup {line} /\ line.fresh
                      /\ line.of \in handle'[curl].cookies \cup {Null}
                      /\ handle[curl].greeted /\ handle'[curl].cookies # {} => line.of # Null
<1>1. PICK cookies \in {Cookies, {}} :
        /\ \E line \in FetchedLine(cookies) : temp' = temp \cup {line}
        /\ handle' = [handle EXCEPT ![curl].greeted = TRUE, ![curl].cookies = cookies]
  BY DEF Fetch
<1>2. /\ handle[curl].open /\ ~ handle[curl].post /\ handle[curl].loaded
      /\ curl \in Handles /\ handle[curl] \in HandleStates
  BY DEF CallInv, HandleInv, Usable, TypeInv, TypeOK
<1>3. /\ handle'[curl] = [handle[curl] EXCEPT !.greeted = TRUE, !.cookies = cookies]
      /\ \A h \in Handles \ {curl} : handle'[h] = handle[h]
  BY <1>1, <1>2 DEF TypeInv, TypeOK
<1>4. /\ handle'[curl].open /\ ~ handle'[curl].post /\ handle'[curl].loaded
      /\ handle'[curl].greeted /\ handle'[curl].sink = handle[curl].sink
      /\ handle'[curl].cookies = cookies
  BY <1>2, <1>3 DEF HandleStates
<1>5. Cookies = handle[curl].cookies
  BY <1>2, NoHandleAssumption DEF Cookies
<1>6. SameHandle /\ UNCHANGED <<report, table, streams>>
  BY <1>1, <1>3, <1>4, <1>5 DEF SameHandle, Fetch
<1>7. PICK line \in FetchedLine(cookies) : temp' = temp \cup {line}
  BY <1>1
<1>8. /\ line.fresh /\ line.of \in cookies \cup {Null}
      /\ handle[curl].greeted /\ cookies # {} => line.of # Null
  <2>1. CASE cookies # {} /\ handle[curl].greeted
    <3>1. line \in [of : cookies, fresh : {TRUE}]
      BY <2>1 DEF FetchedLine
    <3>2. line.of \in cookies /\ line.fresh
      BY <3>1
    <3>3. Null \notin cookies
      BY <1>1, CookiesType, NullAssumption DEF TypeInv
    <3> QED
      BY <3>2, <3>3
  <2>2. CASE ~ (cookies # {} /\ handle[curl].greeted)
    <3>1. line = [of |-> Null, fresh |-> TRUE]
      BY <2>2 DEF FetchedLine
    <3> QED
      BY <2>2, <3>1
  <2> QED
    BY <2>1, <2>2
<1> QED
  BY <1>4, <1>6, <1>7, <1>8

\* Opening a report, which is empty then.
LEMMA OpenInv ==
  ASSUME TypeInv, CallInv, NEW c, Callers = {c}, OpenReport(c) PROVE CallInv'
<1> DEFINE fp == FirstFree(streams)
           pc == IF call[c].range = 1 THEN "pseudo" ELSE "fetch"
           range == call[c].range
<1>0. call[c].pc = "open" /\ UNCHANGED <<jar, table, curl, session>> /\ temp' = {}
      /\ report' = [report EXCEPT ![range] = {}]
  BY DEF OpenReport, At
<1>1. /\ fp \in 1 .. Slots /\ 1 .. fp - 1 \subseteq streams /\ fp \in streams' /\ streams \subseteq streams'
      /\ SetOpt([handle[curl] EXCEPT !.sink = fp])
  BY OpenStreamsAre DEF OpenReport, OpenStreams
<1>2. /\ call'[c].pc = pc /\ call'[c].range = range /\ call'[c].fp = fp
      /\ call'[c].spared = call[c].spared
  <2>1. call[c] \in Calls
    BY DEF TypeInv, TypeOK
  <2> QED
    BY <2>1 DEF OpenReport, OpenStreams, TypeInv, TypeOK, Calls
<1> HIDE DEF fp
<1>3. Usable /\ curl \in Handles
  BY <1>0 DEF CallInv, HandleInv, Usable, TypeInv, TypeOK
<1>4. /\ SameHandle /\ handle'[curl].sink = fp /\ handle'[curl].cookies = handle[curl].cookies
      /\ handle'[curl].greeted = handle[curl].greeted
  <2>1. handle' = [handle EXCEPT ![curl] = [handle[curl] EXCEPT !.sink = fp]]
    BY <1>1, <1>3 DEF SetOpt, Usable
  <2>2. handle[curl].open /\ ~ handle[curl].post /\ handle[curl].loaded
    BY <1>0 DEF CallInv, HandleInv, Usable
  <2> QED
    BY <1>0, <1>3, <2>1, <2>2 DEF SameHandle, TypeInv, TypeOK, HandleStates
<1>5. HandleInv' /\ SessionInv'
  BY <1>0, <1>2, <1>4, SameHandleInv DEF ReportSteps
<1>6. StreamInv'
  BY <1>0, <1>1, <1>2, <1>4 DEF StreamInv
<1>7. range \in 1 .. Reports /\ Written(call[c]) = 1 .. range - 1 /\ Written(call'[c]) = 1 .. range
  BY <1>0, <1>2, WrittenIs DEF TypeInv, TypeOK, Calls
<1>8. \A i \in Written(call'[c]) : report'[i] = {} \/ (i \in Written(call[c]) /\ report'[i] = report[i])
  <2>1. ASSUME NEW i \in 1 .. range, i # range PROVE i \in 1 .. range - 1
    BY <1>7, ReportsAssumption, <2>1
  <2>2. \A i \in 1 .. range : i \in 1 .. Reports
    BY <1>7, ReportsAssumption
  <2> QED
    BY <1>0, <1>7, <2>1, <2>2 DEF TypeInv, TypeOK
<1>9. report'[range] = {}
  BY <1>0, <1>7 DEF TypeInv, TypeOK
<1> HIDE DEF range
<1>10. FreshInv'
  BY <1>0, <1>2, <1>8 DEF CallInv, FreshInv, At, ReportSteps
<1>11. SparedInv'
  BY <1>0, <1>2, <1>4, <1>8, <1>9 DEF range, CallInv, SparedInv, NoPageIn, At, ReportSteps
<1>12. OneSessionInv'
  BY <1>0, <1>2, <1>4, <1>8 DEF CallInv, OneSessionInv, ReportSteps
<1> QED
  BY <1>5, <1>6, <1>10, <1>11, <1>12 DEF CallInv
\* The pseudo transfer, whether it goes through or not.
LEMMA PseudoInv ==
  ASSUME TypeInv, CallInv, NEW c, Callers = {c}, PseudoFetch(c) PROVE CallInv'
<1> USE DEF ReportSteps, At
<1>0. call[c].pc = "pseudo" /\ call[c] \in Calls
  BY DEF PseudoFetch, TypeInv, TypeOK
<1>1. /\ call'[c].pc = "reopen" /\ call'[c].range = call[c].range /\ call'[c].fp = call[c].fp
      /\ Fetch(c) \/ (UNCHANGED <<card, process, session>> /\ call'[c].spared = call[c].spared)
  <2>1. CASE Fetch(c) /\ call' = [call EXCEPT ![c].pc = "reopen", ![c].spared = TRUE]
    BY <1>0, <2>1 DEF TypeInv, TypeOK, Calls
  <2>2. CASE Goto(c, "reopen") /\ UNCHANGED <<card, process, session, answer>>
    BY <2>2, GotoIs
  <2> QED
    BY <2>1, <2>2 DEF PseudoFetch
<1>2. Fetch(c) \/ (UNCHANGED <<card, process, session>> /\ call'[c].spared = call[c].spared)
  BY <1>1
<1>3. SameHandle /\ handle'[curl].sink = handle[curl].sink /\ UNCHANGED <<report, streams>>
  <2>1. CASE Fetch(c)
    BY <1>0, <2>1, FetchIs
  <2>2. CASE UNCHANGED <<card, process, session>>
    BY <1>0, <2>2, HandleLeftAlone DEF card, process
  <2> QED
    BY <1>2, <2>1, <2>2
<1>4. call'[c].spared => handle'[curl].greeted
  <2>1. CASE Fetch(c)
    BY <1>0, <2>1, FetchIs
  <2>2. CASE UNCHANGED <<card, process, session>> /\ call'[c].spared = call[c].spared
    BY <1>0, <2>2 DEF CallInv, SparedInv, card, process
  <2> QED
    BY <1>2, <2>1, <2>2
<1>5. \A l \in temp' : l.fresh
  <2>1. \A l \in temp : l.fresh
    BY <1>0 DEF CallInv, FreshInv
  <2>2. CASE Fetch(c)
    BY <1>0, <2>1, <2>2, FetchIs
  <2>3. CASE UNCHANGED <<card, process, session>>
    BY <2>1, <2>3 DEF card
  <2> QED
    BY <1>2, <2>2, <2>3
<1>6. HandleInv' /\ SessionInv'
  BY <1>0, <1>1, <1>3, SameHandleInv
<1>7. StreamInv'
  BY <1>0, <1>1, <1>3 DEF CallInv, StreamInv, SameHandle
<1>8. Written(call'[c]) = Written(call[c]) /\ Written(call[c]) = 1 .. call[c].range
  BY <1>0, <1>1, WrittenIs
<1>9. FreshInv'
  BY <1>0, <1>1, <1>3, <1>5, <1>8 DEF CallInv, FreshInv
<1>10. SparedInv'
  <2>1. call[c].range = 1 /\ report[1] = {}
    BY <1>0 DEF CallInv, SparedInv
  <2>2. \A i \in Written(call'[c]) : NoPageIn(report'[i])
    BY <1>3, <1>8, <2>1 DEF NoPageIn
  <2> QED
    BY <1>1, <1>3, <1>4, <2>2 DEF SparedInv, SameHandle
<1>11. OneSessionInv'
  BY <1>0, <1>1, <1>3, <1>8 DEF CallInv, OneSessionInv, SameHandle
<1> QED
  BY <1>6, <1>7, <1>9, <1>10, <1>11 DEF CallInv

\* afc_temp.csv is opened once more: it is the same entry, and the file is empty.
LEMMA ReopenInv ==
  ASSUME TypeInv, CallInv, NEW c, Callers = {c}, ReopenTemp(c) PROVE CallInv'
<1> USE DEF ReportSteps, At
<1>0. call[c].pc = "reopen" /\ call[c] \in Calls
  BY DEF ReopenTemp, TypeInv, TypeOK
<1>1. FirstFree(streams \ {call[c].fp}) = call[c].fp
  BY <1>0, ReopenFindsOne DEF TypeInv, StreamGiven, CallInv, StreamInv
<1>2. /\ call'[c].pc = "fetch" /\ call'[c].range = call[c].range /\ call'[c].fp = call[c].fp
      /\ call'[c].spared = call[c].spared
  BY <1>0, <1>1 DEF ReopenTemp, TypeInv, TypeOK, Calls
<1>3. call[c].fp \in streams' /\ temp' = {} /\ UNCHANGED <<jar, report, curl, handle, session>>
  BY <1>1 DEF ReopenTemp
<1>4. SameHandle
  BY <1>0, <1>3, HandleLeftAlone
<1>5. HandleInv' /\ SessionInv'
  BY <1>0, <1>2, <1>4, SameHandleInv
<1>6. StreamInv'
  BY <1>0, <1>2, <1>3 DEF CallInv, StreamInv
<1>7. Written(call'[c]) = Written(call[c])
  BY <1>0, <1>2, WrittenIs
<1>8. FreshInv'
  BY <1>0, <1>2, <1>3, <1>7 DEF CallInv, FreshInv
<1>9. SparedInv'
  BY <1>0, <1>2, <1>3, <1>7 DEF CallInv, SparedInv, NoPageIn
<1>10. OneSessionInv'
  BY <1>0, <1>2, <1>3, <1>7 DEF CallInv, OneSessionInv
<1> QED
  BY <1>5, <1>6, <1>8, <1>9, <1>10 DEF CallInv

\* The transfer of the report.
LEMMA FetchInv ==
  ASSUME TypeInv, CallInv, NEW c, Callers = {c}, FetchReport(c) PROVE CallInv'
<1> USE DEF ReportSteps, At
<1>0. call[c].pc = "fetch" /\ Fetch(c)
  BY DEF FetchReport
<1>1. /\ call'[c].pc = "convert" /\ call'[c].range = call[c].range
      /\ call'[c].spared = call[c].spared
  BY GotoIs DEF FetchReport
<1>2. SameHandle /\ UNCHANGED report
  BY <1>0, FetchIs
<1>3. PICK line : /\ temp' = temp \cup {line} /\ line.fresh
                  /\ line.of \in handle'[curl].cookies \cup {Null}
                  /\ handle[curl].greeted /\ handle'[curl].cookies # {} => line.of # Null
  BY <1>0, FetchIs
<1>4. HandleInv' /\ SessionInv'
  BY <1>0, <1>1, <1>2, SameHandleInv
<1>5. StreamInv'
  BY <1>1 DEF StreamInv
<1>6. Written(call'[c]) = Written(call[c])
  BY <1>0, <1>1, WrittenIs
<1>7. FreshInv'
  BY <1>0, <1>1, <1>2, <1>3, <1>6 DEF CallInv, FreshInv
<1>8. SparedInv'
  BY <1>0, <1>1, <1>2, <1>3, <1>6 DEF CallInv, SparedInv, NoPageIn, SameHandle
<1>9. OneSessionInv'
  BY <1>0, <1>1, <1>2, <1>3, <1>6 DEF CallInv, OneSessionInv, SameHandle
<1> QED
  BY <1>4, <1>5, <1>7, <1>8, <1>9 DEF CallInv

\* The conversion of a part of what was fetched, and the next time range.
LEMMA ConvertInv ==
  ASSUME TypeInv, CallInv, NEW c, Callers = {c}, ConvertReport(c) PROVE CallInv'
<1> USE DEF ReportSteps, At
<1> DEFINE range == call[c].range
<1>0. call[c].pc = "convert" /\ call[c] \in Calls /\ range \in 1 .. Reports
  BY DEF ConvertReport, TypeInv, TypeOK, Calls
<1>1. /\ call'[c].pc = IF range = Reports THEN "process" ELSE "open"
      /\ call'[c].range = NextRange(range) /\ call'[c].spared = call[c].spared
  BY <1>0 DEF ConvertReport, TypeInv, TypeOK, Calls
<1>2. UNCHANGED <<jar, temp, curl, handle, session>>
  BY DEF ConvertReport
<1>3. PICK part \in SUBSET temp : report' = [report EXCEPT ![range] = @ \cup part]
  BY DEF ConvertReport
<1>4. /\ report'[range] = report[range] \cup part
      /\ \A i \in 1 .. Reports : i # range => report'[i] = report[i]
  BY <1>0, <1>3 DEF TypeInv, TypeOK
<1>5. Written(call[c]) = 1 .. range
  BY <1>0, WrittenIs
<1>6. Written(call'[c]) = 1 .. range
  <2>1. CASE range = Reports
    BY <1>1, <2>1, WrittenIs
  <2>2. CASE range # Reports
    <3>1. call'[c].pc = "open" /\ call'[c].range = range + 1
      BY <1>1, <2>2 DEF NextRange
    <3>2. Written(call'[c]) = 1 .. (range + 1) - 1
      BY <3>1, WrittenIs
    <3> QED
      BY <1>0, <3>2, ReportsAssumption
  <2> QED
    BY <2>1, <2>2
<1>7. \A i \in 1 .. range : i \in 1 .. Reports
  BY <1>0, ReportsAssumption
<1>8. \A i \in 1 .. range : \A l \in report'[i] : l \in report[i] \/ l \in temp
  BY <1>4, <1>7
<1> HIDE DEF range
<1>9. SameHandle
  BY <1>0, <1>2, HandleLeftAlone
<1>10. HandleInv' /\ SessionInv'
  BY <1>0, <1>1, <1>9, SameHandleInv
<1>11. StreamInv'
  BY <1>1 DEF StreamInv
<1>12. FreshInv'
  BY <1>0, <1>1, <1>2, <1>5, <1>6, <1>8 DEF CallInv, FreshInv
<1>13. SparedInv'
  BY <1>0, <1>1, <1>2, <1>5, <1>6, <1>8 DEF CallInv, SparedInv, NoPageIn
<1>14. OneSessionInv'
  BY <1>0, <1>1, <1>2, <1>5, <1>6, <1>8 DEF CallInv, OneSessionInv
<1> QED
  BY <1>10, <1>11, <1>12, <1>13, <1>14 DEF CallInv
\* afc.csv: it is truncated, and takes the rows of all reports.
LEMMA TableInv ==
  ASSUME TypeInv, CallInv, NEW c, Callers = {c}, OpenTable(c) PROVE CallInv'
<1> USE DEF ReportSteps, At
<1>0. /\ call[c].pc = "process" /\ UNCHANGED <<jar, temp, report, curl, handle, session>>
      /\ call'[c].pc = "merge" /\ call'[c].spared = call[c].spared
  BY GotoIs DEF OpenTable, process
<1>1. HandleInv' /\ SessionInv'
  BY <1>0, HandleLeftAlone, SameHandleInv
<1>2. StreamInv'
  BY <1>0 DEF StreamInv
<1>3. Written(call'[c]) = Written(call[c])
  BY <1>0, WrittenIs
<1>4. FreshInv' /\ SparedInv'
  BY <1>0, <1>3 DEF CallInv, FreshInv, SparedInv, NoPageIn
<1>5. OneSessionInv'
  BY <1>0, <1>3 DEF CallInv, OneSessionInv
<1> QED
  BY <1>1, <1>2, <1>4, <1>5 DEF CallInv

\* The session the rows and the cookies are of, when afc.csv is written.
LEMMA RowsAreOf ==
  ASSUME TypeInv, CallInv, NEW c, Callers = {c}, WriteTable(c)
  PROVE  \E e \in session[c] :
           /\ Cookies = handle[curl].cookies /\ Cookies \subseteq {e}
           /\ \A l \in table' : l.of = e /\ l.fresh
<1>0. call[c].pc = "merge" /\ table' = {l \in UNION {report[i] : i \in 1 .. Reports} : l.of # Null}
  BY DEF WriteTable, At
<1>1. Written(call[c]) = 1 .. Reports
  BY <1>0, WrittenIs
<1>2. PICK e \in session[c] : /\ handle[curl].cookies \subseteq {e}
                              /\ \A i \in 1 .. Reports : \A l \in report[i] : l.of \in {e, Null}
  BY <1>0, <1>1 DEF CallInv, OneSessionInv, ReportSteps
<1>3. Cookies = handle[curl].cookies
  BY <1>0 DEF CallInv, HandleInv, Usable, Cookies
<1>4. \A i \in 1 .. Reports : \A l \in report[i] : l.fresh
  BY <1>0, <1>1 DEF CallInv, FreshInv, ReportSteps
<1> QED
  BY <1>0, <1>2, <1>3, <1>4

LEMMA WriteInv ==
  ASSUME TypeInv, CallInv, NEW c, Callers = {c}, WriteTable(c) PROVE CallInv'
<1> USE DEF ReportSteps, At
<1>0. /\ call[c].pc = "merge" /\ UNCHANGED <<jar, curl, handle>>
      /\ call' = [call EXCEPT ![c].pc = "cleanup", ![c].ret = 0]
      /\ session' = [session EXCEPT ![c] =
                       {e \in @ : Cookies \subseteq {e} /\ \A l \in table' : l.of = e}]
  BY DEF WriteTable, process
<1>1. call'[c].pc = "cleanup"
  BY <1>0 DEF TypeInv, TypeOK, Calls
<1>2. PICK e \in session[c] : Cookies \subseteq {e} /\ \A l \in table' : l.of = e /\ l.fresh
  BY RowsAreOf
<1>3. HandleInv' /\ StreamInv'
  BY <1>0, <1>1 DEF CallInv, HandleInv, StreamInv, Usable
<1>4. FreshInv' /\ SparedInv' /\ OneSessionInv'
  BY <1>1, <1>2 DEF FreshInv, SparedInv, OneSessionInv
<1>5. Cookies' = Cookies /\ Cookies \subseteq session'[c]
  BY <1>0, <1>2 DEF Cookies, TypeInv, TypeOK
<1>6. SessionInv'
  BY <1>0, <1>1, <1>5 DEF CallInv, SessionInv, AtMostOne
<1> QED
  BY <1>3, <1>4, <1>6 DEF CallInv

\* The end of a call: what is left of the session goes to the cookie file.
LEMMA CleanupInv ==
  ASSUME TypeInv, CallInv, NEW c, Callers = {c}, Cleanup(c) PROVE CallInv'
<1>0. /\ call[c].pc = "cleanup" /\ Usable /\ curl \in Handles
      /\ handle' = [handle EXCEPT ![curl] = Closed]
      /\ jar' \in {jar, {}, Cookies}
      /\ call' = [call EXCEPT ![c] = Returned] /\ session' = [session EXCEPT ![c] = {}]
  BY DEF Cleanup, At, CallInv, HandleInv, Usable, TypeInv, TypeOK
<1>1. call'[c].pc = "idle" /\ call'[c].range = 1 /\ ~ call'[c].spared /\ session'[c] = {}
  BY <1>0 DEF Returned, TypeInv, TypeOK
<1>2. HandleInv'
  BY <1>1 DEF HandleInv, At
<1>3. AtMostOne(jar) /\ AtMostOne(Cookies) /\ \A h \in Handles : AtMostOne(handle[h].cookies)
  BY <1>0 DEF Cookies, CallInv, SessionInv, AtMostOne
<1>4. AtMostOne(jar') /\ \A h \in Handles : AtMostOne(handle'[h].cookies)
  BY <1>0, <1>3 DEF Closed, AtMostOne, TypeInv, TypeOK
<1>5. SessionInv'
  BY <1>1, <1>4 DEF SessionInv, AtMostOne
<1> QED
  BY <1>1, <1>2, <1>5, InLogin

\* Every step of the one caller keeps the invariant.
LEMMA NextInv ==
  ASSUME NEW c, Callers = {c}, TypeInv, CallInv, [Next]_vars PROVE CallInv'
<1>1. CASE ProcessDies
  BY <1>1, DiesInv
<1>2. CASE UNCHANGED vars
  BY <1>2
  DEF vars, card, process, CallInv, HandleInv, StreamInv, FreshInv, SparedInv, SessionInv,
      OneSessionInv, At, Usable, Cookies
<1>3. CASE FetchReports(c)
  BY <1>3, OpenInv, PseudoInv, ReopenInv, FetchInv, ConvertInv DEF FetchReports
<1>4. CASE \/ \E typed \in Typed : Call(c, typed)
           \/ CurlLocalInit(c) \/ InitFails(c) \/ Login(c)
           \/ OpenTable(c) \/ WriteTable(c) \/ Cleanup(c)
  BY <1>4, StartInv, CurlInitInv, LoginInv, TableInv, WriteInv, CleanupInv
<1> QED
  BY <1>1, <1>2, <1>3, <1>4 DEF Next

\* With one caller, a report transfer always writes to an open stream of the table, the
\* one the call converts: WRITEDATA was set to the stream before it was reopened.
THEOREM SinkStaysOpen == ASSUME NEW c, Callers = {c} PROVE Spec => []SinkOpen
<1>1. Spec => [](TypeInv /\ CallInv)
  BY InitType, NextType, InitInv, NextInv, PTL DEF Spec
<1>2. CallInv => SinkOpen
  BY DEF CallInv, StreamInv, SinkOpen, ReportTransfers
<1> QED
  BY <1>1, <1>2, PTL
\* With one caller, the e-mail address and the password go to Google's login and nowhere
\* else: no other transfer finds the handle set to POST.
THEOREM PasswordSentOnce == ASSUME NEW c, Callers = {c} PROVE Spec => []PasswordOnlyToLogin
<1>1. Spec => [](TypeInv /\ CallInv)
  BY InitType, NextType, InitInv, NextInv, PTL DEF Spec
<1>2. CallInv => PasswordOnlyToLogin
  BY DEF CallInv, HandleInv, PasswordOnlyToLogin, Transfers, LoginTransfers, ReportTransfers
<1> QED
  BY <1>1, <1>2, PTL

\* With one caller, all rows of afc.csv were fetched by the call that succeeds, however
\* many time ranges there are and whichever conversions failed.
THEOREM RowsAreFresh == ASSUME NEW c, Callers = {c} PROVE Spec => []RowsOfThisCall
<1>1. Spec => [](TypeInv /\ CallInv)
  BY InitType, NextType, InitInv, NextInv, PTL DEF Spec
<1>2. CallInv => RowsOfThisCall
  BY DEF CallInv, FreshInv, RowsOfThisCall
<1> QED
  BY <1>1, <1>2, PTL

\* With one caller, the pseudo transfer spares all reports the main page of the site, if
\* it went through and the session lasts.
THEOREM PseudoSpares == ASSUME NEW c, Callers = {c} PROVE Spec => []PseudoSparesReports
<1>1. Spec => [](TypeInv /\ CallInv)
  BY InitType, NextType, InitInv, NextInv, PTL DEF Spec
<1>2. CallInv => PseudoSparesReports
  <2> SUFFICES ASSUME CallInv, At(c, "process"), call[c].spared, handle[curl].cookies # {}
               PROVE  \A i \in 1 .. Reports : NoPageIn(report[i])
    BY DEF PseudoSparesReports, NoPageIn
  <2>1. Written(call[c]) = 1 .. Reports
    BY WrittenIs DEF At
  <2> QED
    BY <2>1 DEF CallInv, SparedInv, ReportSteps, At
<1> QED
  BY <1>1, <1>2, PTL
-----------------------------------------------------------------------------
(* One caller: the steps of a call are the steps of ReportCall. *)

\* Where a call is, step by step.
LEMMA PhaseIs ==
  ASSUME NEW k
  PROVE  /\ k.pc = "idle" => Phase(k) = "idle"
         /\ k.pc \in {"init", "LOGIN_URL"} => Phase(k) = "call"
         /\ k.pc = "merge" => Phase(k) = "writing"
         /\ k.pc = "cleanup" /\ k.ret = 0 => Phase(k) = "closing"
         /\ k.pc = "cleanup" /\ k.ret # 0 => Phase(k) = "calling"
         /\ k.pc \in AfterLoginURL \cup (ReportSteps \ {"merge"}) => Phase(k) = "calling"
BY DEF Phase, AfterLoginURL, ReportSteps

\* The one caller is the caller of the contract.
LEMMA CallerIs == ASSUME NEW c, Callers = {c} PROVE TheCaller = c
BY DEF TheCaller

\* A step that changes nothing the contract sees.
LEMMA Stutters ==
  ASSUME NEW c, Callers = {c}, UNCHANGED <<jar, table, session, answer>>,
         Phase(call'[c]) = Phase(call[c]), call'[c].cred = call[c].cred
  PROVE  UNCHANGED Contract!vars
BY CallerIs DEF Contract!vars

\* The first state.
LEMMA InitContract == ASSUME NEW c, Callers = {c}, Init PROVE Contract!Init
<1>1. call[c].pc = "idle" /\ call[c].cred = NoAccount
  BY DEF Init, Returned
<1> QED
  BY <1>1, CallerIs, PhaseIs DEF Init, Contract!Init, Contract!NoAccount, NoAccount
\* The start of a call.
LEMMA StartContract ==
  ASSUME TypeInv, NEW c, Callers = {c}, NEW typed \in Typed, Call(c, typed)
  PROVE  Contract!Next
<1>1. call[c].pc = "idle" /\ call'[c].pc = "init" /\ call'[c].cred = typed
  BY DEF Call, At, Returned, TypeInv, TypeOK
<1>2. \/ jar' = {} /\ table' = {}
      \/ jar' = jar /\ {l.of : l \in table'} = {l.of : l \in table}
  <2>1. ASSUME NEW lines \in SUBSET Lines PROVE {l.of : l \in Aged(lines)} = {l.of : l \in lines}
    <3>1. \A l \in lines : [l EXCEPT !.fresh = FALSE].of = l.of
      BY DEF Lines
    <3> QED
      BY <3>1 DEF Aged
  <2> QED
    BY <2>1 DEF Call, TypeInv, TypeOK
<1>3. Contract!Call(typed)
  BY <1>1, <1>2, CallerIs, PhaseIs DEF Call, Contract!Call
<1>4. typed \in Contract!Credentials
  BY CallTypedAssumption DEF Credentials, Contract!Credentials
<1> QED
  BY <1>3, <1>4 DEF Contract!Next

\* curl_local_init does nothing the contract sees, and its failure is status 1.
LEMMA CurlInitContract ==
  ASSUME TypeInv, CallInv, NEW c, Callers = {c}, CurlLocalInit(c) \/ InitFails(c)
  PROVE  [Contract!Next]_Contract!vars
<1>1. CASE CurlLocalInit(c)
  <2>1. /\ call[c].pc = "init" /\ call'[c].pc = "LOGIN_URL" /\ call'[c].cred = call[c].cred
        /\ UNCHANGED <<jar, table, session, answer>>
    BY <1>1, GotoIs DEF CurlLocalInit, At, card
  <2> QED
    BY <2>1, PhaseIs, Stutters
<1>2. CASE InitFails(c)
  <2>1. /\ call[c].pc = "init" /\ call'[c].pc = "idle" /\ call'[c].cred = NoAccount
        /\ answer'[c] = InitFailed /\ UNCHANGED <<jar, table, session>>
    BY <1>2 DEF InitFails, At, Returned, card, TypeInv, TypeOK
  <2>2. session[c] = {}
    BY <2>1 DEF CallInv, SessionInv
  <2> QED
    BY <2>1, <2>2, CallerIs, PhaseIs
    DEF Contract!Next, Contract!InitFails, Contract!Return, Contract!InitFailed, InitFailed,
        Contract!NoAccount, NoAccount
<1> QED
  BY <1>1, <1>2

\* The first transfer: from here on it is known which sessions the call can run under.
LEMMA EnterContract ==
  ASSUME TypeInv, NEW c, Callers = {c}, At(c, "LOGIN_URL"),
         call'[c].pc = "form?" \/ (call'[c].pc = "cleanup" /\ call'[c].ret # 0),
         call'[c].cred = call[c].cred, UNCHANGED <<jar, table, answer>>,
         session' = [session EXCEPT ![c] = SignIns(jar, call[c].cred)]
  PROVE  Contract!Next
<1>1. Phase(call[c]) = "call" /\ Phase(call'[c]) = "calling"
  BY PhaseIs DEF At, AfterLoginURL
<1>2. session'[c] = SignIns(jar, call[c].cred)
  BY DEF TypeInv, TypeOK
<1>3. SignIns(jar, call[c].cred) = Contract!SignIns(jar, call[c].cred)
  BY DEF SignIns, OwnSession, Contract!SignIns, Contract!OwnSession
<1> QED
  BY <1>1, <1>2, <1>3, CallerIs DEF Contract!Next, Contract!EnterCall

\* The login, and a transfer that fails.
LEMMA LoginContract ==
  ASSUME TypeInv, CallInv, NEW c, Callers = {c}, Login(c)
  PROVE  [Contract!Next]_Contract!vars
<1> USE DEF LoginTransfers, ReportTransfers, Transfers, At
<1>1. UNCHANGED <<jar, table, answer>>
  BY DEF Login, AskLoginBox, FindForm, ProbeSession, CheckProbe, PostCredentials, CheckPost,
         CheckCookie, AskHome, CheckHome, TransferFails, Ask, card
<1>2. CASE AskLoginBox(c)
  <2>1. call[c].pc = "LOGIN_URL" /\ call'[c].pc = "form?" /\ call'[c].cred = call[c].cred
    BY <1>2, GotoIs DEF AskLoginBox, Ask
  <2> QED
    BY <1>1, <1>2, <2>1, EnterContract DEF AskLoginBox
<1>3. CASE TransferFails(c)
  <2>1. call'[c].pc = "cleanup" /\ call'[c].ret # 0 /\ call'[c].cred = call[c].cred
    <3>1. Leave(c, TransferError)
      BY <1>3 DEF TransferFails
    <3>2. TransferError # 0
      BY DEF TransferError
    <3> QED
      BY <3>1, <3>2, LeaveIs
  <2>2. CASE call[c].pc = "LOGIN_URL"
    BY <1>1, <1>3, <2>1, <2>2, EnterContract DEF TransferFails
  <2>3. CASE call[c].pc # "LOGIN_URL"
    <3>1. session' = session /\ call[c].pc \in AfterLoginURL \cup (ReportSteps \ {"merge"})
      BY <1>3, <2>3 DEF TransferFails, AfterLoginURL, ReportSteps
    <3> QED
      BY <1>1, <2>1, <3>1, PhaseIs, Stutters
  <2> QED
    BY <2>2, <2>3
<1>4. CASE \/ FindForm(c) \/ ProbeSession(c) \/ CheckProbe(c) \/ PostCredentials(c)
           \/ CheckPost(c) \/ CheckCookie(c) \/ AskHome(c) \/ CheckHome(c)
  <2>1. /\ \/ \E next \in AfterLoginURL \cup {"open"} : Goto(c, next)
           \/ \E ret \in {NotSignedIn, TransferError} : Leave(c, ret)
        /\ call[c].pc \in AfterLoginURL /\ session' = session
    BY <1>4 DEF FindForm, ProbeSession, CheckProbe, PostCredentials, CheckPost, CheckCookie,
                AskHome, CheckHome, Ask, AfterLoginURL
  <2>2. /\ \/ call'[c].pc \in AfterLoginURL \cup {"open"}
           \/ call'[c].pc = "cleanup" /\ call'[c].ret # 0
        /\ call'[c].cred = call[c].cred
    BY <2>1, GotoIs, LeaveIs DEF NotSignedIn, TransferError
  <2>3. Phase(call[c]) = "calling" /\ Phase(call'[c]) = "calling"
    BY <2>1, <2>2, PhaseIs DEF ReportSteps
  <2> QED
    BY <1>1, <2>1, <2>2, <2>3, Stutters
<1> QED
  BY <1>2, <1>3, <1>4 DEF Login

\* The reports are fetched: nothing the contract sees.
LEMMA ReportsContract ==
  ASSUME TypeInv, NEW c, Callers = {c}, FetchReports(c)
  PROVE  UNCHANGED Contract!vars
<1>1. UNCHANGED <<jar, table, session, answer>>
  BY DEF FetchReports, OpenReport, PseudoFetch, ReopenTemp, FetchReport, ConvertReport, Fetch, card
<1>2. call[c] \in Calls /\ call \in [Callers -> Calls]
  BY DEF TypeInv, TypeOK
<1>3. call[c].pc \in ReportSteps \ {"process", "merge"}
  BY DEF FetchReports, OpenReport, PseudoFetch, ReopenTemp, FetchReport, ConvertReport, At,
         ReportSteps
<1>4. call'[c].pc \in ReportSteps \ {"merge"} /\ call'[c].cred = call[c].cred
  <2>1. CASE OpenReport(c)
    BY <1>2, <2>1 DEF OpenReport, OpenStreams, Calls, ReportSteps
  <2>2. CASE PseudoFetch(c)
    BY <1>2, <2>2 DEF PseudoFetch, Goto, Calls, ReportSteps
  <2>3. CASE ReopenTemp(c)
    BY <1>2, <2>3 DEF ReopenTemp, Calls, ReportSteps
  <2>4. CASE FetchReport(c)
    BY <2>4, GotoIs DEF FetchReport, ReportSteps
  <2>5. CASE ConvertReport(c)
    BY <1>2, <2>5 DEF ConvertReport, Calls, ReportSteps
  <2> QED
    BY <2>1, <2>2, <2>3, <2>4, <2>5 DEF FetchReports
<1>5. Phase(call[c]) = "calling" /\ Phase(call'[c]) = "calling"
  BY <1>3, <1>4, PhaseIs
<1> QED
  BY <1>1, <1>4, <1>5, Stutters

\* afc.csv is truncated by a call that is signed in.
LEMMA TableContract ==
  ASSUME TypeInv, CallInv, NEW c, Callers = {c}, OpenTable(c)
  PROVE  Contract!Next
<1>1. /\ call[c].pc = "process" /\ call'[c].pc = "merge" /\ call'[c].cred = call[c].cred
      /\ table' = {} /\ UNCHANGED <<jar, session, answer>>
  BY GotoIs DEF OpenTable, At
<1>2. session[c] # {}
  BY <1>1 DEF CallInv, OneSessionInv, ReportSteps
<1>3. Phase(call[c]) = "calling" /\ Phase(call'[c]) = "writing"
  BY <1>1, PhaseIs DEF ReportSteps
<1> QED
  BY <1>1, <1>2, <1>3, CallerIs DEF Contract!Next, Contract!BeginTable

\* The rows are of one session, which is the one the cookies are of.
LEMMA WriteContract ==
  ASSUME TypeInv, CallInv, NEW c, Callers = {c}, WriteTable(c)
  PROVE  Contract!Next
<1> DEFINE accounts == {l.of : l \in table'}
<1>1. /\ call[c].pc = "merge" /\ call[c] \in Calls /\ UNCHANGED <<jar, answer>>
      /\ call' = [call EXCEPT ![c].pc = "cleanup", ![c].ret = 0]
      /\ session'[c] = {e \in session[c] : Cookies \subseteq {e} /\ \A l \in table' : l.of = e}
  BY DEF WriteTable, At, TypeInv, TypeOK
<1>2. call'[c].pc = "cleanup" /\ call'[c].ret = 0 /\ call'[c].cred = call[c].cred
  BY <1>1 DEF TypeInv, TypeOK, Calls
<1>3. Phase(call[c]) = "writing" /\ Phase(call'[c]) = "closing"
  BY <1>1, <1>2, PhaseIs
<1>4. PICK e \in session[c] : Cookies \subseteq {e} /\ \A l \in table' : l.of = e /\ l.fresh
  BY RowsAreOf
<1>5. \/ \E d \in session[c] : session'[c] = {d} /\ accounts \in {{}, {d}}
      \/ session'[c] = session[c] /\ accounts = {}
  <2>1. CASE Cookies = {} /\ table' = {}
    BY <1>1, <2>1
  <2>2. CASE Cookies # {} \/ table' # {}
    <3>1. session'[c] = {e}
      BY <1>1, <1>4, <2>2
    <3>2. accounts \in {{}, {e}}
      BY <1>4
    <3> QED
      BY <3>1, <3>2
  <2> QED
    BY <2>1, <2>2
<1> QED
  BY <1>1, <1>2, <1>3, <1>5, CallerIs DEF Contract!Next, Contract!CloseTable

\* The end of the call, and what the cookie file can hold then.
LEMMA CleanupContract ==
  ASSUME TypeInv, CallInv, NEW c, Callers = {c}, Cleanup(c)
  PROVE  Contract!Next
<1>1. /\ call[c].pc = "cleanup" /\ call[c] \in Calls /\ curl # NoHandle /\ handle[curl].open
      /\ UNCHANGED table
  BY DEF Cleanup, At, CallInv, HandleInv, Usable, TypeInv, TypeOK
<1>2. /\ jar' \in IF Cookies = {} THEN {jar, {}} ELSE {Cookies}
      /\ call'[c] = Returned /\ session'[c] = {} /\ answer'[c] = call[c].ret
  BY <1>1 DEF Cleanup, TypeInv, TypeOK
<1>3. AtMostOne(Cookies) /\ Cookies \subseteq session[c]
  BY <1>1 DEF Cookies, CallInv, SessionInv, Usable, AtMostOne, TypeInv, TypeOK
<1>4. jar' \in Contract!JarsAfter(jar, session[c])
  <2>1. Cookies # {} => \E e \in session[c] : Cookies = {e}
    BY <1>3 DEF AtMostOne
  <2> QED
    BY <1>2, <2>1 DEF Contract!JarsAfter
<1>5. Phase(call'[c]) = "idle" /\ call'[c].cred = Contract!NoAccount
  BY <1>2, PhaseIs DEF Returned, NoAccount, Contract!NoAccount
<1>6. CASE call[c].ret = 0
  <2>1. Phase(call[c]) = "closing"
    BY <1>1, <1>6, PhaseIs
  <2>2. Contract!FinishCall
    BY <1>1, <1>2, <1>4, <1>5, <1>6, <2>1, CallerIs DEF Contract!FinishCall, Contract!Return
  <2> QED
    BY <2>2 DEF Contract!Next
<1>7. CASE call[c].ret # 0
  <2>1. Phase(call[c]) = "calling" /\ call[c].ret \in {NotSignedIn, TransferError}
    BY <1>1, <1>7, PhaseIs DEF Calls
  <2>2. Contract!FailCall
    BY <1>1, <1>2, <1>4, <1>5, <2>1, CallerIs
    DEF Contract!FailCall, Contract!Return, Contract!NotSignedIn, NotSignedIn,
        Contract!TransferError, TransferError
  <2> QED
    BY <2>2 DEF Contract!Next
<1> QED
  BY <1>6, <1>7

\* Every step of the one caller is a step of the contract, or changes nothing it sees.
LEMMA NextContract ==
  ASSUME NEW c, Callers = {c}, TypeInv, CallInv, [Next]_vars
  PROVE  [Contract!Next]_Contract!vars
<1>1. CASE ProcessDies
  <2>1. /\ call'[c] = Returned /\ session'[c] = {} /\ answer'[c] = 0 /\ UNCHANGED <<jar, table>>
    BY <1>1 DEF ProcessDies, NewProcess, card
  <2>2. Contract!ProcessDies
    BY <2>1, CallerIs, PhaseIs
    DEF Contract!ProcessDies, Returned, NoAccount, Contract!NoAccount
  <2> QED
    BY <2>2 DEF Contract!Next
<1>2. CASE UNCHANGED vars
  BY <1>2, Stutters DEF vars, card
<1>3. CASE FetchReports(c)
  BY <1>3, ReportsContract
<1>4. CASE \/ \E typed \in Typed : Call(c, typed)
           \/ CurlLocalInit(c) \/ InitFails(c) \/ Login(c)
           \/ OpenTable(c) \/ WriteTable(c) \/ Cleanup(c)
  BY <1>4, StartContract, CurlInitContract, LoginContract, TableContract, WriteContract,
     CleanupContract
<1> QED
  BY <1>1, <1>2, <1>3, <1>4 DEF Next

\* With one caller, the native library keeps the contract that AccountSetup relies on: a
\* call signs in to an open session or to its own account, and leaves cookies and rows
\* of one of them, whatever the servers answer and wherever it fails.
THEOREM LibraryKeepsContract == ASSUME NEW c, Callers = {c} PROVE Spec => CallKeepsContract
<1>1. Init => Contract!Init
  BY InitContract
<1>2. TypeInv /\ CallInv /\ [Next]_vars => [Contract!Next]_Contract!vars
  BY NextContract
<1>3. Spec => [](TypeInv /\ CallInv)
  BY InitType, NextType, InitInv, NextInv, PTL DEF Spec
<1> QED
  BY <1>1, <1>2, <1>3, PTL DEF Spec, CallKeepsContract, Contract!Spec
=============================================================================
