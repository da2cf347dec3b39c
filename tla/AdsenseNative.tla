--------------------------- MODULE AdsenseNative ---------------------------
(***************************************************************************)
(* The native library: one call of genAdsenseReports, transfer by          *)
(* transfer.  adsense_login signs in through Google's login box,           *)
(* get_adsense_reports fetches one report per time range and converts it,  *)
(* process_adsense_reports merges the reports into afc.csv, and            *)
(* curl_easy_cleanup saves the cookies.                                    *)
(*                                                                         *)
(* The handle, the response buffer and the FILE table belong to the        *)
(* process: callers on several threads share them, and nothing locks them. *)
(* A transfer is one step; what the servers answer is in Answers.          *)
(***************************************************************************)
EXTENDS CallContract, Naturals

CONSTANTS Callers,    \* threads that can be inside the library (a bound)
          Handles,    \* curl handles that can be open at once (a bound)
          NoHandle,   \* NULL
          Typed,      \* the credentials callers bring
          Reports,    \* number of time ranges, 6 in the code (a bound)
          Slots       \* size of the FILE table (a bound)

ASSUME NoHandleAssumption == NoHandle \notin Handles
ASSUME CallTypedAssumption == Typed \subseteq Credentials
ASSUME ReportsAssumption == Reports \in Nat \ {0}
ASSUME SlotsAssumption == Slots \in Nat

VARIABLES jar,       \* the session cookies.txt holds
          temp,      \* afc_temp.csv
          report,    \* the report of each time range
          table,     \* afc.csv
          curl,      \* the global handle
          handle,    \* the handles
          page,      \* the response buffer of adsense_login
          streams,   \* the open entries of the FILE table
          call,      \* the callers
          session,   \* history: the sessions a call can be signed in to
          answer     \* what the last call of each caller answered

card == <<jar, temp, report, table>>
process == <<curl, handle, page, streams>>
vars == <<card, process, call, session, answer>>

\* What a line of a report tells: whose it is (Null: a page of the web site
\* and no report) and whether it was fetched since the last call began.
Lines == [of : Emails \cup {Null}, fresh : BOOLEAN]

Aged(lines) == {[l EXCEPT !.fresh = FALSE] : l \in lines}

\* post: the handle sends a POST, with the credentials.  loaded: it has read the
\* cookie file.  greeted: the site has shown this session its main page.  sink:
\* where WRITEDATA points to, an entry of the FILE table or (0) the buffer.
HandleStates == [open : BOOLEAN, post : BOOLEAN, loaded : BOOLEAN,
                 cookies : SUBSET Emails, greeted : BOOLEAN, sink : 0 .. Slots]

Closed == [open |-> FALSE, post |-> FALSE, loaded |-> FALSE,
           cookies |-> {}, greeted |-> FALSE, sink |-> 0]

\* The transfers, by the constant of adsensejni.h that names their URL.
LoginTransfers == {"LOGIN_URL", "probe STAGE4", "STAGE2", "STAGE3", "STAGE4"}
ReportTransfers == {"pseudo", "fetch"}
Transfers == LoginTransfers \cup ReportTransfers

Steps == Transfers \cup
  {"idle", "init", "form?", "open session?", "refused?", "signed in?", "open",
   "reopen", "convert", "process", "merge", "cleanup"}

\* range: the time range it is at.  fp, fpreal: its streams.  spared: history, the
\* pseudo transfer of the first report went through.
Calls == [pc : Steps, cred : Typed \cup {NoAccount}, range : 1 .. Reports,
          fp : 0 .. Slots, fpreal : 0 .. Slots, spared : BOOLEAN,
          ret : {0, NotSignedIn, TransferError}]

Returned == [pc |-> "idle", cred |-> NoAccount, range |-> 1, fp |-> 0, fpreal |-> 0,
             spared |-> FALSE, ret |-> 0]

TypeOK ==
  /\ jar \in SUBSET Emails /\ temp \in SUBSET Lines /\ table \in SUBSET Lines
  /\ report \in [1 .. Reports -> SUBSET Lines]
  /\ curl \in Handles \cup {NoHandle}
  /\ handle \in [Handles -> HandleStates]
  /\ page \in {"none", "form", "refused", "signed in", "other"}
  /\ streams \in SUBSET (1 .. Slots)
  /\ call \in [Callers -> Calls]
  /\ session \in [Callers -> SUBSET Emails]
  /\ answer \in [Callers -> {0, InitFailed, NotSignedIn, TransferError}]

NewProcess ==
  /\ curl' = NoHandle /\ handle' = [h \in Handles |-> Closed]
  /\ page' = "none" /\ streams' = {}
  /\ call' = [c \in Callers |-> Returned]
  /\ session' = [c \in Callers |-> {}]
  /\ answer' = [c \in Callers |-> 0]

Init ==
  /\ jar = {} /\ temp = {} /\ table = {} /\ report = [i \in 1 .. Reports |-> {}]
  /\ curl = NoHandle /\ handle = [h \in Handles |-> Closed]
  /\ page = "none" /\ streams = {}
  /\ call = [c \in Callers |-> Returned]
  /\ session = [c \in Callers |-> {}]
  /\ answer = [c \in Callers |-> 0]
-----------------------------------------------------------------------------
At(c, pc) == call[c].pc = pc

Goto(c, pc) == call' = [call EXCEPT ![c].pc = pc]

\* On to the cleanup with this answer.
Leave(c, ret) == call' = [call EXCEPT ![c].pc = "cleanup", ![c].ret = ret]

Busy(c) == ~ At(c, "idle")

\* The handle is there and was not cleaned up.
Usable == curl # NoHandle /\ handle[curl].open

\* curl_easy_setopt: without a handle it does nothing, and with one that was
\* cleaned up all that is left is the end of the process.
SetOpt(options) ==
  IF curl = NoHandle THEN UNCHANGED handle
  ELSE Usable /\ handle' = [handle EXCEPT ![curl] = options]

\* The first transfer of a handle reads the cookie file.
Cookies == IF curl = NoHandle THEN {}
           ELSE IF handle[curl].loaded THEN handle[curl].cookies ELSE jar

\* The caller's side: AccountSetupCheckSettings.run deletes the directory, or
\* does not, and calls.
Call(c, typed) ==
  /\ At(c, "idle")
  /\ call' = [call EXCEPT ![c] = [Returned EXCEPT !.pc = "init", !.cred = typed]]
  /\ \/ /\ jar' = {} /\ temp' = {} /\ table' = {}
        /\ report' = [i \in 1 .. Reports |-> {}]
     \/ /\ temp' = Aged(temp) /\ table' = Aged(table)
        /\ report' = [i \in 1 .. Reports |-> Aged(report[i])]
        /\ UNCHANGED jar
  /\ UNCHANGED <<process, session, answer>>

\* curl_local_init: the new handle takes the place of the one before.
CurlLocalInit(c) ==
  /\ At(c, "init")
  /\ \E h \in Handles :
       /\ ~ handle[h].open
       /\ curl' = h
       /\ handle' = [handle EXCEPT ![h] = [Closed EXCEPT !.open = TRUE]]
  /\ Goto(c, "LOGIN_URL")
  /\ UNCHANGED <<card, page, streams, session, answer>>

\* It fails: status 1, after a cleanup of NULL, which does nothing.
InitFails(c) ==
  /\ At(c, "init")
  /\ curl' = NoHandle
  /\ call' = [call EXCEPT ![c] = Returned]
  /\ answer' = [answer EXCEPT ![c] = InitFailed]
  /\ UNCHANGED <<card, handle, page, streams, session>>
-----------------------------------------------------------------------------
(* adsense_login. *)

\* What the server answers to a transfer under these cookies: the page, and the
\* cookies afterwards.  Any answer can end the session.
Answers(transfer, cookies, cred) ==
  LET kept == {cookies, {}}
      home == [page : {"signed in"}, cookies : {cookies} \ {{}}]
              \cup [page : {"other"}, cookies : kept]
  IN CASE transfer = "LOGIN_URL" -> [page : {"form", "other"}, cookies : kept]
       [] transfer \in {"probe STAGE4", "STAGE4"} -> home
       [] transfer = "STAGE2" ->
            [page : {"refused", "other"}, cookies : kept]
            \cup [page : {"other"}, cookies : {{e} : e \in OwnSession(cred)}]
       [] transfer = "STAGE3" -> [page : {"other"}, cookies : kept]

\* A transfer of the login whose page goes to the response buffer.
Ask(c, transfer, next, options) ==
  /\ At(c, transfer)
  /\ Usable
  /\ \E a \in Answers(transfer, Cookies, call[c].cred) :
       /\ page' = a.page
       /\ handle' = [handle EXCEPT ![curl] =
                       [options EXCEPT !.sink = 0, !.loaded = TRUE, !.cookies = a.cookies]]
  /\ Goto(c, next)
  /\ UNCHANGED <<card, curl, streams, answer>>

\* Stage 1: the login box.
AskLoginBox(c) ==
  /\ Ask(c, "LOGIN_URL", "form?", handle[curl])
  /\ session' = [session EXCEPT ![c] = SignIns(jar, call[c].cred)]

\* A form asks for a POST; without one this may be an open session.
FindForm(c) ==
  /\ At(c, "form?")
  /\ Goto(c, IF page = "form" THEN "STAGE2" ELSE "probe STAGE4")
  /\ UNCHANGED <<card, process, session, answer>>

ProbeSession(c) == Ask(c, "probe STAGE4", "open session?", handle[curl]) /\ UNCHANGED session

\* Mutant: whoever needs no form is taken for signed in.
TrustProbe(c) ==
  /\ At(c, "open session?")
  /\ Goto(c, "open")
  /\ UNCHANGED <<card, process, session, answer>>

\* The sign-out link of the home page tells a session from none: status 2.
CheckProbe(c) ==
  /\ At(c, "open session?")
  /\ IF page = "signed in" THEN Goto(c, "open") ELSE Leave(c, NotSignedIn)
  /\ UNCHANGED <<card, process, session, answer>>

\* Stage 2: the credentials.
PostCredentials(c) ==
  /\ Ask(c, "STAGE2", "refused?", [handle[curl] EXCEPT !.post = TRUE])
  /\ UNCHANGED session

\* Mutant: the handle is not set back to GET.
CheckPostKeepsPost(c) ==
  /\ At(c, "refused?")
  /\ IF page = "refused" THEN Leave(c, TransferError) ELSE Goto(c, "STAGE3")
  /\ UNCHANGED <<card, process, session, answer>>

\* The page of a refusal: adsense_login returns 1, "an uncommon curl error",
\* and its caller 1000.  Otherwise back to GET; the body of the POST is freed.
CheckPost(c) ==
  /\ At(c, "refused?")
  /\ IF page = "refused"
     THEN Leave(c, TransferError) /\ UNCHANGED handle
     ELSE Goto(c, "STAGE3") /\ SetOpt([handle[curl] EXCEPT !.post = FALSE])
  /\ UNCHANGED <<card, curl, page, streams, session, answer>>

\* Stages 3 and 4: Google's cookie check, AdSense's home page.
CheckCookie(c) == Ask(c, "STAGE3", "STAGE4", handle[curl]) /\ UNCHANGED session
AskHome(c) == Ask(c, "STAGE4", "signed in?", handle[curl]) /\ UNCHANGED session

CheckHome(c) ==
  /\ At(c, "signed in?")
  /\ IF page = "signed in" THEN Goto(c, "open") ELSE Leave(c, TransferError)
  /\ UNCHANGED <<card, process, session, answer>>

\* A transfer of the login, or of a report, ends with a curl error (without a
\* handle it always does): 1000.  The streams of a report stay open.
TransferFails(c) ==
  /\ call[c].pc \in Transfers \ {"pseudo"}
  /\ curl = NoHandle \/ Usable
  /\ Leave(c, TransferError)
  /\ session' = IF At(c, "LOGIN_URL")
                THEN [session EXCEPT ![c] = SignIns(jar, call[c].cred)] ELSE session
  /\ UNCHANGED <<card, process, answer>>
-----------------------------------------------------------------------------
(* get_adsense_reports. *)

\* fopen takes the first free entry of the FILE table.
FreeSlots(open) == (1 .. Slots) \ open
FirstFree(open) == CHOOSE s \in FreeSlots(open) : \A r \in FreeSlots(open) : s <= r

\* fopen twice, and WRITEDATA for the first of the two.  (Without a free entry,
\* a NULL stream is written to: the process ends.)
OpenStreams(c) ==
  LET fp == FirstFree(streams)
      fpreal == FirstFree(streams \cup {fp})
  IN /\ FreeSlots(streams) # {} /\ FreeSlots(streams \cup {fp}) # {}
     /\ streams' = streams \cup {fp, fpreal}
     /\ SetOpt([handle[curl] EXCEPT !.sink = fp])
     /\ call' = [call EXCEPT ![c].pc = IF call[c].range = 1 THEN "pseudo" ELSE "fetch",
                             ![c].fp = fp, ![c].fpreal = fpreal]

\* Mutant: the report is opened for appending.
AppendToReport(c) ==
  /\ At(c, "open")
  /\ OpenStreams(c)
  /\ temp' = {}
  /\ UNCHANGED <<jar, report, table, curl, page, session, answer>>

\* Both files are truncated.
OpenReport(c) ==
  /\ At(c, "open")
  /\ OpenStreams(c)
  /\ temp' = {}
  /\ report' = [report EXCEPT ![call[c].range] = {}]
  /\ UNCHANGED <<jar, table, curl, page, session, answer>>

\* The servers answer with the report of the session, but the first time with
\* the main page of the site; without a session with some page.
FetchedLine(cookies) ==
  IF cookies # {} /\ handle[curl].greeted
  THEN [of : cookies, fresh : {TRUE}]
  ELSE {[of |-> Null, fresh |-> TRUE]}

\* A transfer into the stream of afc_temp.csv.
Fetch(c) ==
  /\ Usable
  /\ \E cookies \in {Cookies, {}} :
       /\ \E line \in FetchedLine(cookies) : temp' = temp \cup {line}
       /\ handle' = [handle EXCEPT ![curl].greeted = TRUE, ![curl].cookies = cookies]
  /\ UNCHANGED <<jar, report, table, curl, page, streams, session, answer>>

\* Mutant: the transfer is left out.
NoPseudoFetch(c) ==
  /\ At(c, "pseudo")
  /\ call' = [call EXCEPT ![c].pc = "reopen", ![c].spared = TRUE]
  /\ UNCHANGED <<card, process, session, answer>>

\* The transfer "to avoid getting the main adsense page"; how it ended is
\* overwritten by the next.
PseudoFetch(c) ==
  /\ At(c, "pseudo")
  /\ \/ /\ Fetch(c)
        /\ call' = [call EXCEPT ![c].pc = "reopen", ![c].spared = TRUE]
     \/ /\ Goto(c, "reopen")
        /\ UNCHANGED <<card, process, session, answer>>

\* Mutant: the file is closed and not opened again.
CloseTempOnly(c) ==
  /\ At(c, "reopen")
  /\ streams' = streams \ {call[c].fp}
  /\ Goto(c, "fetch")
  /\ UNCHANGED <<card, curl, handle, page, session, answer>>

\* afc_temp.csv is closed and opened once more, and truncated; WRITEDATA is not
\* set again.
ReopenTemp(c) ==
  /\ At(c, "reopen")
  /\ LET fp == FirstFree(streams \ {call[c].fp})
     IN /\ streams' = (streams \ {call[c].fp}) \cup {fp}
        /\ call' = [call EXCEPT ![c].pc = "fetch", ![c].fp = fp]
  /\ temp' = {}
  /\ UNCHANGED <<jar, report, table, curl, handle, page, session, answer>>

FetchReport(c) == At(c, "fetch") /\ Fetch(c) /\ Goto(c, "convert")

\* Mutant: a time range too many.
OneRangeTooMany(i) == i + 1

\* The time range after this one; the last has none.
NextRange(i) == IF i = Reports THEN i ELSE i + 1

\* convert_to_utf8 writes the report, or fails after a part of it: the error is
\* overwritten.  Both streams are closed; on to the next time range.
ConvertReport(c) ==
  /\ At(c, "convert")
  /\ \E part \in SUBSET temp :
       report' = [report EXCEPT ![call[c].range] = @ \cup part]
  /\ streams' = streams \ {call[c].fp, call[c].fpreal}
  /\ call' = [call EXCEPT
                ![c].pc = IF call[c].range = Reports THEN "process" ELSE "open",
                ![c].range = NextRange(@),
                ![c].fp = 0, ![c].fpreal = 0]
  /\ UNCHANGED <<jar, temp, table, curl, handle, page, session, answer>>
-----------------------------------------------------------------------------
(* process_adsense_reports, and the end of the call. *)

OpenTable(c) ==
  /\ At(c, "process")
  /\ table' = {}
  /\ Goto(c, "merge")
  /\ UNCHANGED <<jar, temp, report, process, session, answer>>

\* The rows of all time ranges; a page of the site yields no figures.
WriteTable(c) ==
  /\ At(c, "merge")
  /\ table' = {l \in UNION {report[i] : i \in 1 .. Reports} : l.of # Null}
  /\ call' = [call EXCEPT ![c].pc = "cleanup", ![c].ret = 0]
  /\ session' = [session EXCEPT ![c] =
                   {e \in @ : Cookies \subseteq {e} /\ \A l \in table' : l.of = e}]
  /\ UNCHANGED <<jar, temp, report, process, answer>>

\* curl_easy_cleanup: the cookie file is written if the handle holds a cookie,
\* of the session or another.
Cleanup(c) ==
  /\ At(c, "cleanup")
  /\ IF curl = NoHandle
     THEN UNCHANGED <<jar, handle>>
     ELSE /\ handle[curl].open
          /\ jar' \in IF Cookies = {} THEN {jar, {}} ELSE {Cookies}
          /\ handle' = [handle EXCEPT ![curl] = Closed]
  /\ answer' = [answer EXCEPT ![c] = call[c].ret]
  /\ call' = [call EXCEPT ![c] = Returned]
  /\ session' = [session EXCEPT ![c] = {}]
  /\ UNCHANGED <<temp, report, table, curl, page, streams>>

ProcessDies == NewProcess /\ UNCHANGED card
-----------------------------------------------------------------------------
Login(c) == \/ AskLoginBox(c) \/ FindForm(c) \/ ProbeSession(c) \/ CheckProbe(c)
            \/ PostCredentials(c) \/ CheckPost(c) \/ CheckCookie(c) \/ AskHome(c)
            \/ CheckHome(c) \/ TransferFails(c)

FetchReports(c) == \/ OpenReport(c) \/ PseudoFetch(c) \/ ReopenTemp(c)
                   \/ FetchReport(c) \/ ConvertReport(c)

Next == \/ \E c \in Callers :
             \/ \E typed \in Typed : Call(c, typed)
             \/ CurlLocalInit(c) \/ InitFails(c)
             \/ Login(c) \/ FetchReports(c)
             \/ OpenTable(c) \/ WriteTable(c) \/ Cleanup(c)
        \/ ProcessDies

Spec == Init /\ [][Next]_vars
-----------------------------------------------------------------------------
(* Properties. *)

\* WRITEDATA is set once for a report, and for the first report the stream is
\* closed and opened anew after that: a transfer still writes to an open stream,
\* the one the call will close and convert, because fopen takes the entry that
\* fclose gave back.
SinkOpen ==
  \A c \in Callers : call[c].pc \in ReportTransfers /\ Usable =>
    handle[curl].sink \in streams /\ handle[curl].sink = call[c].fp

\* The e-mail address and the password are sent to Google's login and to no
\* other page: every other transfer of the same handle finds it set to GET.
PasswordOnlyToLogin ==
  \A c \in Callers : call[c].pc \in Transfers /\ Usable => ~ handle[curl].post

\* When a call succeeds, all rows of afc.csv were fetched by it, though the
\* report files of the call before are still there and a conversion that fails
\* is not noticed.
RowsOfThisCall ==
  \A c \in Callers : At(c, "cleanup") /\ call[c].ret = 0 => \A l \in table : l.fresh

\* The "Pseudo statement to avoid getting the main adsense page" is enough: if it
\* went through and the session lasts, no report is a page of the web site.  (Its
\* status is thrown away: when it fails, today's report is that page.)
PseudoSparesReports ==
  \A c \in Callers : At(c, "process") /\ call[c].spared /\ handle[curl].cookies # {} =>
    \A i \in 1 .. Reports : \A l \in report[i] : l.of # Null

\* With one caller, these properties and the contract below rest on one inductive
\* invariant, in parts.  The handle is there from curl_local_init to the cleanup, and
\* is set back to GET before any other transfer ...
ReportSteps == {"open", "pseudo", "reopen", "fetch", "convert", "process", "merge"}

HandleInv ==
  \A c \in Callers :
    /\ call[c].pc \notin {"idle", "init"} => Usable
    /\ At(c, "LOGIN_URL") => ~ handle[curl].loaded
    /\ call[c].pc \notin {"idle", "init", "LOGIN_URL", "cleanup"} => handle[curl].loaded
    /\ call[c].pc \notin {"idle", "init", "refused?", "cleanup"} => ~ handle[curl].post

\* ... the stream of afc_temp.csv is the one WRITEDATA was set to, and had been the
\* first free entry of the table ...
StreamInv ==
  \A c \in Callers : call[c].pc \in {"pseudo", "reopen", "fetch"} =>
    /\ call[c].fp \in streams /\ handle[curl].sink = call[c].fp
    /\ call[c].pc # "fetch" => 1 .. call[c].fp - 1 \subseteq streams

\* ... what was written so far, the reports a call is done with or has just opened,
\* was fetched by it, and it begins with the first ...
Written(k) == CASE k.pc \in {"process", "merge"} -> 1 .. Reports
                [] k.pc \in {"pseudo", "reopen", "fetch", "convert"} -> 1 .. k.range
                [] OTHER -> 1 .. k.range - 1

FreshInv ==
  \A c \in Callers :
    /\ call[c].pc \notin ReportSteps \cup {"cleanup"} => call[c].range = 1
    /\ call[c].pc \in ReportSteps => \A i \in Written(call[c]) : \A l \in report[i] : l.fresh
    /\ call[c].pc \in {"pseudo", "reopen", "fetch", "convert"} => \A l \in temp : l.fresh
    /\ At(c, "cleanup") /\ call[c].ret = 0 => \A l \in table : l.fresh

\* ... and is no page of the site, once the pseudo transfer went through and for as
\* long as the session lasts: nothing was written before it ...
NoPageIn(lines) == \A l \in lines : l.of # Null

SparedInv ==
  \A c \in Callers :
    /\ At(c, "pseudo") => call[c].range = 1 /\ report[1] = {}
    /\ call[c].spared =>
         /\ call[c].pc \in ReportSteps \cup {"cleanup"}
         /\ call[c].pc \in ReportSteps => handle[curl].greeted
         /\ call[c].pc \in ReportSteps /\ handle[curl].cookies # {} =>
              /\ \A i \in Written(call[c]) : NoPageIn(report[i])
              /\ call[c].pc \in {"fetch", "convert"} => NoPageIn(temp)

\* ... a cookie file and a handle hold one session at most, a call knows all it can be
\* signed in to ...
AtMostOne(sessions) == \A d, e \in sessions : d = e

SessionInv ==
  /\ AtMostOne(jar) /\ \A h \in Handles : AtMostOne(handle[h].cookies)
  /\ \A c \in Callers :
       IF call[c].pc \in {"idle", "init", "LOGIN_URL"}
       THEN session[c] = {}
       ELSE /\ Cookies \subseteq session[c]
            /\ call[c].pc \notin ReportSteps \cup {"cleanup"} =>
                 OwnSession(call[c].cred) \subseteq session[c]
            /\ call[c].pc \in {"open session?", "signed in?"} /\ page = "signed in" =>
                 handle[curl].cookies # {}

\* ... and all it wrote is of one of them.
OneSessionInv ==
  \A c \in Callers : call[c].pc \in ReportSteps =>
    \E e \in session[c] :
      /\ handle[curl].cookies \subseteq {e}
      /\ \A i \in Written(call[c]) : \A l \in report[i] : l.of \in {e, Null}
      /\ call[c].pc \in {"fetch", "convert"} => \A l \in temp : l.of \in {e, Null}

CallInv ==
  HandleInv /\ StreamInv /\ FreshInv /\ SparedInv /\ SessionInv /\ OneSessionInv

\* Where a call is, in the terms of ReportCall.
Phase(k) ==
  CASE k.pc = "idle" -> "idle"
    [] k.pc \in {"init", "LOGIN_URL"} -> "call"
    [] k.pc = "merge" -> "writing"
    [] k.pc = "cleanup" /\ k.ret = 0 -> "closing"
    [] OTHER -> "calling"

TheCaller == CHOOSE c \in Callers : TRUE

Contract == INSTANCE ReportCall WITH
  table <- {l.of : l \in table}, phase <- Phase(call[TheCaller]), cred <- call[TheCaller].cred,
  session <- session[TheCaller], answer <- answer[TheCaller]

\* With one caller, the calls of the library are the calls ReportCall describes:
\* a call signs in to an open session or to its own account, and leaves the
\* cookies and the rows of one of them, whatever the servers answer and wherever
\* it fails.
CallKeepsContract == Contract!Spec

\* libcurl's manual on curl_easy_cleanup: "Any uses of the handle after this
\* function has been called are illegal."  Refuted: see the README.
HandleOpenInCall ==
  \A c \in Callers : call[c].pc \notin {"idle", "init"} /\ curl # NoHandle =>
    handle[curl].open
=============================================================================
