----------------------------- MODULE ReportCall -----------------------------
(***************************************************************************)
(* What a caller of genAdsenseReports can rely on, as a state machine over *)
(* the two things a call leaves behind: the session in cookies.txt and the *)
(* accounts whose rows afc.csv holds.  AccountSetup drives its workers     *)
(* through these steps; AdsenseNative shows that the C code takes no       *)
(* others.                                                                 *)
(***************************************************************************)
EXTENDS CallContract

VARIABLES jar,      \* the session cookies.txt holds
          table,    \* the accounts whose rows afc.csv holds
          phase,    \* where the call is
          cred,     \* its e-mail and password
          session,  \* the sessions its transfers can run under
          answer    \* what the last call answered

vars == <<jar, table, phase, cred, session, answer>>

Phases == {"idle", "call", "calling", "writing", "closing"}

TypeOK ==
  /\ jar \in SUBSET Emails /\ table \in SUBSET Emails
  /\ phase \in Phases
  /\ cred \in Credentials \cup {NoAccount}
  /\ session \in SUBSET Emails
  /\ answer \in {0, InitFailed, NotSignedIn, TransferError}

Init ==
  /\ jar = {} /\ table = {}
  /\ phase = "idle" /\ cred = NoAccount /\ session = {} /\ answer = 0

\* The caller deletes the directory before the call, or leaves it as it is.
Call(typed) ==
  /\ phase = "idle"
  /\ phase' = "call"
  /\ cred' = typed
  /\ \/ jar' = {} /\ table' = {}
     \/ UNCHANGED <<jar, table>>
  /\ UNCHANGED <<session, answer>>

Return(status) ==
  /\ phase' = "idle" /\ cred' = NoAccount /\ session' = {} /\ answer' = status

InitFails ==
  /\ phase = "call"
  /\ Return(InitFailed)
  /\ UNCHANGED <<jar, table>>

EnterCall ==
  /\ phase = "call"
  /\ phase' = "calling"
  /\ session' = SignIns(jar, cred)
  /\ UNCHANGED <<jar, table, cred, answer>>

FailCall ==
  /\ phase = "calling"
  /\ jar' \in JarsAfter(jar, session)
  /\ \E status \in {NotSignedIn, TransferError} : Return(status)
  /\ UNCHANGED table

\* The reports are there: only a signed-in session gets this far.
BeginTable ==
  /\ phase = "calling"
  /\ session # {}
  /\ phase' = "writing"
  /\ table' = {}
  /\ UNCHANGED <<jar, cred, session, answer>>

\* One session's rows, or none.
CloseTable ==
  /\ phase = "writing"
  /\ phase' = "closing"
  /\ \/ \E e \in session : session' = {e} /\ table' \in {{}, {e}}
     \/ UNCHANGED session /\ table' = {}
  /\ UNCHANGED <<jar, cred, answer>>

FinishCall ==
  /\ phase = "closing"
  /\ jar' \in JarsAfter(jar, session)
  /\ Return(0)
  /\ UNCHANGED table

\* The process can end anywhere; the files are left as they are.
ProcessDies ==
  /\ phase' = "idle" /\ cred' = NoAccount /\ session' = {} /\ answer' = 0
  /\ UNCHANGED <<jar, table>>

Next == \/ \E typed \in Credentials : Call(typed)
        \/ InitFails \/ EnterCall \/ FailCall
        \/ BeginTable \/ CloseTable \/ FinishCall
        \/ ProcessDies

Spec == Init /\ [][Next]_vars
=============================================================================
