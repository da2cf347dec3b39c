---------------------------- MODULE CallContract ----------------------------
(***************************************************************************)
(* What one call of the native function genAdsenseReports promises, as     *)
(* operators on the data the rest of the program can see of it: the        *)
(* session kept in cookies.txt and the reports kept in afc.csv.            *)
(*                                                                         *)
(* A session is named by the e-mail address it is signed in as.  The       *)
(* cookie file holds at most one; it is modelled by the set of the         *)
(* sessions it holds.                                                      *)
(***************************************************************************)
CONSTANTS Emails,      \* e-mail addresses a user can type
          Passwords,   \* passwords a user can type
          Accounts,    \* the credentials AdSense accepts
          Null         \* a preference that was never written

Credentials == [email : Emails, password : Passwords]

\* Accepted credentials are credentials.
ASSUME AccountsAssumption == Accounts \subseteq Credentials

\* "Never written" is none of the values a user can type.
ASSUME NullAssumption == Null \notin Emails \cup Passwords

NoAccount == [email |-> Null, password |-> Null]

\* The session signing in with these credentials can open: at most one.
OwnSession(cred) == {e \in Emails : cred \in Accounts /\ e = cred.email}

\* The sessions a call may fetch reports under: the one its cookies brought
\* (the login page offers no form, the AdSense page shows a sign-out link)
\* or the one its own POST opened.
SignIns(jar, cred) == jar \cup OwnSession(cred)

\* What the cookie file can hold when a call ends: nothing (it is written
\* whole at cleanup, and a server may end a session), a session of the call,
\* or what it held when no cookie was left to write.
JarsAfter(jar, session) == {jar, {}} \cup {{e} : e \in session}

\* What genAdsenseReports answers when it did not write afc.csv, by what went
\* wrong: curl_easy_init, the probe of an open session, anything else.
InitFailed   == 1
NotSignedIn  == 2
TransferError == 1000
=============================================================================
