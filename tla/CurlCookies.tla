----------------------------- MODULE CurlCookies -----------------------------
(***************************************************************************)
(* The cookies of one handle: the list in memory, and the file the native  *)
(* library sets as CURLOPT_COOKIEFILE and as CURLOPT_COOKIEJAR, which is   *)
(* read before the next transfer and saved when the handle is cleaned    *)
(* up.  Two handles on the file are in AdsenseNative.                      *)
(***************************************************************************)
EXTENDS Sequences, SequencesExt

CONSTANTS Names,        \* what identifies a cookie besides its path: name and domain,
                        \* regardless of case
          CutTo,        \* what is left of a name, when the line is cut within it: the
                        \* names it begins with
          PlainValues,  \* values that are written and read as they are
          Served        \* the cookies that servers set

ASSUME CutToAssumption == CutTo \in [Names -> SUBSET Names]

\* A path may be set blank.
CookiePaths == {"", "/"}

\* A value may be blank, hold a TAB, which separates the fields of a line of the file,
\* and be so long that its line is cut where it is read: MAX_COOKIE_LINE.
Values == PlainValues \cup {"", "tabbed", "long", "cut"}

Cookies == [id : Names \X CookiePaths, value : Values, live : BOOLEAN]

ASSUME ServedAssumption ==
  \A co \in Served : co \in Cookies /\ co.live /\ co.value # "cut"

VARIABLES jar,       \* data->cookies->cookies
          file,      \* the lines of the file
          pending,   \* data->change.cookielist is not empty
          phase,     \* "closed" (no handle), "open" or "saving"
          saved      \* how many cookies have been written, while saving

cookieVars == <<jar, file, pending, phase, saved>>

CookieInit ==
  /\ jar = <<>> /\ file = <<>> /\ pending = FALSE
  /\ phase = "closed" /\ saved = 0
-----------------------------------------------------------------------------
(* Curl_cookie_add. *)

\* Mutant: a cookie of the file is as good as one a server set.
FileWins(new, old) == FALSE

\* The newcomer is dropped.
LiveStays(new, old) == ~ new.live /\ old.live

\* Mutant: a cookie is never replaced.
NeverSame(new, old) == FALSE

SameCookie(new, old) == new.id = old.id

AddCookie(list, co) ==
  IF \E i \in DOMAIN list : SameCookie(co, list[i])
  THEN LET i == SelectInSeq(list, LAMBDA old : SameCookie(co, old))
       IN IF LiveStays(co, list[i]) THEN list ELSE [list EXCEPT ![i] = co]
  ELSE Append(list, co)

\* get_netscape_format: whether a server set it is not written.
LineOf(c) == [c EXCEPT !.live = FALSE]

\* The tokenizer skips a blank path, for which "/" is made up; a line with a field too
\* many is not a cookie.
ParsedLine(line) ==
  LET name == line.id[1]
  IN IF line.value = "tabbed" THEN {}
     ELSE {[id |-> <<name, "/">>, live |-> FALSE,
            value |-> IF line.value = "long" THEN "cut" ELSE line.value]}

\* (Of {list}, so that TLC evaluates the list once.)
AddLine(list, line) ==
  IF ParsedLine(line) = {} THEN list
  ELSE CHOOSE more \in {AddCookie(l, c) : l \in {list}, c \in ParsedLine(line)} : TRUE

\* Curl_cookie_init, with all lines of a file.
Loaded(list, lines) == FoldLeft(AddLine, list, lines)
-----------------------------------------------------------------------------
\* curl_easy_init, CURLOPT_COOKIEJAR and CURLOPT_COOKIEFILE.
OpenHandle ==
  /\ phase = "closed"
  /\ phase' = "open" /\ pending' = TRUE
  /\ UNCHANGED <<jar, file, saved>>

\* CURLOPT_COOKIEFILE once more.
SetCookieFile ==
  /\ phase = "open" /\ ~ pending
  /\ pending' = TRUE
  /\ UNCHANGED <<jar, file, phase, saved>>

\* Curl_cookie_loadfiles, called before a transfer and before the file is written.  A
\* file that cannot be opened counts as read.
LoadFiles ==
  /\ phase = "open" /\ pending
  /\ pending' = FALSE
  /\ jar' \in {Loaded(jar, file), jar}
  /\ UNCHANGED <<file, phase, saved>>

\* A Set-Cookie header in an answer.
SetCookie ==
  /\ phase = "open" /\ ~ pending
  /\ \E co \in Served : jar' = AddCookie(jar, co)
  /\ UNCHANGED <<file, pending, phase, saved>>

\* curl_easy_cleanup: flush_cookies.  fopen empties the file.
OpenJar ==
  /\ phase = "open" /\ ~ pending
  /\ jar # <<>>
  /\ phase' = "saving" /\ file' = <<>> /\ saved' = 0
  /\ UNCHANGED <<jar, pending>>

WriteCookie ==
  /\ phase = "saving" /\ saved < Len(jar)
  /\ file' = Append(file, LineOf(jar[saved + 1]))
  /\ saved' = saved + 1
  /\ UNCHANGED <<jar, pending, phase>>

CloseJar ==
  /\ phase = "saving" /\ saved = Len(jar)
  /\ phase' = "closed" /\ jar' = <<>> /\ saved' = 0
  /\ UNCHANGED <<file, pending>>

\* numcookies is 0, or the file cannot be opened, which is only logged.
NoJar ==
  /\ phase = "open" /\ ~ pending
  /\ phase' = "closed" /\ jar' = <<>>
  /\ UNCHANGED <<file, pending, saved>>

\* What of a line is a cookie, when the rest of it did not come to the file: it ends
\* within the value, or with the name or within it, as a line of six fields is one with
\* a blank value.
HalfLines(c) ==
  LET Line(name, value) == [id |-> <<name, c.id[2]>>, value |-> value, live |-> FALSE]
  IN  {Line(c.id[1], "cut") : value \in {c.value} \ {""}}
        \cup {Line(name, "") : name \in {c.id[1]} \cup CutTo[c.id[1]]}

\* The process ends.  A line that ends before the name is none.
Killed ==
  /\ phase # "closed"
  /\ phase' = "closed" /\ jar' = <<>> /\ pending' = FALSE /\ saved' = 0
  /\ \/ UNCHANGED file
     \/ /\ phase = "saving" /\ saved < Len(jar)
        /\ \E line \in HalfLines(jar[saved + 1]) : file' = Append(file, line)

CookieNext ==
  \/ OpenHandle \/ SetCookieFile \/ LoadFiles \/ SetCookie
  \/ OpenJar \/ WriteCookie \/ CloseJar \/ NoJar \/ Killed

CookieSpec == CookieInit /\ [][CookieNext]_cookieVars
-----------------------------------------------------------------------------
(* Properties. *)

\* The list never holds two cookies of one identity, and so a request never sends two
\* of them, though a file may hold two lines that are read as one cookie.
OneCookieEach ==
  \A i, j \in DOMAIN jar : jar[i].id = jar[j].id => i = j

\* What a cookie may come back as, if only a part of it was written: the name whole and
\* the value in part, or the name in part and no value.
Remains(c) ==
  [id : {<<c.id[1], "/">>}, value : {"", "cut"}, live : {FALSE}]
    \cup [id : CutTo[c.id[1]] \X {"/"}, value : {""}, live : {FALSE}]

Store == INSTANCE CookieStore WITH
  ReadBack <- LAMBDA c : ParsedLine(LineOf(c)),
  HalfWritten <- Remains,
  store <- ToSet(jar),
  kept <- ToSet(Loaded(<<>>, file))

\* A cookie a server set is never replaced by an older one from the file, however often
\* the file is read; nothing is lost between two handles, or comes back, but what the
\* format of the file loses, and what a death of the process while saving cuts off.  What
\* is left of the line it was writing can count as another cookie, and take the place of
\* one that was saved before: of one, and no more.
StoreKept == Store!StoreSpec
=============================================================================
