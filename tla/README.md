# Adsense Client: a TLA+ model

Adsense Client is an Android application (Java, about 1,300 lines) over a
native library (C, about 700 lines without the vendored code) that signs in to
Google AdSense, fetches six reports of earnings and shows them.  This project
models the parts of it whose behaviour depends on order: the screens, the worker
threads that check an account and the service that updates it, the native call
transfer by transfer, what it needs of the vendored libcurl, and the way of a
report from the network to the screen.  Paths below are relative to
`project/`; `J` stands for `src/in/humbug/adsenseclient/`.

## 1. The system

| Part | Source | State | Operations |
|---|---|---|---|
| Client screen | `J/AdsenseClient.java` | list or splash, options menu, theme of the instance | onCreate (queries the provider, reads `verified`, starts or stops the service), onResume (reload on a theme change), menu, refresh, item click, back |
| Preferences screen | `J/Preferences.java`, `res/xml/preferences.xml` | summaries | open, login entry, theme, automatic updates, frequency |
| Account form | `J/AccountSetupBasics.java` | two text fields | open, "Next" |
| Account check | `J/AccountSetupCheckSettings.java` | progress bar, three dialogs, one worker thread per onCreate | onCreate, onResume, back, dialog buttons; the worker |
| Shared preferences | (Android) | `email`, `password`, `verified`, `refresh`, `theme_type`, `automatic_updates`, `fetch_frequency` | committed by the form, the worker, refresh and back |
| Native library | `jni/adsensejni.c`, `jni/curl.c` | one global curl handle, two static response buffers | `genAdsenseReports`, `delAccountDir` |
| Merging of reports | `jni/process_reports.c` | `afc.csv` | `process_adsense_reports` |
| Conversion | `jni/ConvertUTF.c`, `jni/curl.c` | none | UTF-16 to UTF-8 |
| URL encoding | `jni/urlcode.c` | none | encode, decode |
| Content provider | `J/AdsenseContentProvider.java`, `src/au/com/bytecode/opencsv/CSVReader.java` | none (reads `afc.csv` on each query) | query of the table, query of one time range |
| Screen of a time range | `J/CleanThemeListItem.java` | title and figures | onCreate |
| Application state | `J/AdsenseClientState.java` | position of the last click, "service is running" | getters, setters |
| Data service | `J/AdsenseDataService.java` | none | one background fetch per start |
| libcurl | `jni/curl/lib` | of a handle: connection cache, cookie list, options, counters of the last request | `curl_easy_perform` (redirects, retry, cache), cookies loaded, set and saved, chunked bodies |
| mxml, AdMob, resources | `jni/mxml`, `libs`, `res`, `gen` | third party or data | |

How they interact.  The form commits the account and starts the check screen.
The check screen starts a worker thread, which reads the account from the
preferences, deletes the data directory unless a refresh was asked for, calls
the native library and, by its status, starts the client and commits
`verified`, or posts a dialog to the UI thread.  The native call reads the cookies
of the directory, signs in, fetches one report per time range to a file of its
own, merges the files into `afc.csv` and saves the cookies.  The client and the
screen of a time range query the provider, which reads `afc.csv` at that moment.
The service makes the same native call from a thread of its own.  The
preferences, the files of `/sdcard/humbug_adsense_client/` and the globals of the
library are shared by all of them without a lock.

What is hard.  The user can leave, rotate, re-open or edit while a worker is
between two of its steps; nothing stops or joins a worker, and nothing relates
it to the account it was started for.  The `refresh` flag says at once what a
check screen shows and what its worker deletes.  A file is empty while it is
rewritten.  Parts of a call fail without the whole failing.  The service is started
and stopped by a state that is reported late and lost with the process.  Below the
call, servers close the connections libcurl keeps, bodies arrive cut anywhere, and
the cookie file is written line by line.  PROJECT.json lists the hazards with their
lines.

What makes each part correct: an account marked verified was accepted, and the
files belong to it (check); a screen gets the answer of its own worker and always
gets one (check); a call leaves one account's session and rows whatever fails in
it, sends credentials to the login page only and uses what is open (native
library); a row of the table is one time range's (merging, provider); the figures
shown under a title are the row clicked (provider, screen of a time range); the
service runs when the switch says so and never without an account (data service);
encoding, conversion, chunks and CSV lose nothing they can keep; one connection for
each server, a request sent at most twice and as what it was, one cookie of an
identity (libcurl).

## 2. The modules

* **CallContract** holds what the other modules say of a native call: the account
  data, the sessions a call can run under (`SignIns`: the one its cookies brought,
  or the one its own credentials open), what the cookie file can hold afterwards
  (`JarsAfter`), the status values.
* **ReportCall** is the abstract specification of one caller's calls: `Call`,
  `EnterCall`, then `FailCall`, or `BeginTable`, `CloseTable`, `FinishCall`.
* **AdsenseNative** is the C code: one action for each transfer
  (`AskLoginBox`, `ProbeSession`, `PostCredentials`, `CheckCookie`, `AskHome`,
  `PseudoFetch`, `FetchReport`) and for each decision taken on its answer
  (`FindForm`, `CheckProbe`, `CheckPost`, `CheckHome`), the report files
  (`OpenReport`, `ReopenTemp`, `ConvertReport`), the merge (`OpenTable`,
  `WriteTable`) and `Cleanup`.  The handle, the response buffer and the FILE table
  are one for all callers, as in the code.  `Contract == INSTANCE ReportCall WITH
  ...` maps a caller's program counter to the phases of ReportCall.
* **AccountSetup** is the application around the call: the activity stack, the
  preferences, the workers.  A worker has one action per statement that touches
  shared state (`ReadEmail`, `ReadPassword`, `ReadRefresh`, `Wipe`, the steps of
  ReportCall, `OpenNext`, `Commit`, `ShowDialog`).  Its `InitFails` to `FinishCall`
  are the actions of ReportCall with the worker's program counter as the phase;
  both modules take the data from CallContract.
* **ReportTable** follows the figures: `CreateReport` folds the lines of a report
  into fields of `afc.csv`, `RowsOf` is what a reader finds there, `Listable`,
  `DayReadable` and `UnknownUri` are the outcomes of the two queries, and the
  client's list and the screen of a time range use them.
* **AutoUpdate** composes AccountSetup with the data service.  `startService` and
  `stopService` change at once what the system knows (`started`) and post messages
  to the UI thread, whose handling (`OnCreateService`, `OnStartCommand`,
  `OnDestroyService`) changes what the client looks at (`serviceState`).  The task of
  a start command is a thread of AccountSetup that no screen owns (`Fetch`), and its
  call is the same five steps.  `DriveService` is the part of the client's onCreate
  that starts and stops the service, `ServiceGone` what the end of the process does
  to it.
* **UrlCode** is `url_encode` byte by byte, over the parameters as `adsense_login`
  joins them; `url_decode`, and fields that end at `&`, stand for the server.
* **CurlTransfer** is `curl_easy_perform` with the connection cache: `CurlConnect`,
  `Send`, `ReconnectRequest` when the request cannot be written, `Retry` when no
  byte of an answer came, redirects in `Answer`, and servers that close any
  connection at any time.
* **CurlCookies** is the list of cookies of a handle and the file it is loaded from
  and saved to; **CookieStore** is the abstract specification of both, which
  CurlCookies implements (`Store`): a set of cookies, one for each identity, and
  what the next handle will know.
* **HttpChunks** is `Curl_httpchunk_read`, an action for each case of its switch.
* **ConvertUtf** is `convert_to_utf8` block by block over `ConvertUTF16toUTF8`,
  **CsvReader** is `readNext` of opencsv line by line, with `parseLine` as a fold
  over the characters.
* **AccountSetup_proofs**, **AdsenseNative_proofs**, **AutoUpdate_proofs**,
  **ReportTable_proofs** and **CsvReader_proofs** hold the theorems on the modules they are
  named after, **Curl_proofs** those on CurlTransfer, CurlCookies and HttpChunks, **Texts_proofs**
  those on UrlCode and ConvertUtf; **Recursion** has what these need of folds,
  recursive functions and sequences of sequences.
* **MCAccountSetup**, **MCAdsenseNative**, **MCReportTable**, **MCAutoUpdate** give
  constants values.  **MCParts** puts the modules that share no state side by side.

### State and code

| Variable | Code |
|---|---|
| `account`, `verified`, `refresh` | the shared preferences of those names (`account` is `email` and `password`) |
| `jar` | the session in `cookies.txt`, named by its account; at most one |
| `table`, `cursor` (AccountSetup) | accounts whose rows `afc.csv` has; whether a query returns a cursor |
| `stack`, `front` | the activities of the task, and which of them is resumed |
| `thread`, `session` | the workers; the sessions their handle can be signed in to |
| `wiped`, `doubt` | history variables: the directory was deleted since the last edit; an edit overtook a worker, or a call was made with a directory not deleted since the edit |
| `curl`, `handle` | the global handle, the handles libcurl has given out |
| `page`, `streams` | the static response buffer; the open entries of the FILE table |
| `temp`, `report`, `table` (AdsenseNative) | `afc_temp.csv`, the report files, `afc.csv`, as sets of lines that tell whose they are and whether this call fetched them |
| `merging`, `afc` (ReportTable) | whether the merge is writing; the rows of the file a reader sees |
| `list`, `day` | the client's list; the screen of a time range, with `ListItemClickPosition` |
| `automatic`, `serviceState` | the preference `automatic_updates`; `AdsenseDataServiceState` |
| `started`, `messages` | what Android knows of the service, and what it has posted for it |
| `connects`, `conn`, `url`, `httpreq`, `httpcode` | `connc->connects`, the connection of the request, `change.url`, `set.httpreq`, `info.httpcode` |
| `counted` | the connection whose bytes `http->readbytecount` counts (`state.current_conn`); 0 if there are none |
| `jar`, `file`, `pending` (CurlCookies) | the list of cookies, the lines of `cookies.txt`, `change.cookielist` |
| `pstr`, `pbuf`; `buffer`, `written`; `piece`, `state`, `hex`, `datasize`; `tokens`, `sb`, `inQuotes` | the variables of those names (`source_start`, the converted file, `datap` and `length`, `ch->...`, `tokensOnThisLine`) |

## 3. The runs

| Run | Shows | Bounds |
|---|---|---|
| `edits` | `TypeOK`, `AccountSound`, `CredentialsPresent`, `RequestEndsWithCheck`: two accounts entered one over the other | one worker, two check screens that can be told apart, three screens opened by the user |
| `workers` | `OneAnswerPerScreen`: check screens opened twice, retried, rotated | two workers, two screens |
| `answered` | `CheckAnswered`: every check ends in something the user can see | one worker, fairness, no symmetry |
| `native_call` | the C code keeps ReportCall's contract (`CallKeepsContract`), writes to open streams (`SinkOpen`), posts to the login only (`PasswordOnlyToLogin`), merges only rows of this call (`RowsOfThisCall`), and the pseudo transfer does its job (`PseudoSparesReports`) | two accounts and a wrong password, two time ranges, four streams |
| `table_rows` | `ListRowsWhole`, `DayShowsClicked`: reports missing or replaced by a page, queried and clicked at any moment | six time ranges, as in the code |
| `service` | `AppTypeOK`, `AccountSound`, `CredentialsPresent`, `ServiceFollowsSwitch`: the application with its service, lost and started again | one thread at a time, one check screen, two accounts, two screens opened by the user, three messages |
| `parts` | the thirteen properties of UrlCode, CurlTransfer, CurlCookies, HttpChunks, ConvertUtf and CsvReader | see below |
| `accepted`, `handle_open`, `day_title`, `updates`, `reconnect` | what the program does against its own texts; section 5 | as small as shows it |

Why the bounds are enough.  Two accounts with different passwords make every mix
of an e-mail address and a password a refused one; a third adds no new relation to
the account in the preferences.  With two check screens one can be in front while
a worker of the other runs, and their identities are given out again when no
screen and no worker holds them.  A user needs three open screens (client, form,
check); what the worker opens is not counted.  `edits` has one worker, because an
edit that runs into one is the case `doubt` stands for, whatever their number; the
theorem below has no bound.  In AdsenseNative two time ranges are the first, which
the code treats in a way of its own, and another; the remaining four repeat the
second.  Four entries of the FILE table are used up by two failed fetches.
ReportTable has the six ranges of the code, because the number of fields six pages
leave is what decides.

In `service` three messages are what a start, a stop and a start leave behind.  It has
one thread, so that there a fetch and a check, or two fetches, never overlap, only
follow each other in any order: with a second thread begin the exceptions `doubt`
stands for.  That the properties hold when they do overlap, for any number of
threads and messages, is what the theorems of AutoUpdate_proofs show.

`parts` asks one question of six components that share no variable: does each, on
its own, do what it promises.  In a behaviour one of them works, so the states are
the sum and not the product of theirs, and each property is about one of them.

* UrlCode: an e-mail address of up to three bytes and a password of up to two, out of
  seven: a blank, the three characters with a meaning in a body, `%`, the letter that
  names the password's field and a byte above 127.  Two bytes are enough for one to be
  read as part of another, three for a typed `&` to begin a field with that name.
* CurlTransfer: three servers for two entries of the cache, so that an entry has to
  be given up.
* CurlCookies: two names, of which one is the beginning of the other, and five cookies
  that servers set: under the longer name a plain one, and one on an empty path, which
  the file maps to the path of the other, with a value too long for the file; under the
  shorter name a plain one, one without a value and one with a TAB.  The cookie whose
  line is cut within its name can then take the place of the other, which was saved or
  is still to be.
* HttpChunks: up to two chunks of 1, 3 or 11 bytes, with sizes of one and two digits,
  a CR in an extension, and CR, LF and digits in the data; up to two trailers; cut
  anywhere.  `MAXNUM_SIZE` is 2: the code's 16 would only be longer.
* ConvertUtf: `BSIZ` is 2 for 32768, and reports have up to two blocks; the units are
  a plain one, the first of three bytes, a high and a low surrogate and the first
  unit after them.  A block of two is the smallest that has a middle.
* CsvReader: tables of two rows of two fields of every kind, and any text of two
  lines.

The run is without a check for deadlock, because an algorithm that is done stops.

The bounds are `MaxStack` (screens the user opens), `Threads`, `Ids`, `Callers`,
`Handles`, `Slots`, `MaxMessages`, the sizes named above (`MaxEmail`, `MaxPassword`,
`Connections`, `MaxChunks`, `MaxTrailers`, `MaxNumSize`, `BSIZ`, `MaxUnits`, `MaxLines`,
`MaxFields`, `MaxRows`) and, in AdsenseNative, `Reports` (6 in the code).  In the runs `edits` and `service`
the two accounts are interchangeable and the symmetry includes the exchange of both
e-mail and password; in the other runs with a symmetry workers and screens are.

Deadlock is checked in all other runs.

### Properties that take some explaining

* `AccountSound`.  If `verified` is set and `doubt` is not, the account is one
  AdSense accepts and cookies and rows are its own.  The two exceptions are real:
  an edit while a worker runs, and a check with a directory kept from the account
  before (after an edit, a menu that an older client still shows sets `refresh`, and
  the worker does not delete).  The property leaves out what comes of them, so it says
  nothing of a commit for credentials typed since (`accepted` does), of a mixed pair
  of credentials, or of the rows of an account behind the name of another after such
  a menu.  It is about all other interleavings of screens, back key, rotation, retry,
  process death and worker steps.
* `RequestEndsWithCheck`.  A check leaves the flag `refresh` behind only if the process
  dies: the back key and the worker's commit take it back.  What is left then does no
  harm, since the form and the menu both set the flag anew before the next check; and
  a flag that a menu left over sets is not what this property is about.
* `OneAnswerPerScreen`.  Retry runs onCreate again on the same instance, and a
  rotation makes a new one; a screen never has two workers, and never shows a
  dialog while its worker runs.
* `CheckAnswered`.  Holds with the outcome `stuck`: after status 1 the worker posts
  nothing, and the progress bar stays.
* `CallKeepsContract`.  Refinement: every step of the C code is a step of
  ReportCall or changes nothing a caller can see.
* `SinkOpen`.  `WRITEDATA` is set before the stream is closed and reopened
  (`curl.c` 280-284).  It holds because `fopen` takes the first free entry, which
  is the one just closed; streams leaked by failed fetches do not change that for
  one caller.
* `ListRowsWhole`.  A report that was not converted has no row, a page of the web
  site leaves a label without a row; the provider's test for seven fields is all
  that keeps a label from being shown with another range's figures.  One table gets
  by it, the one of labels only (section 5); the property is about all others.
* `ServiceFollowsSwitch`.  The client goes by what the service reported last, and
  the report can be late or lost.  The property is about a list made when the UI
  thread has no message left for the service: then the service is left as the switch
  says, however it got into its state.
* `RetriedOnceAsItWas`.  A retry goes through `Curl_follow`, where a POST becomes a
  GET by the code of an answer.  That it stays a POST rests on the code being reset
  when a transfer begins and on a retry coming before any answer; that there is one
  retry only rests on `OneConnectionForEach`.
* `StoreKept`.  Refinement of CookieStore: what a server set wins over the file, and
  between two handles nothing is lost but what the format loses (a value with a TAB,
  the end of a long line, an empty path) and what a death while saving cuts off.  Of
  the line it was writing, a part can be left that still is a cookie: with a part of its
  value, or with none and a part of its name.  The store says which (`HalfWritten`), and that
  it takes the place of the cookie saved under that name, if there is one, and of no other.
* `FailureExplained`.  The first call of the converter reads one unit past the block:
  a report that is in order can fail to convert, and these are all the ways.
* `RowsEndOutsideQuotes`.  Of any text: the rows of the reader are given by the
  parity of the quotes alone, though the code looks two characters around each.

## 4. Fairness

Two runs need it.  `answered`: weak fairness of `Show` (the UI thread brings the top
of the stack to the front) and of each worker.  `updates`: the same, and of
`HandleMessage` and each fetch, so that what is refuted is not refuted by a system
that stands still.  Android runs a thread or a task that was started and a message
that was posted.  A call ends because a transfer ends, with data or with an error;
the code sets no timeout and no limit on redirects, so this is an assumption on the
network.  Nothing is assumed of the user.

## 5. What the program does against its own texts

* `accepted` (`J/AccountSetupCheckSettings.java` 65-68): type the right password,
  Next, Back, type a wrong one, Next.  The worker of the first check commits
  `verified` for the second.
* `handle_open` (`jni/curl.c` 99): of two callers, the one that ends first cleans
  up the handle of the other.  Two callers are two check screens, or one rotated
  during its call; `workers` has such states.
* `day_title` (`J/CleanThemeListItem.java` 30-37): with the report of today
  missing, yesterday's figures stand under the title "Today".
* `updates` (`J/AdsenseDataService.java` 130, `J/AdsenseClient.java` 68): "Updates are
  fetched every {0}." (`res/values/strings.xml` 31), but the frequency is read by
  nobody.  A start fetches once, and no start comes while the service is on.
* `reconnect` (`jni/curl/lib/http.c` 1938, `transfer.c` 1940): when a request cannot
  be written to a kept connection, libcurl closes it and means to try again; on the
  way it asks whether the request had an empty reply, by the byte count of the
  request before.  That is 0 if the request before had no body, as a redirect need not
  have, and also if it was on another connection, or any connection was closed since: the
  count is freed then (`Curl_reset_reqproto`, `url.c` 5349-5357).  The transfer ends with "Empty
  reply from server" though nothing was sent, and is tried again only if the request
  before was on this connection and brought a body.

Others are in the models and not checked by a run of their own:

* `J/AccountSetupCheckSettings.java` 55: "Reloading Adsense Data", and Back before the
  worker has read the flag.  Back resets it, and the worker deletes the directory of
  an account that is in order (`ReadRefresh`, `Wipe`).
* `jni/curl.c` 207-218, `jni/adsensejni.c` 49-54: refused credentials come back as
  status 1000, "Internet seems to be down?", and a retry that cannot help.  "Invalid
  Password" is only reachable when no credentials were sent.
* `J/AdsenseContentProvider.java` 191-192, 249-250: a row of a list older than `afc.csv`
  is clicked; the query throws "Unknown Uri" for an address it knows, and the process
  ends (`UnknownUri`).
* `J/AdsenseContentProvider.java` 123-126: six report requests that bring pages leave
  six labels and the field after the last comma, which are the seven fields of a good
  row: the list has one, "Today", with the names of the other time ranges for
  figures.
* `jni/curl/lib/cookie.c` 569-576: a line of six fields is a cookie with no value, and
  so is one that a death of the process cut within the name.  The next handle sends a
  cookie no server set, or an empty one in the place of one that was saved
  (`HalfLines`).

## 6. What is proved

In **AccountSetup_proofs**, for any sets of accounts, workers and screens:

* `TypeCorrect`, `Spec => []TypeOK`.  Not only typing: `front` is always an index
  of the activity stack, though screens are removed and inserted under it.
* `VerifiedMeansAccepted`, `Spec => []AccountSound`.  AccountSound is not
  inductive: that a commit is right depends on what the worker read many steps
  before.  The strengthening is `SoundInv`: unless `doubt`, (`ReadsCurrent`) what a
  worker has read of the account is what the preferences hold; (`CardOwn`) a
  directory deleted since the last edit holds only what this account left in it;
  (`CallsOwn`) a call in progress began with such a directory and can only be
  signed in to this account; (`AcceptedOnly`) past its call a worker has an account
  AdSense accepts, and so has `verified`.  An edit makes the first part false
  unless no worker runs, which is what `doubt` records, and `Wipe` re-establishes
  the second.  One lemma per action shows that it keeps the invariant.
* `PreferencesFound`, `Spec => []CredentialsPresent`.  Why a worker finds both
  preferences is not in the worker: its strengthening, `EnteredInv`, says that
  until the first commit of an account there is no check screen, no menu that
  leads to one, no worker, and `verified` is 0; after it there always is an
  account.  The lemmas go by the kind of step, before the first commit
  (`ShowUntouched`, `UserUntouched`) and after it (`EnteredStays`).
* `EachScreenItsAnswer`, `Spec => []OneAnswerPerScreen`.  What the strengthening,
  `AnswerInv`, adds is that an instance is one screen of the stack, wherever the
  screens below and above it go: a new instance has an identity that no screen and
  no worker has, and a retry, which takes the one of its screen, is only offered on
  a dialog, so that no worker is to answer that screen any more.  `AnswerKept`
  states this once for every operation on the stack that starts no worker, as a
  function from the screens after a step to those before it; the lemmas for adding,
  removing and changing screens follow from it.
* `RequestGoesWithCheck`, `Spec => RequestEndsWithCheck`.  An action property: the
  steps that leave the stack as it is, put a screen on it or change one cannot make
  the last check screen go (`WorkStays` and the lemmas before it), so it is `Back`,
  which resets the flag, or a client that finds the account verified, which happens
  after the commit that reset it.

In **AutoUpdate_proofs**, for any number of threads, screens, accounts and messages:

* `ServiceKeepsAccountSound`, `ServiceFindsPreferences`, `ServiceKeepsAnswers`,
  `AppTypeCorrect`: the four invariants above hold with the service.  Most steps of
  the composition are steps of AccountSetup, and the lemmas proved there are used
  again.  What is new is a thread without a screen: its fetch reads the account in one
  step, and is covered by `SoundInv` as it stands.  That it finds an account is the invariant
  `ServiceEntered`: while the service is started, or has a message, there is one, for
  only a list starts it and a list needs `verified`.
* `SwitchFollowed`, `AppSpec => ServiceFollowsSwitch`.  The invariant is `ServiceInv`:
  the last message tells what the system knows, a start command reaches a service
  that was created and not destroyed since, and without messages the state in memory
  is the system's.  The end of the process re-establishes it, because the commands
  that were not delivered come back behind a "create".

In **Curl_proofs**, for any servers and any size of the cache:

* `TransferSound`, `KeepsOneForEach`, `LosesNoConnection`, `RetriesOnce`.  One
  inductive invariant ties the connection in use to the step of the transfer.  Two
  entries for one server cannot arise, since a new connection is made only after
  `ConnectionExists` has closed every idle dead entry and found no other for the
  server; hence a retry, whose connection was closed, finds none to use again, the
  second attempt is over a new one, and there is no third.

In **AdsenseNative_proofs**, `TypesKept` for any number of callers, and the rest for one
caller (`Callers = {c}`), any accounts, handles, time ranges and streams:

* `SinkStaysOpen`, `PasswordSentOnce`, `RowsAreFresh`, `PseudoSpares`.  None of the four
  is inductive, since each speaks of one moment of a call and rests on what an earlier
  step left in the handle, in the FILE table or in a file.  `CallInv` carries it, in
  parts: `HandleInv` (the handle is open from `curl_local_init` to `Cleanup` and, outside
  the post, not set to POST); `StreamInv` (the stream of `afc_temp.csv` is what
  `WRITEDATA` was set to, and all entries below it are taken, so that closing and opening
  it again gives the same one); `FreshInv` (reports this call has written were
  fetched by it, and it begins with the first); `SparedInv` (and are no page, once
  the pseudo transfer went through and while the session lasts); `SessionInv` and
  `OneSessionInv` (a handle holds one session at most, of those the call may run under,
  and all that was written is of one).
* `LibraryKeepsContract`, `Spec => CallKeepsContract`.  The refinement of ReportCall: each
  step of the C code is mapped, by `Phase`, to the step of the abstract call or to none
  (`NextContract`); that the rows left are of one session is `OneSessionInv`.

One caller is what these need and not a convenience: with two, one's cleanup closes the
handle of the other, which the run `handle_open` shows.

In **ReportTable_proofs**, for reports of any number of lines:

* `TypesKept`; `ListIsWhole`, `Spec => []ListRowsWhole`; `ClickShowsDay`,
  `Spec => []DayShowsClicked`.  `create_report` is a fold over lines within one over
  reports, and the argument is what is kept along both: each complete row is
  whole, and the unfinished one at the end is the labels of the ranges since the last
  report.  What is then proved of tables is carried to the list and the screen by `TableInv` and
  `DayInv`.  There are two hypotheses.  `SiteAnswers`: what is fetched is a report or has
  none of the words `create_report` looks for.  `Ranges < Columns`: there are fewer ranges
  than fields of a row.  The code has six and seven; with seven ranges a report
  followed by six pages would leave a row of labels under a whole one.

In **Curl_proofs** too, for any file and any cookies set:

* `OneEachKept`, `CookieSpec => []OneCookieEach`; `StoreIsKept`, `CookieSpec => StoreKept`,
  the refinement of CookieStore.  `CookieInv` says that the list has one cookie of an
  identity, and that while the file is written it has the lines of the first `saved` of them.  A file is
  read by a fold, of which `LoadRun` keeps what the list after each line is.  A death while
  saving adds one more line to that file, read as one of `Remains` (`HalfLineIs`); as it is
  added to the list of the others, it replaces one cookie at most (`AddLineIs`, `StoreDies`).

And for any chunks and trailers, of any number and length:

* `DecodesChunks`, `ChunkSpec => []ChunksDecoded`.  `ChunkInv` says, for each state of
  `ch`, what the bytes still to be read are: the rest of the encoding from the place
  this state stands for (`SizeInv`: the rest of a size line; `DataInv`: `datasize`
  bytes of data and the CR LF after them; `TrailerInv`, `StopInv`), and that what
  was given to the client, followed by what that rest holds, is what was sent.  The
  bytes in `piece` and those in `coming` only count together, so that `Receive`,
  which cuts them anywhere, keeps it.  Where the data holds a CR, an LF or a digit
  it is `datasize` alone that tells them from framing.

In **Texts_proofs**, for texts of any length:

* `NothingLost`, `BufferHolds`, `FieldsAreRead`: `EncodedSoFar`, `EncodedFits` and
  `FieldsReadBack` of UrlCode.  `UrlInv` says that the buffer is, one after the other, the
  encodings of the bytes read of the parameters, with the places (`Encodes`) where each
  begins.  A part of the buffer is then the encoding of a part of the text, and the `&` of the
  one are those of the other.
* `BlocksReadBack`, `FailureHasReason`: `ConvertedAsRead` and `FailureExplained` of
  ConvertUtf, for any size of the block.  `Reads(bytes, units)` is "the bytes are read as
  these units, whatever follows them", which one code point has, which holds of
  two texts joined if it holds of both, and so of every converted block.  `UtfInv`: the report is read
  up to some unit, and what is written reads as it, or on a failure as the blocks before.
  A conversion fails only at half of a pair (`FailsAt`), and `BlockExplained` finds
  that half in the report or just past the block.

In **CsvReader_proofs**, for files of any lines:

* `RowsEndWithPairs`, `CsvSpec => []RowsEndOutsideQuotes`.  `parseLine` takes two quotes at
  once in one case, one in another, and by what stands beside it; `ParityKept` shows
  that in each case the number of quotes behind it says whether one is open, and `RowsInv`
  carries that from line to line.
* `RowsReadBack`, `CsvSpec => []WrittenRowsRead`, for tables of any size and fields of any
  characters.  Of the rows alone it is not inductive: that the next one is right depends on what the
  writer put into the lines not read yet.  The strengthening is `WrittenInv`: between
  rows, the text of the lines behind is that of the rows left; where a line ended within a field, the
  field read so far, what is left of it and the other fields are a row, and the text behind is the
  rest of that row and then of the others.  `InRow` says the same at each character of a line, in one
  of three places: within quotes (`InField`), in a field without quotes or behind its quotes
  (`InPlain`), before an opening quote (`BeforeField`).  `FieldRead`, `PlainRead` and
  `QuoteRead` take `parseLine` through a character in each.  What a unit test hardly
  reaches is there: a doubled quote is never split by the end of a line, the quote that closes a field is
  never taken for half of a doubled one, as a separator or the end of its line follows it; and the rule
  that keeps a quote between two other characters (`OtherQuote`) never applies to what was
  written, as an opening quote begins its line or follows a separator.  That the file is the text
  of the table in the first place is `WrittenIs`: cutting a text into lines loses nothing
  but what follows the last end of a line.

**Recursion** has the induction of these proofs.  The provers cannot instantiate a theorem of induction,
which takes an operator; but a set of numbers with a member has a least one
(`LeastNumber`), and that is enough: what holds at 0 and goes from a number to the next holds
of all (`CountUp`), a fold is the end of a run of its steps (`FoldRuns`), and a function that
is recursive on the positions of a text exists and is what its equation says.  On the
folds rest the lemmas on texts put together from parts: `FlatMap` begins with what its first element
gives (`FlatMapFirst`) and ends with what its last one gives (`FlatMapLast`), which is what stands for
an induction over a list.

To prove `FieldsReadBack` it had to be said better.  The encoder runs over the fields already
joined and leaves every `&` as it is, so a typed one ends its field, and what was typed after it
can begin with the name of the other.  The property says what the server then reads for a
name, all its texts, and that it is what was typed where no `&` is.

The assumptions are those of CallContract and AccountSetup: accepted accounts and
typed accounts are credentials, `Null` and `NoId` are values apart, `MaxStack` is a
number; and those of the other modules: `NoHandle` is no handle and `NoServer` no server;
`Reports`, `Ranges`, `BSIZ` and `Connections` are positive numbers, `Slots`,
`MaxMessages`, `MaxUnits` and the lengths of typed texts are numbers; typed bytes are 1 to
255, units 16 bits, and what is fetched is made of the kinds of lines; a name that is cut is one
of the names, and what servers set are cookies whose values are not cut.  Of a server that
sends chunks (`ChunksAssumption`, `TrailersAssumption`): a size is the number of bytes
of its chunk, in at most `MAXNUM_SIZE` digits, only the last chunk has none, an extension has
no digit first and no LF, and a trailer is not empty and has neither CR nor LF.

Only model-checked: `CheckAnswered`, a liveness property, which is out of the prover's
reach (it needs ENABLED), and of course the runs that refute something.  Every safety
property a passing run checks is also a theorem.

## 7. What the models leave out

* The activity stack is Android's.  A started activity is on it at once and is
  created when it comes to the front; until then the screen before takes input.
  Only the screen in front is rotated, the theme is a nondeterministic reload, and
  the stack is not restored after the end of the process.
* `verified` and `refresh` are read in one step in onCreate and onResume; `rm -r`
  and `mkdirs` are one step; a cookie file is written in one step.
* AccountSetup makes a call five steps, and lets calls in progress at the same time
  run under each other's sessions: they use one handle, which libcurl does not
  allow, and this is more than any outcome that does not end the process.
  `isInternetOn` and the network answer anything at any time.
* The exceptions caught in the worker's `run` are not modelled, the branch for a
  missing preference is (and is dead: `CredentialsPresent`), as is status 3, which
  no call answers.
* In AdsenseNative a transfer is one step, and what the servers answer is `Answers`
  and `FetchedLine`: a page is told only by what the code looks for in it, any
  answer can end a session, and the first report request of a session gets the
  main page, as the comment at `curl.c` 281 has it.  An empty answer, on which
  `strcasestr(NULL)` ends the process, is `ProcessDies`.  After a handle was
  cleaned up under a caller, its next use can only end the process.
* In ReportTable the merge writes to a stream that is not flushed before it is
  closed (the table is smaller than the buffer), and the directory is not deleted
  during a merge.  A report is whole, missing, or has none of the words
  create_report looks for, as a page or a report without its end.  Not covered: a
  report without a line of a day, or cut between totals and averages; after pages
  such a one can make seven fields too.  One instance of the client at a time.
* In AutoUpdate the theme, and with it which of the two lists is made, is left out:
  both drive the service alike.  The task of a start command begins when the command
  is handled.  A system short of memory ends the process, never the service alone.
  A service is started again for the commands that were not delivered, all or some
  of them, as START_NOT_STICKY has it.
* In UrlCode the names of the fields are one letter each and the other parameters
  are one; bytes are 1 to 255, and `to_hex` masks a sign.  `isalnum` is that of the C
  locale.
* In CurlTransfer SSL, name resolution and proxies are the outcomes of `Connect`; a
  connection is told by its server; `POSTREDIR` is not set, and the codes are the
  ones that differ.  After a reconnect the request is written by the pointer to the
  connection that was freed (`url.c` 5317): undefined, modelled as a write that
  succeeds or fails.  HEAD, uploads, ranges and authentication are not used by the
  program.
* In CurlCookies a cookie is its name and domain, path and value, and only a value has a TAB; expiry, `secure` and
  matching of hosts are left out, and so is a cookie a server deletes by an old
  date, which stays in the list as any other until a request looks at it.  Two handles
  on the file are in AdsenseNative.
* In HttpChunks writing to the client does not fail, and no content encoding is set.
  A server sends what the encoding allows, or a CR within an extension, and `strtoul`
  is exact: sizes that do not fit a `long` are left out.
* In ConvertUtf writing to the file does not fail, and `malloc` returns memory.
* In CsvReader lines are those of a reader that ends them at line feeds, with the
  separator and quote of the program's two constructor calls.
* Not modelled: the summaries of preferences, which only set texts; mxml, which no
  file of the program uses; AdMob, resources and generated code; and the rest of
  libcurl.  The vendored libraries, and the command line tool that comes with
  libcurl, are over nine tenths of the C code in the repository.  The program calls
  a small part of them; the modules above take from it what a call of the program
  depends on and has a behaviour of its own, and leave FTP, SSH, LDAP, mail
  protocols, the multi interface, SSL backends and `curl` itself alone.

## 8. Plan

Done: all parts of the program itself, their composition (AutoUpdate), and of libcurl
the transfers, cookies and chunks.  Next, in this order:

1. The composition of AdsenseNative with CurlTransfer and CurlCookies in the place of
   its one-step transfers, and with it what a status of `reconnect` does to a call.
2. Of libcurl, header parsing (`Curl_http_readwrite_headers`) with its decisions on
   `Connection`, `Content-Length` and `Location`, on which CurlTransfer's answers
   depend.
3. **PreferenceSummaries**: the change listener and its guard against re-entry.
