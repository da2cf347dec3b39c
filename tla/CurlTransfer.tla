---------------------------- MODULE CurlTransfer ----------------------------
(***************************************************************************)
(* curl_easy_perform of libcurl, as the native library uses one handle for *)
(* all transfers of a call: it follows redirects (CURLOPT_FOLLOWLOCATION,  *)
(* without a limit), keeps a few connections for the next transfers, and   *)
(* tries once more when one of them turns out to be dead.  A server may    *)
(* close any of them at any time.                                          *)
(***************************************************************************)
EXTENDS Naturals, FiniteSets

CONSTANTS Servers,      \* what tells connections apart: scheme, host and port
          NoServer,
          Connections   \* size of the connection cache, 5 in the code

ASSUME NoServerAssumption == NoServer \notin Servers
ASSUME ConnectionsAssumption == Connections \in Nat \ {0}

VARIABLES connects,   \* the entries of the connection cache
          conn,       \* the connection of this request, 0 if it has none
          step,       \* where curl_easy_perform is
          url,        \* data->change.url
          httpreq,    \* data->set.httpreq
          httpcode,   \* data->info.httpcode, 0 at the beginning of a transfer
          counted,    \* data->state.current_conn, if http->readbytecount is not 0;
                      \* else 0
          tries       \* history: how this request was tried so far

transferVars == <<connects, conn, step, url, httpreq, httpcode, counted, tries>>

Slots == 1 .. Connections

\* What the server did with a connection (dead) is not known before it is used.
Entries == [server : Servers \cup {NoServer}, inuse : BOOLEAN, reuse : BOOLEAN, dead : BOOLEAN]

Unused == [server |-> NoServer, inuse |-> FALSE, reuse |-> FALSE, dead |-> FALSE]

\* How a transfer ended: "done", an error, or "empty", which is GOT_NOTHING,
\* "Empty reply from server".
Ends == {"done", "error", "empty"}

Steps == Ends \cup {"connect", "do", "reconnect", "redo", "transfer"}

Methods == {"GET", "POST"}

Redirects == {301, 302, 303, 307}

\* A request of this hop: how often it was sent, and as what.
NoTries == [sent |-> 0, as |-> {}]

TransferTypeOK ==
  /\ connects \in [Slots -> Entries] /\ conn \in 0 .. Connections
  /\ step \in Steps /\ (step \in Ends \/ url \in Servers)
  /\ httpreq \in Methods /\ httpcode \in {0, 200} \cup Redirects
  /\ counted \in 0 .. Connections
  /\ tries \in [sent : 0 .. 2, as : SUBSET Methods]

TransferInit ==
  /\ connects = [i \in Slots |-> Unused]
  /\ conn = 0 /\ step = "done"
  /\ url = NoServer /\ httpreq = "GET" /\ httpcode = 0
  /\ counted = 0 /\ tries = NoTries
-----------------------------------------------------------------------------
Idle(i) == connects[i] # Unused /\ ~ connects[i].inuse

\* Curl_disconnect.  Whichever connection it closes, current_conn is NULL then, and the
\* next request frees what was counted.
Without(closed) == [i \in Slots |-> IF i \in closed THEN Unused ELSE connects[i]]

\* The application sets the URL and the method, and calls: Curl_pretransfer.
Perform ==
  /\ step \in Ends
  /\ url' \in Servers /\ httpreq' \in Methods
  /\ httpcode' = 0
  /\ step' = "connect" /\ tries' = NoTries
  /\ UNCHANGED <<connects, conn, counted>>

\* A server closes a connection.
ServerCloses(i) ==
  /\ connects[i] # Unused /\ ~ connects[i].dead
  /\ connects' = [connects EXCEPT ![i].dead = TRUE]
  /\ UNCHANGED <<conn, step, url, httpreq, httpcode, counted, tries>>
-----------------------------------------------------------------------------
(* Curl_connect. *)

\* ConnectionExists: the first entry that will do ...
Matches(i) == Idle(i) /\ ~ connects[i].dead /\ connects[i].server = url

ConnectionExists == \E i \in Slots : Matches(i)

FirstMatch(i) == Matches(i) /\ \A j \in 1 .. i - 1 : ~ Matches(j)

\* Mutant: the dead are passed over.
NoneDead(last) == {}

\* ... and those found dead on the way to it, which are closed.
Dead(last) == {i \in 1 .. last : Idle(i) /\ connects[i].dead}

\* ConnectionStore: the first free entry, or else that of an idle connection, the one
\* longest unused (which one it is makes no difference here).
RoomIn(cache) ==
  IF \E i \in Slots : cache[i] = Unused
  THEN {i \in Slots : cache[i] = Unused /\ \A j \in 1 .. i - 1 : cache[j] # Unused}
  ELSE {i \in Slots : ~ cache[i].inuse}

NewConnection == [server |-> url, inuse |-> TRUE, reuse |-> FALSE, dead |-> FALSE]

Reuse(next) ==
  \E i \in Slots :
    /\ FirstMatch(i)
    /\ conn' = i
    /\ connects' = [Without(Dead(i)) EXCEPT ![i].inuse = TRUE, ![i].reuse = TRUE]
    /\ counted' = IF Dead(i) = {} THEN counted ELSE 0
    /\ step' = next

\* A new connection is stored, and then set up: if that fails, it is taken out again.
\* What was counted is not of this connection, and so is freed.
Connect(next) ==
  /\ ~ ConnectionExists
  /\ counted' = 0
  /\ LET cache == Without(Dead(Connections))
     IN \E i \in RoomIn(cache) :
          \/ /\ connects' = [cache EXCEPT ![i] = NewConnection]
             /\ conn' = i /\ step' = next
          \/ /\ connects' = [cache EXCEPT ![i] = Unused]
             /\ conn' = 0 /\ step' = "error"

CurlConnect ==
  /\ \/ step = "connect" /\ (Reuse("do") \/ Connect("do"))
     \/ step = "reconnect" /\ (Reuse("redo") \/ Connect("redo"))
  /\ UNCHANGED <<url, httpreq, httpcode, tries>>
-----------------------------------------------------------------------------
(* Curl_do. *)

\* Mutant: ConnectionDone is not called.
KeepInUse == UNCHANGED connects /\ conn' = 0

\* Curl_reset_reqproto, with which a request begins: the count of a request on another
\* connection is freed.
OwnCount == IF counted = conn THEN conn ELSE 0

\* The two ends of Curl_done: ConnectionDone and Curl_disconnect.
KeepConnection == connects' = [connects EXCEPT ![conn].inuse = FALSE] /\ conn' = 0

CloseConnection == connects' = [connects EXCEPT ![conn] = Unused] /\ conn' = 0

\* The request is written.  To a connection the server closed this may succeed.  In
\* the second attempt it is written by the pointer to the connection that was closed
\* instead of the new one: undefined, and it arrives if the sockets have the same
\* number.
Send ==
  /\ step \in {"do", "redo"}
  /\ step' = "transfer"
  /\ tries' = [sent |-> tries.sent + 1, as |-> tries.as \cup {httpreq}]
  /\ counted' = OwnCount
  /\ UNCHANGED <<connects, conn, url, httpreq, httpcode>>

\* It cannot be written, which is the end unless the connection was used before.
SendFails ==
  /\ \/ step = "do" /\ connects[conn].dead /\ ~ connects[conn].reuse
     \/ step = "redo"
  /\ KeepConnection
  /\ step' = "error" /\ counted' = OwnCount
  /\ UNCHANGED <<url, httpreq, httpcode, tries>>

\* Curl_reconnect_request closes the connection, for another attempt.  But Curl_done
\* asks the protocol on the way how the request went, and the count of bytes by which
\* it tells an empty reply, an error, is that of the request before, if it was on this
\* connection, or else 0.
ReconnectRequest ==
  /\ step = "do" /\ connects[conn].dead /\ connects[conn].reuse
  /\ CloseConnection /\ counted' = 0
  /\ step' = IF OwnCount = 0 THEN "empty" ELSE "reconnect"
  /\ UNCHANGED <<url, httpreq, httpcode, tries>>
-----------------------------------------------------------------------------
(* Transfer, and what Curl_do_perform makes of its result. *)

\* Curl_follow: the method of the next request, by the code of the last answer.
Followed(method, code) == IF code \in {301, 302, 303} THEN "GET" ELSE method

\* An answer, with a body or without one, after which the connection can be kept or not.
\* Redirects have no end.
Answer ==
  /\ step = "transfer"
  /\ \/ KeepConnection /\ counted' \in {0, conn}
     \/ CloseConnection /\ counted' = 0
  /\ \/ /\ httpcode' = 200 /\ step' = "done"
        /\ UNCHANGED <<url, httpreq, tries>>
     \/ /\ httpcode' \in Redirects /\ step' = "connect"
        /\ url' \in Servers
        /\ httpreq' = Followed(httpreq, httpcode')
        /\ tries' = NoTries

\* A part of an answer.
AnswerBreaksOff ==
  /\ step = "transfer" /\ connects[conn].dead
  /\ CloseConnection /\ counted' = 0
  /\ step' = "error"
  /\ UNCHANGED <<url, httpreq, httpcode, tries>>

\* Mutant: any connection is worth another try.
AlwaysWanted == TRUE

\* Curl_retry_request, when not a byte came.
RetryWanted == connects[conn].reuse

\* The retry is a Curl_follow to the same URL, which looks at the last code as well.
Retry ==
  /\ step = "transfer" /\ connects[conn].dead
  /\ RetryWanted
  /\ CloseConnection /\ counted' = 0
  /\ step' = "connect"
  /\ httpreq' = Followed(httpreq, httpcode)
  /\ UNCHANGED <<url, httpcode, tries>>

\* A connection that was new: the end of the stream is an empty reply, an error of
\* the socket an error.
NoAnswer ==
  /\ step = "transfer" /\ connects[conn].dead
  /\ ~ RetryWanted
  /\ \/ KeepConnection /\ step' = "empty"
     \/ CloseConnection /\ step' = "error"
  /\ counted' = 0
  /\ UNCHANGED <<url, httpreq, httpcode, tries>>

TransferNext ==
  \/ Perform \/ (\E i \in Slots : ServerCloses(i))
  \/ CurlConnect \/ Send \/ SendFails \/ ReconnectRequest
  \/ Answer \/ AnswerBreaksOff \/ Retry \/ NoAnswer

TransferSpec == TransferInit /\ [][TransferNext]_transferVars
-----------------------------------------------------------------------------
(* Properties. *)

\* "The retry cannot possibly find another connection to re-use, since we only keep
\* one possible connection for each": two entries of the cache are never connections
\* to the same server, however they got there and whichever of them died.
OneConnectionForEach ==
  \A i, j \in Slots : connects[i] # Unused /\ connects[i].server = connects[j].server => i = j

\* No way a transfer ends leaves a connection marked as in use, which would never be
\* used again nor give up its entry: the one in use is the one of this request.
NoConnectionLost ==
  /\ \A i \in Slots : connects[i].inuse <=> i = conn
  /\ step \in Ends => conn = 0

\* A request is sent at most twice, the second time on a new connection and as what
\* it was the first time, though the second attempt passes through the code that turns
\* a POST into a GET by the code of an answer.
RetriedOnceAsItWas ==
  /\ tries.sent <= 2
  /\ tries.sent = 2 /\ conn # 0 => ~ connects[conn].reuse
  /\ Cardinality(tries.as) <= 1

\* Of a write error on a re-used connection: "Then we DISCONNECT this connection and
\* have another attempt to CONNECT and then DO again!"  So a reply is called empty
\* only if the request was sent.  Refuted: see the README.
EmptyReplyToRequest == step = "empty" => tries.sent > 0
=============================================================================
