----------------------------- MODULE Curl_proofs -----------------------------
(***************************************************************************)
(* Theorems about libcurl.  For any number of servers and connections: the *)
(* cache has one connection for each server, and a request is sent at most *)
(* twice.  For any names, any values and any number of cookies: a list has *)
(* one cookie of an identity, and the list and the file together keep what *)
(* CookieStore promises.  For any chunks and trailers, cut anywhere: the   *)
(* client gets what the server sent, and nothing of the framing.           *)
(***************************************************************************)
EXTENDS CurlTransfer, CurlCookies, HttpChunks, Recursion, SequenceTheorems, FiniteSetTheorems

-----------------------------------------------------------------------------
(* CurlTransfer: the connections.                                          *)

\* The cache is sound: an entry without a server is not used, the connection of the
\* request is the only one in use, and there is one for each server.
CacheIs(cache, k) ==
  /\ cache \in [Slots -> Entries]
  /\ \A i \in Slots : cache[i].server = NoServer => cache[i] = Unused
  /\ \A i \in Slots : cache[i].inuse <=> i = k
  /\ \A i, j \in Slots :
       cache[i].server # NoServer /\ cache[i].server = cache[j].server => i = j

\* The connection of the request is to its server, and there is one when it is needed.
ConnFits ==
  /\ step \in Ends \cup {"connect", "reconnect"} => conn = 0
  /\ step \in {"do", "redo", "transfer"} => conn \in Slots /\ connects[conn].server = url

CacheInv == CacheIs(connects, conn) /\ ConnFits

NoneFor(server) == \A i \in Slots : connects[i].server # server

\* How often the request was sent, by where curl_easy_perform is: a connection that was
\* used before is only found for a request that was not sent yet.
SentInv ==
  /\ step = "connect" => tries.sent = 0 \/ (tries.sent = 1 /\ NoneFor(url))
  /\ step = "reconnect" => tries.sent = 0 /\ NoneFor(url)
  /\ step = "do" => tries.sent = 0 \/ (tries.sent = 1 /\ ~ connects[conn].reuse)
  /\ step = "redo" => tries.sent = 0 /\ ~ connects[conn].reuse
  /\ step = "transfer" => tries.sent = 1 \/ (tries.sent = 2 /\ ~ connects[conn].reuse)

\* A request that is to be a POST did not get an answer that would turn it into a GET.
MethodInv ==
  /\ tries.as \subseteq {httpreq}
  /\ httpreq = "POST" => httpcode \notin {301, 302, 303}

TransferInv == TransferTypeOK /\ CacheInv /\ SentInv /\ MethodInv
-----------------------------------------------------------------------------
(* What the operations on the cache preserve. *)

\* What an entry that is not used is.
LEMMA UnusedEntry == Unused \in Entries /\ Unused.server = NoServer /\ ~ Unused.inuse
  BY DEF Unused, Entries

\* Closing connections that are not in use.
LEMMA WithoutCache ==
  ASSUME NEW k, CacheIs(connects, k), NEW closed, k \notin closed
  PROVE  CacheIs(Without(closed), k)
  BY UnusedEntry DEF CacheIs, Without

\* Taking an idle one.
LEMMA TakeCache ==
  ASSUME NEW cache, CacheIs(cache, 0), NEW i \in Slots, cache[i] # Unused
  PROVE  /\ CacheIs([cache EXCEPT ![i].inuse = TRUE, ![i].reuse = TRUE], i)
         /\ [cache EXCEPT ![i].inuse = TRUE, ![i].reuse = TRUE][i].server = cache[i].server
<1> DEFINE new == [cache EXCEPT ![i].inuse = TRUE, ![i].reuse = TRUE]
<1>1. cache[i] \in Entries /\ 0 \notin Slots
  BY DEF CacheIs, Slots
<1>2. new \in [Slots -> Entries] /\ \A j \in Slots : new[j].server = cache[j].server
  BY <1>1 DEF CacheIs, Entries
<1>3. new[i].inuse /\ \A j \in Slots \ {i} : new[j] = cache[j]
  BY <1>1 DEF CacheIs, Entries
<1> QED
  BY <1>1, <1>2, <1>3 DEF CacheIs

\* Giving one back.
LEMMA ReleaseCache ==
  ASSUME NEW i \in Slots, CacheIs(connects, i)
  PROVE  CacheIs([connects EXCEPT ![i].inuse = FALSE], 0)
<1> DEFINE new == [connects EXCEPT ![i].inuse = FALSE]
<1>1. connects[i] \in Entries /\ 0 \notin Slots
  BY DEF CacheIs, Slots
<1>2. new \in [Slots -> Entries] /\ \A j \in Slots : new[j].server = connects[j].server
  BY <1>1 DEF CacheIs, Entries
<1>3. ~ new[i].inuse /\ \A j \in Slots \ {i} : new[j] = connects[j]
  BY <1>1 DEF CacheIs, Entries
<1>4. connects[i] # Unused
  BY UnusedEntry DEF CacheIs
<1>5. connects[i].server # NoServer
  BY <1>4 DEF CacheIs
<1> QED
  BY <1>1, <1>2, <1>3, <1>5 DEF CacheIs

\* Closing one, of whichever state.
LEMMA CloseCache ==
  ASSUME NEW cache, NEW k, CacheIs(cache, k), NEW i \in Slots, k \in {0, i}
  PROVE  /\ CacheIs([cache EXCEPT ![i] = Unused], 0)
         /\ \A j \in Slots : cache[i].server # NoServer =>
              [cache EXCEPT ![i] = Unused][j].server # cache[i].server
  BY UnusedEntry DEF CacheIs, Slots

\* Storing a new one, of a server that has none.
LEMMA StoreCache ==
  ASSUME NEW cache, CacheIs(cache, 0), NEW i \in Slots, url \in Servers,
         \A j \in Slots : cache[j].server # url
  PROVE  CacheIs([cache EXCEPT ![i] = NewConnection], i)
<1>1. NewConnection \in Entries /\ NewConnection.server = url /\ NewConnection.inuse
  BY DEF NewConnection, Entries
<1>2. url # NoServer /\ 0 \notin Slots
  BY NoServerAssumption DEF Slots
<1> QED
  BY <1>1, <1>2 DEF CacheIs
-----------------------------------------------------------------------------
(* The steps. *)

\* What a request starts with.
LEMMA NoTriesType ==
  NoTries \in [sent : 0 .. 2, as : SUBSET Methods] /\ NoTries.sent = 0 /\ NoTries.as = {}
<1>1. {} \in SUBSET Methods /\ 0 \in 0 .. 2
  OBVIOUS
<1> QED
  BY <1>1 DEF NoTries

\* It begins so.
LEMMA InitInv == TransferInit => TransferInv
<1> SUFFICES ASSUME TransferInit PROVE TransferInv
  OBVIOUS
<1>1. 0 \in 0 .. Connections /\ 0 \notin Slots
  BY ConnectionsAssumption DEF Slots
<1>2. CacheIs(connects, conn)
  BY <1>1, UnusedEntry DEF TransferInit, CacheIs
<1>3. TransferTypeOK
  BY <1>1, <1>2, NoTriesType DEF TransferInit, TransferTypeOK, CacheIs, Steps, Ends, Methods
<1>4. CacheInv
  BY <1>2 DEF TransferInit, CacheInv, ConnFits, Ends
<1>5. SentInv /\ MethodInv
  BY DEF TransferInit, SentInv, MethodInv, NoTries
<1> QED
  BY <1>3, <1>4, <1>5 DEF TransferInv

\* ConnectionExists found one: the request was not sent, or it was sent and there is none.
LEMMA ReuseInv ==
  ASSUME TransferInv, NEW next, Reuse(next),
         \/ step = "connect" /\ next = "do"
         \/ step = "reconnect" /\ next = "redo",
         UNCHANGED <<url, httpreq, httpcode, tries>>
  PROVE  TransferInv'
<1>1. PICK i \in Slots :
        /\ FirstMatch(i)
        /\ conn' = i
        /\ connects' = [Without(Dead(i)) EXCEPT ![i].inuse = TRUE, ![i].reuse = TRUE]
        /\ counted' = IF Dead(i) = {} THEN counted ELSE 0
        /\ step' = next
  BY DEF Reuse
<1>2. conn = 0 /\ CacheIs(connects, 0) /\ url \in Servers
  BY DEF TransferInv, CacheInv, ConnFits, TransferTypeOK, Ends
<1>3. connects[i].server = url /\ connects[i] # Unused /\ i \notin Dead(i)
  BY <1>1 DEF FirstMatch, Matches, Idle, Dead
<1>4. step = "connect" /\ next = "do" /\ tries.sent = 0
  BY <1>3 DEF TransferInv, SentInv, NoneFor
<1> DEFINE cache == Without(Dead(i))
<1>5. CacheIs(cache, 0) /\ cache[i] = connects[i]
  <2>1. 0 \notin Dead(i)
    BY DEF Dead, Slots
  <2>2. cache[i] = connects[i]
    BY <1>3 DEF Without
  <2> QED
    BY <1>2, <2>1, <2>2, WithoutCache
<1>6. CacheIs(connects', i) /\ connects'[i].server = url
  <2>1. cache[i] # Unused /\ cache[i].server = url
    BY <1>3, <1>5
  <2>2. connects' = [cache EXCEPT ![i].inuse = TRUE, ![i].reuse = TRUE]
    BY <1>1
  <2> HIDE DEF cache
  <2> QED
    BY <1>5, <2>1, <2>2, TakeCache
<1>7. TransferTypeOK'
  BY <1>1, <1>2, <1>4, <1>6, ConnectionsAssumption DEF TransferInv, TransferTypeOK, CacheIs, Steps, Slots
<1> QED
  BY <1>1, <1>4, <1>6, <1>7 DEF TransferInv, CacheInv, ConnFits, SentInv, MethodInv, Ends

\* A new connection: there was none to the server.
LEMMA ConnectInv ==
  ASSUME TransferInv, NEW next, Connect(next),
         \/ step = "connect" /\ next = "do"
         \/ step = "reconnect" /\ next = "redo",
         UNCHANGED <<url, httpreq, httpcode, tries>>
  PROVE  TransferInv'
<1> DEFINE cache == Without(Dead(Connections))
<1>1. conn = 0 /\ CacheIs(connects, 0) /\ url \in Servers /\ counted' = 0
  BY DEF TransferInv, CacheInv, ConnFits, TransferTypeOK, Ends, Connect
<1>2. CacheIs(cache, 0)
  BY <1>1, WithoutCache, ConnectionsAssumption DEF Dead
<1>3. \A j \in Slots : cache[j].server # url
  <2> SUFFICES ASSUME NEW j \in Slots, cache[j].server = url PROVE FALSE
    OBVIOUS
  <2>1. cache[j] # Unused /\ cache[j] = connects[j] /\ j \notin Dead(Connections)
    BY <1>1, NoServerAssumption, UnusedEntry DEF Without
  <2>2. Idle(j) /\ ~ connects[j].dead
    BY <1>1, <2>1, ConnectionsAssumption DEF Idle, Dead, CacheIs, Slots
  <2> QED
    BY <2>1, <2>2 DEF Connect, ConnectionExists, Matches
<1>4. PICK i \in Slots :
        \/ connects' = [cache EXCEPT ![i] = NewConnection] /\ conn' = i /\ step' = next
        \/ connects' = [cache EXCEPT ![i] = Unused] /\ conn' = 0 /\ step' = "error"
  BY DEF Connect, RoomIn
<1>5. CASE connects' = [cache EXCEPT ![i] = NewConnection] /\ conn' = i /\ step' = next
  <2>1. CacheIs(connects', i)
    BY <1>1, <1>2, <1>3, <1>5, StoreCache
  <2>2. connects'[i] = NewConnection
    BY <1>2, <1>5 DEF CacheIs
  <2>3. connects'[i].server = url /\ ~ connects'[i].reuse
    BY <2>2 DEF NewConnection
  <2>4. TransferTypeOK'
    BY <1>1, <1>5, <2>1, ConnectionsAssumption DEF TransferInv, TransferTypeOK, CacheIs, Steps, Slots
  <2> QED
    BY <1>5, <2>1, <2>3, <2>4 DEF TransferInv, CacheInv, ConnFits, SentInv, MethodInv, Ends
<1>6. CASE connects' = [cache EXCEPT ![i] = Unused] /\ conn' = 0 /\ step' = "error"
  <2>1. CacheIs(connects', 0)
    BY <1>2, <1>6, CloseCache
  <2>2. TransferTypeOK'
    BY <1>1, <1>6, <2>1, ConnectionsAssumption
    DEF TransferInv, TransferTypeOK, CacheIs, Steps, Ends
  <2> QED
    BY <1>6, <2>1, <2>2 DEF TransferInv, CacheInv, ConnFits, SentInv, MethodInv, Ends
<1> QED
  BY <1>4, <1>5, <1>6

\* Curl_done gives the connection back, or closes it and leaves none to its server.
LEMMA ConnectionDone ==
  ASSUME TransferInv, step \in {"do", "redo", "transfer"}, KeepConnection \/ CloseConnection
  PROVE  /\ CacheIs(connects', 0) /\ conn' = 0
         /\ CloseConnection => \A i \in Slots : connects'[i].server # url
<1>1. conn \in Slots /\ CacheIs(connects, conn) /\ connects[conn].server = url /\ url # NoServer
  BY NoServerAssumption DEF TransferInv, CacheInv, ConnFits, TransferTypeOK, Ends
<1>2. KeepConnection => CacheIs(connects', 0)
  BY <1>1, ReleaseCache DEF KeepConnection
<1>3. CloseConnection => CacheIs(connects', 0) /\ \A i \in Slots : connects'[i].server # url
  BY <1>1, CloseCache DEF CloseConnection
<1> QED
  BY <1>2, <1>3 DEF KeepConnection, CloseConnection

\* What is counted is of the connection of the request, or nothing.
LEMMA OwnCountType == ASSUME TransferInv PROVE OwnCount \in 0 .. Connections
  BY ConnectionsAssumption DEF OwnCount, TransferInv, TransferTypeOK

\* The rest of a request, between Curl_connect and its end.
LEMMA RequestInv ==
  ASSUME TransferInv,
         Send \/ SendFails \/ ReconnectRequest \/ Answer \/ AnswerBreaksOff \/ Retry \/ NoAnswer
  PROVE  TransferInv'
<1>1. CASE Send
  <2>1. tries' \in [sent : 0 .. 2, as : SUBSET Methods]
    <3>1. tries.sent + 1 \in 0 .. 2
      BY <1>1 DEF Send, TransferInv, TransferTypeOK, SentInv
    <3>2. (tries.as \cup {httpreq}) \in SUBSET Methods
      BY DEF TransferInv, TransferTypeOK
    <3> QED
      BY <1>1, <3>1, <3>2 DEF Send
  <2>2. TransferTypeOK'
    BY <1>1, <2>1, OwnCountType DEF Send, TransferInv, TransferTypeOK, Steps, Ends
  <2>3. CacheInv'
    BY <1>1 DEF Send, TransferInv, CacheInv, ConnFits, Ends, CacheIs, Slots
  <2>4. SentInv' /\ MethodInv'
    BY <1>1 DEF Send, TransferInv, SentInv, MethodInv
  <2> QED
    BY <2>2, <2>3, <2>4 DEF TransferInv
<1>2. CASE SendFails \/ ReconnectRequest \/ Answer \/ AnswerBreaksOff \/ Retry \/ NoAnswer
  <2>1. step \in {"do", "redo", "transfer"} /\ (KeepConnection \/ CloseConnection)
    BY <1>2 DEF SendFails, ReconnectRequest, Answer, AnswerBreaksOff, Retry, NoAnswer
  <2>2. CacheIs(connects', 0) /\ conn' = 0
    BY <2>1, ConnectionDone
  <2>3. url \in Servers /\ step' \in Ends \cup {"connect", "reconnect"}
    BY <1>2, <2>1 DEF SendFails, ReconnectRequest, Answer, AnswerBreaksOff, Retry, NoAnswer,
       TransferInv, TransferTypeOK, Ends
  <2>4. CacheInv'
    BY <2>2, <2>3 DEF CacheInv, ConnFits, Ends
  <2>5. MethodInv' /\ httpreq' \in Methods
    <3>1. CASE SendFails \/ ReconnectRequest \/ AnswerBreaksOff \/ NoAnswer
      BY <3>1 DEF SendFails, ReconnectRequest, AnswerBreaksOff, NoAnswer, TransferInv,
         TransferTypeOK, MethodInv
    <3>2. CASE Answer
      BY <3>2, NoTriesType DEF Answer, Followed, TransferInv, TransferTypeOK, MethodInv, Methods
    <3>3. CASE Retry
      BY <3>3 DEF Retry, Followed, TransferInv, TransferTypeOK, MethodInv, Methods
    <3> QED
      BY <1>2, <3>1, <3>2, <3>3
  <2>6. TransferTypeOK'
    <3>1. connects' \in [Slots -> Entries] /\ conn' \in 0 .. Connections /\ step' \in Steps
      BY <2>2, <2>3, ConnectionsAssumption DEF CacheIs, Steps
    <3>2. url' \in Servers /\ httpcode' \in {0, 200} \cup Redirects /\ counted' \in 0 .. Connections
      <4>1. url' \in Servers
        BY <1>2, <2>3, ZenonT(40) DEF SendFails, ReconnectRequest, Answer, AnswerBreaksOff, Retry,
           NoAnswer, TransferInv, TransferTypeOK
      <4>2. httpcode' \in {0, 200} \cup Redirects
        BY <1>2, <2>3, ZenonT(40) DEF SendFails, ReconnectRequest, Answer, AnswerBreaksOff, Retry,
           NoAnswer, TransferInv, TransferTypeOK
      <4>3. counted' \in 0 .. Connections
        <5>1. counted' \in {0, conn, OwnCount}
          BY <1>2, ZenonT(40) DEF SendFails, ReconnectRequest, Answer, AnswerBreaksOff, Retry,
             NoAnswer
        <5>2. 0 \in 0 .. Connections
          BY ConnectionsAssumption
        <5> QED
          BY <5>1, <5>2, OwnCountType DEF TransferInv, TransferTypeOK
      <4> QED
        BY <4>1, <4>2, <4>3
    <3>3. tries' \in [sent : 0 .. 2, as : SUBSET Methods]
      BY <1>2, NoTriesType DEF SendFails, ReconnectRequest, Answer, AnswerBreaksOff, Retry, NoAnswer,
         TransferInv, TransferTypeOK
    <3> QED
      BY <2>5, <3>1, <3>2, <3>3 DEF TransferTypeOK
  <2>7. SentInv'
    <3>1. CASE SendFails \/ AnswerBreaksOff \/ NoAnswer
      BY <3>1 DEF SendFails, AnswerBreaksOff, NoAnswer, SentInv
    <3>2. CASE Answer
      BY <3>2 DEF Answer, SentInv, NoTries
    <3>3. CASE ReconnectRequest
      <4>1. NoneFor(url)' /\ tries'.sent = 0
        BY <2>1, <3>3, ConnectionDone DEF ReconnectRequest, TransferInv, SentInv, NoneFor
      <4> QED
        BY <3>3, <4>1 DEF ReconnectRequest, SentInv
    <3>4. CASE Retry
      <4>1. NoneFor(url)' /\ tries'.sent = 1
        BY <2>1, <3>4, ConnectionDone DEF Retry, RetryWanted, TransferInv, SentInv, NoneFor
      <4> QED
        BY <3>4, <4>1 DEF Retry, SentInv
    <3> QED
      BY <1>2, <3>1, <3>2, <3>3, <3>4
  <2> QED
    BY <2>4, <2>5, <2>6, <2>7 DEF TransferInv
<1> QED
  BY <1>1, <1>2

\* What the application and the servers do.
LEMMA OutsideInv ==
  ASSUME TransferInv, Perform \/ \E i \in Slots : ServerCloses(i)
  PROVE  TransferInv'
<1>1. CASE Perform
  <2>1. TransferTypeOK'
    BY <1>1 DEF Perform, TransferInv, TransferTypeOK, NoTries, Steps
  <2>2. CacheInv'
    BY <1>1 DEF Perform, TransferInv, CacheInv, ConnFits, CacheIs, Slots
  <2>3. SentInv' /\ MethodInv'
    BY <1>1 DEF Perform, SentInv, MethodInv, NoTries
  <2> QED
    BY <2>1, <2>2, <2>3 DEF TransferInv
<1>2. ASSUME NEW i \in Slots, ServerCloses(i) PROVE TransferInv'
  <2>1. connects[i] \in Entries /\ connects[i].server # NoServer
    BY <1>2 DEF ServerCloses, TransferInv, TransferTypeOK, CacheInv, CacheIs
  <2>2. /\ connects' \in [Slots -> Entries]
        /\ \A j \in Slots : /\ connects'[j].server = connects[j].server
                            /\ connects'[j].inuse = connects[j].inuse
                            /\ connects'[j].reuse = connects[j].reuse
        /\ \A j \in Slots : j # i => connects'[j] = connects[j]
    BY <1>2, <2>1 DEF ServerCloses, TransferInv, TransferTypeOK, Entries
  <2>3. CacheIs(connects', conn)
    BY <2>1, <2>2 DEF TransferInv, CacheInv, CacheIs
  <2>4. TransferTypeOK' /\ CacheInv'
    BY <1>2, <2>2, <2>3 DEF ServerCloses, TransferInv, TransferTypeOK, CacheInv, ConnFits
  <2>5. SentInv' /\ MethodInv'
    <3>1. step \in {"do", "redo", "transfer"} => connects'[conn].reuse = connects[conn].reuse
      BY <2>2 DEF TransferInv, CacheInv, ConnFits
    <3>2. NoneFor(url) => NoneFor(url)'
      BY <1>2, <2>2 DEF ServerCloses, NoneFor
    <3> QED
      BY <1>2, <3>1, <3>2 DEF ServerCloses, TransferInv, SentInv, MethodInv
  <2> QED
    BY <2>4, <2>5 DEF TransferInv
<1> QED
  BY <1>1, <1>2

\* And every step keeps it.
LEMMA NextInv == TransferInv /\ [TransferNext]_transferVars => TransferInv'
<1> SUFFICES ASSUME TransferInv, [TransferNext]_transferVars PROVE TransferInv'
  OBVIOUS
<1>1. CASE UNCHANGED transferVars
  BY <1>1 DEF transferVars, TransferInv, TransferTypeOK, CacheInv, CacheIs, ConnFits, SentInv, NoneFor,
     MethodInv
<1>2. CASE CurlConnect
  BY <1>2, ReuseInv, ConnectInv DEF CurlConnect
<1> QED
  BY <1>1, <1>2, RequestInv, OutsideInv DEF TransferNext
-----------------------------------------------------------------------------
(* The theorems. *)

\* The invariant above holds of every behaviour, for any number of servers, of
\* connections in the cache, and of redirects.
THEOREM TransferSound == TransferSpec => []TransferInv
<1> QED
  BY InitInv, NextInv, PTL DEF TransferSpec

\* libcurl keeps one connection for each server, whatever it keeps and whichever
\* connections die: what the comment in Curl_reconnect_request relies on.
THEOREM KeepsOneForEach == TransferSpec => []OneConnectionForEach
<1>1. TransferInv => OneConnectionForEach
  BY DEF TransferInv, CacheInv, CacheIs, OneConnectionForEach, Unused
<1> QED
  BY <1>1, TransferSound, PTL

\* No way a transfer can end leaves a connection in use behind.
THEOREM LosesNoConnection == TransferSpec => []NoConnectionLost
<1>1. TransferInv => NoConnectionLost
  BY DEF TransferInv, CacheInv, CacheIs, ConnFits, NoConnectionLost
<1> QED
  BY <1>1, TransferSound, PTL

\* A request is sent twice at most, then on a new connection, and as what it was.
THEOREM RetriesOnce == TransferSpec => []RetriedOnceAsItWas
<1>1. ASSUME TransferInv PROVE RetriedOnceAsItWas
  <2>1. tries.sent <= 2
    BY <1>1 DEF TransferInv, TransferTypeOK
  <2>2. tries.sent = 2 /\ conn # 0 => ~ connects[conn].reuse
    BY <1>1 DEF TransferInv, TransferTypeOK, SentInv, CacheInv, ConnFits, Steps
  <2>3. Cardinality(tries.as) <= 1
    <3>1. tries.as \subseteq {httpreq}
      BY <1>1 DEF TransferInv, MethodInv
    <3>2. IsFiniteSet({httpreq}) /\ Cardinality({httpreq}) = 1
      BY FS_Singleton
    <3>3. Cardinality(tries.as) <= Cardinality({httpreq})
      BY <3>1, <3>2, FS_Subset
    <3> QED
      BY <3>2, <3>3
  <2> QED
    BY <2>1, <2>2, <2>3 DEF RetriedOnceAsItWas
<1> QED
  BY <1>1, TransferSound, PTL

-----------------------------------------------------------------------------
(* CurlCookies: the list and the file.                                     *)

OneEach(list) == \A i, j \in DOMAIN list : list[i].id = list[j].id => i = j

\* What the model's operators do, said of the sets of cookies in the lists.
Added(cookies, co) ==
  IF ~ co.live /\ \E c \in cookies : c.id = co.id /\ c.live
  THEN cookies
  ELSE {b \in cookies : b.id # co.id} \cup {co}

-----------------------------------------------------------------------------
(* Adding a cookie.                                                        *)

LEMMA SelectIs ==
  ASSUME NEW list \in Seq(Cookies), NEW co \in Cookies,
         \E i \in DOMAIN list : SameCookie(co, list[i])
  PROVE  LET i == SelectInSeq(list, LAMBDA old : SameCookie(co, old))
         IN  i \in DOMAIN list /\ SameCookie(co, list[i])
<1> DEFINE I == {i \in 1 .. Len(list) : SameCookie(co, list[i])}
<1>1. I \subseteq Nat /\ I # {} /\ DOMAIN list = 1 .. Len(list)
  OBVIOUS
<1>2. PICK m \in I : \A n \in I : m <= n
  <2> HIDE DEF I
  <2> QED
    BY <1>1, LeastNumber
<1>3. Min(I) \in I
  BY <1>2, Zenon DEF Min
<1>4. SelectInSeq(list, LAMBDA old : SameCookie(co, old)) = Min(I)
  BY <1>1, Zenon DEF SelectInSeq
<1> QED
  BY <1>1, <1>3, <1>4
LEMMA AddCookieIs ==
  ASSUME NEW list \in Seq(Cookies), OneEach(list), NEW co \in Cookies
  PROVE  /\ AddCookie(list, co) \in Seq(Cookies)
         /\ OneEach(AddCookie(list, co))
         /\ ToSet(AddCookie(list, co)) = Added(ToSet(list), co)
<1>1. CASE \E i \in DOMAIN list : SameCookie(co, list[i])
  <2>1. PICK i \in DOMAIN list :
          /\ SameCookie(co, list[i])
          /\ AddCookie(list, co) =
               IF LiveStays(co, list[i]) THEN list ELSE [list EXCEPT ![i] = co]
    BY <1>1, SelectIs DEF AddCookie
  <2>2. \A j \in DOMAIN list : list[j].id = co.id => j = i
    BY <2>1 DEF OneEach, SameCookie
  <2>3. CASE LiveStays(co, list[i])
    <3>1. AddCookie(list, co) = list
      BY <2>1, <2>3
    <3>2. list[i] \in ToSet(list) /\ list[i].id = co.id /\ list[i].live /\ ~ co.live
      BY <2>1, <2>3 DEF ToSet, SameCookie, LiveStays
    <3> QED
      BY <3>1, <3>2 DEF Added
  <2>4. CASE ~ LiveStays(co, list[i])
    <3> DEFINE new == [list EXCEPT ![i] = co]
    <3>1. AddCookie(list, co) = new
      BY <2>1, <2>4
    <3>2. /\ new \in Seq(Cookies) /\ DOMAIN new = DOMAIN list /\ new[i] = co
          /\ \A j \in DOMAIN list : j # i => new[j] = list[j]
      BY <2>1
    <3>3. ToSet(new) = {b \in ToSet(list) : b.id # co.id} \cup {co}
      <4> HIDE DEF new
      <4>1. ASSUME NEW b \in ToSet(new) PROVE b = co \/ (b \in ToSet(list) /\ b.id # co.id)
        <5>1. PICK j \in DOMAIN list : b = new[j]
          BY <3>2 DEF ToSet
        <5>2. j # i => b = list[j] /\ b.id # co.id
          BY <2>2, <3>2, <5>1
        <5>3. list[j] \in ToSet(list)
          BY DEF ToSet
        <5>4. CASE j = i
          BY <3>2, <5>1, <5>4
        <5>5. CASE j # i
          BY <5>2, <5>3, <5>5
        <5> QED
          BY <5>4, <5>5
      <4>2. ASSUME NEW b \in ToSet(list), b.id # co.id PROVE b \in ToSet(new)
        BY <2>1, <3>2, <4>2 DEF ToSet, SameCookie
      <4>3. co \in ToSet(new)
        BY <2>1, <3>2 DEF ToSet
      <4> QED
        BY <4>1, <4>2, <4>3
    <3>4. ~ (~ co.live /\ \E c \in ToSet(list) : c.id = co.id /\ c.live)
      BY <2>1, <2>2, <2>4 DEF ToSet, LiveStays
    <3>5. OneEach(new)
      <4> HIDE DEF new
      <4> QED
        BY <2>1, <2>2, <3>2 DEF OneEach
    <3> QED
      BY <3>1, <3>2, <3>3, <3>4, <3>5 DEF Added
  <2> QED
    BY <2>3, <2>4
<1>2. CASE ~ \E i \in DOMAIN list : SameCookie(co, list[i])
  <2> DEFINE new == Append(list, co)
  <2>1. AddCookie(list, co) = new
    BY <1>2, Zenon DEF AddCookie
  <2>2. /\ new \in Seq(Cookies) /\ DOMAIN new = 1 .. Len(list) + 1
        /\ DOMAIN list = 1 .. Len(list) /\ Len(list) \in Nat
        /\ new[Len(list) + 1] = co /\ \A j \in DOMAIN list : new[j] = list[j]
    OBVIOUS
  <2>3. \A j \in DOMAIN list : list[j].id # co.id
    BY <1>2 DEF SameCookie
  <2> HIDE DEF new
  <2>4. \A j \in DOMAIN new : j \in DOMAIN list \/ j = Len(list) + 1
    BY <2>2
  <2>5. OneEach(new)
    BY <2>2, <2>3, <2>4, Zenon DEF OneEach
  <2>6. ToSet(new) = ToSet(list) \cup {co}
    BY <2>2, <2>4 DEF ToSet
  <2>7. ToSet(new) = Added(ToSet(list), co)
    BY <2>3, <2>6 DEF ToSet, Added
  <2> QED
    BY <2>1, <2>2, <2>5, <2>7
<1> QED
  BY <1>1, <1>2
-----------------------------------------------------------------------------
(* Adding a line, and all lines of a file.                                 *)

\* A line is a cookie, none of which a server is known to have set, or nothing.
LEMMA ParsedIs ==
  ASSUME NEW line \in Cookies
  PROVE  /\ ParsedLine(line) \subseteq Cookies
         /\ \A c \in ParsedLine(line) : ~ c.live /\ ParsedLine(line) = {c}
<1>1. ASSUME NEW c \in ParsedLine(line) PROVE c \in Cookies /\ ~ c.live /\ ParsedLine(line) = {c}
  <2> DEFINE read == [id |-> <<line.id[1], "/">>, live |-> FALSE,
                      value |-> IF line.value = "long" THEN "cut" ELSE line.value]
  <2>1. ParsedLine(line) = {read}
    BY <1>1 DEF ParsedLine
  <2>2. line.id[1] \in Names /\ "/" \in CookiePaths /\ line.value \in Values /\ "cut" \in Values
    BY DEF Cookies, Values, CookiePaths
  <2>3. read \in Cookies
    BY <2>2 DEF Cookies
  <2>4. c = read /\ ~ read.live
    BY <1>1, <2>1
  <2> HIDE DEF read
  <2> QED
    BY <2>1, <2>3, <2>4
<1> QED
  BY <1>1

LEMMA AddLineIs ==
  ASSUME NEW list \in Seq(Cookies), OneEach(list), NEW line \in Cookies
  PROVE  /\ AddLine(list, line) \in Seq(Cookies)
         /\ OneEach(AddLine(list, line))
         /\ ParsedLine(line) = {} => AddLine(list, line) = list
         /\ \A c \in ParsedLine(line) :
              ToSet(AddLine(list, line)) = Added(ToSet(list), c)
<1>1. CASE ParsedLine(line) = {}
  BY <1>1 DEF AddLine
<1>2. CASE ParsedLine(line) # {}
  <2>1. PICK c \in ParsedLine(line) : c \in Cookies /\ ParsedLine(line) = {c}
    BY <1>2, ParsedIs
  <2>2. {AddCookie(l, d) : l \in {list}, d \in ParsedLine(line)} = {AddCookie(list, c)}
    BY <2>1
  <2>3. AddLine(list, line) = AddCookie(list, c)
    <3> DEFINE all == {AddCookie(l, d) : l \in {list}, d \in ParsedLine(line)}
    <3>1. AddLine(list, line) = CHOOSE more \in all : TRUE
      BY <1>2 DEF AddLine
    <3>2. all = {AddCookie(list, c)}
      BY <2>2
    <3> HIDE DEF all
    <3>3. (CHOOSE more \in all : TRUE) \in all
      <4>1. AddCookie(list, c) \in all
        BY <3>2
      <4> QED
        BY <4>1, Zenon
    <3> QED
      BY <3>1, <3>2, <3>3
  <2> QED
    BY <2>1, <2>3, AddCookieIs
<1> QED
  BY <1>1, <1>2

\* A list of all cookies is a value the fold can be defined over.
OneEachLists == {list \in Seq(Cookies) : OneEach(list)}

LoadRun(run, list, lines) ==
  /\ run \in [0 .. Len(lines) -> OneEachLists]
  /\ run[0] = list /\ run[Len(lines)] = Loaded(list, lines)
  /\ \A k \in 1 .. Len(lines) : run[k] = AddLine(run[k - 1], lines[k])

\* Loaded goes through the lines of the file one after the other.
LEMMA LoadedRuns ==
  ASSUME NEW lines \in Seq(Cookies), NEW list \in OneEachLists
  PROVE  \E run : LoadRun(run, list, lines)
<1> DEFINE n == Len(lines)
           next == [p \in OneEachLists \X (1 .. n) |-> AddLine(p[1], lines[p[2]])]
<1>1. n \in Nat /\ DOMAIN lines = 1 .. n
  OBVIOUS
<1>2. ASSUME NEW p \in OneEachLists \X (1 .. n) PROVE AddLine(p[1], lines[p[2]]) \in OneEachLists
  BY <1>1, AddLineIs DEF OneEachLists
<1>3. next \in [OneEachLists \X (1 .. n) -> OneEachLists]
  BY <1>2
<1>4. \A l \in OneEachLists, k \in 1 .. n : next[<<l, k>>] = AddLine(l, lines[k])
  OBVIOUS
<1> HIDE DEF next
<1>5. PICK g \in [SUBSET (1 .. n) -> OneEachLists] : IsFold(g, n, list, next)
  <2> HIDE DEF n
  <2> QED
    BY <1>1, <1>3, FoldExists, Zenon
<1> DEFINE Equation(f) == f = [s \in SUBSET (DOMAIN lines) |->
             IF s = {} THEN list ELSE AddLine(f[s \ {Max(s)}], lines[Max(s)])]
<1>6. \E f : Equation(f)
  <2>1. ASSUME NEW s \in SUBSET (1 .. n)
        PROVE  g[s] = IF s = {} THEN list ELSE AddLine(g[s \ {Max(s)}], lines[Max(s)])
    <3>1. CASE s # {}
      <4>1. Max(s) \in 1 .. n
        <5> HIDE DEF n
        <5> QED
          BY <1>1, <3>1, MaxIs
      <4>2. g[s \ {Max(s)}] \in OneEachLists
        OBVIOUS
      <4> QED
        BY <1>4, <1>5, <3>1, <4>1, <4>2 DEF IsFold
    <3> QED
      BY <1>5, <3>1 DEF IsFold
  <2>2. Equation(g)
    BY <1>1, <2>1
  <2> QED
    BY <2>2
<1> DEFINE iter[s \in SUBSET (DOMAIN lines)] ==
             IF s = {} THEN list ELSE AddLine(iter[s \ {Max(s)}], lines[Max(s)])
<1>7. Equation(iter)
  BY <1>6, Zenon
<1>8. Loaded(list, lines) = iter[DOMAIN lines]
  BY Zenon DEF Loaded, FoldLeft, MapThenFoldSet
<1> HIDE DEF iter
<1>9. iter[{}] = list
  BY <1>7
<1>10. ASSUME NEW s \in SUBSET (1 .. n), s # {}, iter[s \ {Max(s)}] \in OneEachLists
       PROVE  iter[s] = next[<<iter[s \ {Max(s)}], Max(s)>>]
  <2>1. Max(s) \in 1 .. n
    <3> HIDE DEF n
    <3> QED
      BY <1>1, <1>10, MaxIs
  <2>2. iter[s] = AddLine(iter[s \ {Max(s)}], lines[Max(s)])
    BY <1>1, <1>7, <1>10
  <2> QED
    BY <1>4, <1>10, <2>1, <2>2
<1>11. \E run \in [0 .. n -> OneEachLists] : IsRun(run, n, list, next, iter[1 .. n])
  <2> HIDE DEF n
  <2> QED
    BY <1>1, <1>3, <1>9, <1>10, FoldRuns, Zenon
<1>12. PICK run \in [0 .. n -> OneEachLists] :
         /\ run[0] = list /\ run[n] = iter[1 .. n]
         /\ \A k \in 1 .. n : run[k] = next[<<run[k - 1], k>>]
  BY <1>11 DEF IsRun
<1>13. \A k \in 1 .. n : run[k] = AddLine(run[k - 1], lines[k])
  <2> SUFFICES ASSUME NEW k \in 1 .. n PROVE run[k] = AddLine(run[k - 1], lines[k])
    OBVIOUS
  <2>1. k - 1 \in 0 .. n
    OBVIOUS
  <2> QED
    BY <1>4, <1>12, <2>1
<1>14. LoadRun(run, list, lines)
  BY <1>1, <1>8, <1>12, <1>13 DEF LoadRun
<1> QED
  BY <1>14
LEMMA LoadStep ==
  ASSUME NEW lines \in Seq(Cookies), NEW list \in OneEachLists, NEW run, LoadRun(run, list, lines),
         NEW k \in Nat, k < Len(lines)
  PROVE  /\ run[k] \in Seq(Cookies) /\ OneEach(run[k]) /\ lines[k + 1] \in Cookies
         /\ run[k + 1] = AddLine(run[k], lines[k + 1])
<1>1. /\ Len(lines) \in Nat /\ DOMAIN lines = 1 .. Len(lines)
      /\ k \in 0 .. Len(lines) /\ k + 1 \in 1 .. Len(lines) /\ (k + 1) - 1 = k
  OBVIOUS
<1>2. run[k] \in OneEachLists
  BY <1>1 DEF LoadRun
<1>3. run[k + 1] = AddLine(run[k], lines[k + 1])
  BY <1>1 DEF LoadRun
<1> QED
  BY <1>1, <1>2, <1>3 DEF OneEachLists

LEMMA LoadedNone ==
  ASSUME NEW list \in OneEachLists
  PROVE  Loaded(list, <<>>) = list
<1>1. <<>> \in Seq(Cookies) /\ Len(<<>>) = 0
  OBVIOUS
<1>2. PICK run : LoadRun(run, list, <<>>)
  BY <1>1, LoadedRuns
<1> QED
  BY <1>1, <1>2 DEF LoadRun

LEMMA LoadedAppend ==
  ASSUME NEW lines \in Seq(Cookies), NEW list \in OneEachLists, NEW line \in Cookies
  PROVE  Loaded(list, Append(lines, line)) = AddLine(Loaded(list, lines), line)
<1> DEFINE n == Len(lines)
           more == Append(lines, line)
<1>1. /\ n \in Nat /\ more \in Seq(Cookies) /\ Len(more) = n + 1 /\ more[n + 1] = line
      /\ \A k \in 1 .. n : more[k] = lines[k]
  OBVIOUS
<1>2. PICK run : LoadRun(run, list, lines)
  BY LoadedRuns
<1>3. PICK long : LoadRun(long, list, more)
  <2> HIDE DEF more
  <2> QED
    BY <1>1, LoadedRuns
<1>4. n = Len(lines)
  OBVIOUS
<1> HIDE DEF n, more
<1> DEFINE S == {k \in 0 .. n : long[k] = run[k]}
<1>5. 0 \in S
  BY <1>1, <1>2, <1>3 DEF LoadRun
<1>6. ASSUME NEW k \in Nat, k < n, k \in S PROVE k + 1 \in S
  <2>1. k + 1 \in 1 .. n /\ k + 1 \in 1 .. n + 1 /\ (k + 1) - 1 = k
    BY <1>1, <1>6
  <2> QED
    BY <1>1, <1>2, <1>3, <1>6, <1>4, <2>1 DEF LoadRun
<1>7. n \in S
  <2>1. 0 .. n \subseteq S
    <3> HIDE DEF S
    <3> QED
      BY <1>1, <1>5, <1>6, CountUp
  <2> QED
    BY <1>1, <2>1
<1>8. long[n + 1] = AddLine(long[(n + 1) - 1], more[n + 1]) /\ (n + 1) - 1 = n
  BY <1>1, <1>3 DEF LoadRun
<1>9. run[n] = Loaded(list, lines) /\ long[n + 1] = Loaded(list, more)
  BY <1>1, <1>2, <1>3, <1>4 DEF LoadRun
<1> QED
  BY <1>1, <1>7, <1>8, <1>9 DEF more

\* What a new handle reads is what its lines are read as, one cookie for each identity
\* that is in them.
LEMMA LoadedFirst ==
  ASSUME NEW lines \in Seq(Cookies)
  PROVE  /\ \A c \in ToSet(Loaded(<<>>, lines)) :
              ~ c.live /\ \E i \in DOMAIN lines : c \in ParsedLine(lines[i])
         /\ \A i \in DOMAIN lines : \A c \in ParsedLine(lines[i]) :
              \E k \in ToSet(Loaded(<<>>, lines)) : k.id = c.id
<1> DEFINE n == Len(lines)
<1>1. n \in Nat /\ DOMAIN lines = 1 .. n /\ <<>> \in OneEachLists /\ ToSet(<<>>) = {}
  BY DEF OneEachLists, OneEach, ToSet
<1>2. PICK run : LoadRun(run, <<>>, lines)
  BY <1>1, LoadedRuns
<1> DEFINE FromLines(k) == \A c \in ToSet(run[k]) :
             ~ c.live /\ \E i \in 1 .. k : c \in ParsedLine(lines[i])
           InList(k) == \A i \in 1 .. k : \A c \in ParsedLine(lines[i]) :
             \E b \in ToSet(run[k]) : b.id = c.id
           S == {k \in 0 .. n : FromLines(k) /\ InList(k)}
<1>3. 0 \in S
  BY <1>1, <1>2 DEF LoadRun
<1>4. ASSUME NEW k \in Nat, k < n, k \in S PROVE k + 1 \in S
  <2> DEFINE line == lines[k + 1]
  <2>1. /\ run[k] \in Seq(Cookies) /\ OneEach(run[k]) /\ line \in Cookies
        /\ run[k + 1] = AddLine(run[k], line)
    BY <1>1, <1>2, <1>4, LoadStep
  <2>2. \A i \in 1 .. k + 1 : i \in 1 .. k \/ i = k + 1
    OBVIOUS
  <2>3. 1 .. k \subseteq 1 .. k + 1 /\ k + 1 \in 1 .. k + 1
    OBVIOUS
  <2>4. CASE ParsedLine(line) = {}
    <3>1. run[k + 1] = run[k]
      BY <2>1, <2>4, AddLineIs
    <3>2. FromLines(k + 1)
      BY <1>4, <2>3, <3>1
    <3>3. InList(k + 1)
      BY <1>4, <2>2, <2>4, <3>1
    <3> QED
      BY <1>4, <3>2, <3>3
  <2>5. CASE ParsedLine(line) # {}
    <3>1. PICK c \in ParsedLine(line) : ~ c.live /\ ParsedLine(line) = {c}
      BY <2>1, <2>5, ParsedIs
    <3>2. ToSet(run[k + 1]) = Added(ToSet(run[k]), c)
      BY <2>1, <3>1, AddLineIs
    <3>3. ToSet(run[k + 1]) = {b \in ToSet(run[k]) : b.id # c.id} \cup {c}
      BY <1>4, <3>2 DEF Added
    <3>4. FromLines(k + 1)
      <4> SUFFICES ASSUME NEW b \in ToSet(run[k + 1])
                   PROVE  ~ b.live /\ \E i \in 1 .. k + 1 : b \in ParsedLine(lines[i])
        OBVIOUS
      <4>1. CASE b \in ToSet(run[k])
        BY <1>4, <2>3, <4>1
      <4>2. CASE b = c
        BY <2>3, <3>1, <4>2
      <4> QED
        BY <3>3, <4>1, <4>2
    <3>5. InList(k + 1)
      <4> SUFFICES ASSUME NEW i \in 1 .. k + 1, NEW d \in ParsedLine(lines[i])
                   PROVE  \E b \in ToSet(run[k + 1]) : b.id = d.id
        OBVIOUS
      <4>1. CASE d.id = c.id
        BY <3>3, <4>1
      <4>2. CASE d.id # c.id
        <5>1. i \in 1 .. k
          BY <2>2, <3>1, <4>2
        <5>2. PICK b \in ToSet(run[k]) : b.id = d.id
          BY <1>4, <5>1
        <5> QED
          BY <3>3, <4>2, <5>2
      <4> QED
        BY <4>1, <4>2
    <3> QED
      BY <1>4, <3>4, <3>5
  <2> QED
    BY <2>4, <2>5
<1>5. n \in S
  <2>1. 0 .. n \subseteq S
    <3> HIDE DEF S, n
    <3> QED
      BY <1>1, <1>3, <1>4, CountUp
  <2>2. n \in 0 .. n
    BY <1>1
  <2> HIDE DEF S, n
  <2> QED
    BY <2>1, <2>2
<1> QED
  BY <1>1, <1>2, <1>5 DEF LoadRun
\* What a list and the cookies of a file become together.
Merged(store, kept) ==
  {c \in store : c.live \/ ~ \E k \in kept : k.id = c.id}
    \cup {k \in kept : ~ \E c \in store : c.id = k.id /\ c.live}

LEMMA MergedAdded ==
  ASSUME NEW store, NEW kept, NEW c, ~ c.live, \A k \in kept : ~ k.live,
         \A a, b \in store : a.id = b.id => a = b
  PROVE  Added(Merged(store, kept), c) = Merged(store, Added(kept, c))
<1> DEFINE more == {k \in kept : k.id # c.id} \cup {c}
<1>1. Added(kept, c) = more
  BY DEF Added
<1>2. CASE \E s \in store : s.id = c.id /\ s.live
  <2>1. PICK s \in store : s.id = c.id /\ s.live
    BY <1>2
  <2>2. s \in Merged(store, kept)
    BY <2>1 DEF Merged
  <2>3. Added(Merged(store, kept), c) = Merged(store, kept)
    BY <2>1, <2>2 DEF Added
  <2>4. \A x \in store : x.id = c.id => x.live
    BY <2>1
  <2>5. ASSUME NEW x PROVE x \in Merged(store, kept) <=> x \in Merged(store, more)
    BY <1>2, <2>4 DEF Merged
  <2>6. Merged(store, kept) = Merged(store, more)
    BY <2>5, Zenon DEF Merged
  <2> QED
    BY <1>1, <2>3, <2>6
<1>3. CASE ~ \E s \in store : s.id = c.id /\ s.live
  <2>1. Added(Merged(store, kept), c) = {b \in Merged(store, kept) : b.id # c.id} \cup {c}
    BY <1>3 DEF Added, Merged
  <2>2. ASSUME NEW x
        PROVE  (x \in Merged(store, kept) /\ x.id # c.id) \/ x = c <=> x \in Merged(store, more)
    BY <1>3 DEF Merged
  <2>3. {b \in Merged(store, kept) : b.id # c.id} \cup {c} = Merged(store, more)
    BY <2>2 DEF Merged
  <2> QED
    BY <1>1, <2>1, <2>3
<1> QED
  BY <1>2, <1>3

\* Reading a file keeps of each identity what a server set, or else what the file has.
LEMMA LoadedOnto ==
  ASSUME NEW lines \in Seq(Cookies), NEW list \in OneEachLists
  PROVE  ToSet(Loaded(list, lines)) = Merged(ToSet(list), ToSet(Loaded(<<>>, lines)))
<1> DEFINE n == Len(lines)
<1>1. n \in Nat /\ DOMAIN lines = 1 .. n /\ <<>> \in OneEachLists /\ ToSet(<<>>) = {}
  BY DEF OneEachLists, OneEach, ToSet
<1>2. PICK onto : LoadRun(onto, list, lines)
  BY LoadedRuns
<1>3. PICK run : LoadRun(run, <<>>, lines)
  BY <1>1, LoadedRuns
<1>4. \A a, b \in ToSet(list) : a.id = b.id => a = b
  BY DEF OneEachLists, OneEach, ToSet
<1> DEFINE S == {k \in 0 .. n : /\ ToSet(onto[k]) = Merged(ToSet(list), ToSet(run[k]))
                                /\ \A c \in ToSet(run[k]) : ~ c.live}
<1>5. 0 \in S
  BY <1>1, <1>2, <1>3 DEF LoadRun, Merged
<1>6. ASSUME NEW k \in Nat, k < n, k \in S PROVE k + 1 \in S
  <2> DEFINE line == lines[k + 1]
  <2>1. /\ run[k] \in Seq(Cookies) /\ OneEach(run[k]) /\ line \in Cookies
        /\ onto[k] \in Seq(Cookies) /\ OneEach(onto[k])
        /\ run[k + 1] = AddLine(run[k], line) /\ onto[k + 1] = AddLine(onto[k], line)
    BY <1>1, <1>2, <1>3, <1>6, LoadStep
  <2> HIDE DEF line
  <2>2. CASE ParsedLine(line) = {}
    <3>1. run[k + 1] = run[k] /\ onto[k + 1] = onto[k]
      BY <2>1, <2>2, AddLineIs
    <3> QED
      BY <1>6, <3>1
  <2>3. CASE ParsedLine(line) # {}
    <3>1. PICK c \in ParsedLine(line) : ~ c.live
      BY <2>1, <2>3, ParsedIs
    <3>2. /\ ToSet(run[k + 1]) = Added(ToSet(run[k]), c)
          /\ ToSet(onto[k + 1]) = Added(ToSet(onto[k]), c)
      BY <2>1, <3>1, AddLineIs
    <3>3. \A b \in ToSet(run[k]) : ~ b.live
      BY <1>6
    <3>4. ToSet(onto[k + 1]) = Merged(ToSet(list), ToSet(run[k + 1]))
      BY <1>4, <1>6, <3>1, <3>2, <3>3, MergedAdded
    <3>5. \A b \in ToSet(run[k + 1]) : ~ b.live
      BY <3>1, <3>2, <3>3 DEF Added
    <3> QED
      BY <1>6, <3>4, <3>5
  <2> QED
    BY <2>2, <2>3
<1>7. n \in S
  <2>1. 0 .. n \subseteq S
    <3> HIDE DEF S, n
    <3> QED
      BY <1>1, <1>5, <1>6, CountUp
  <2> QED
    BY <1>1, <2>1
<1> QED
  BY <1>1, <1>2, <1>3, <1>7 DEF LoadRun
-----------------------------------------------------------------------------
(* The inductive invariant.  While the file is written, it has the lines  *)
(* of the cookies up to saved: what comes back of it comes of the list.    *)

CookieInv ==
  /\ jar \in OneEachLists /\ file \in Seq(Cookies)
  /\ saved \in Nat
  /\ phase = "saving" => saved <= Len(jar) /\ file = [i \in 1 .. saved |-> LineOf(jar[i])]

LEMMA LineIs == ASSUME NEW c \in Cookies PROVE LineOf(c) \in Cookies
  BY DEF LineOf, Cookies

\* What an interrupted cookie leaves in the file is one line that is a cookie, and what
\* that comes back as is among its remains.
LEMMA HalfLineIs ==
  ASSUME NEW c \in Cookies, NEW line \in HalfLines(c)
  PROVE  /\ line \in Cookies /\ ParsedLine(line) # {}
         /\ ParsedLine(line) \subseteq Remains(c)
<1> DEFINE Line(name, value) == [id |-> <<name, c.id[2]>>, value |-> value, live |-> FALSE]
           Read(name, value) == [id |-> <<name, "/">>, live |-> FALSE, value |-> value]
<1>1. /\ c.id[1] \in Names /\ c.id[2] \in CookiePaths /\ CutTo[c.id[1]] \subseteq Names
      /\ "cut" \in Values /\ "" \in Values
  BY CutToAssumption DEF Cookies, Values
<1>2. PICK name \in Names, value \in {"", "cut"} :
        /\ line = Line(name, value)
        /\ name = c.id[1] \/ (name \in CutTo[c.id[1]] /\ value = "")
  BY <1>1 DEF HalfLines
<1>3. line \in Cookies
  BY <1>1, <1>2 DEF Cookies
<1>4. line.id[1] = name /\ line.value = value /\ value # "tabbed" /\ value # "long"
  BY <1>2
<1>5. ParsedLine(line) = {Read(name, value)}
  BY <1>4 DEF ParsedLine
<1>6. Read(name, value) \in Remains(c)
  BY <1>1, <1>2 DEF Remains
<1> QED
  BY <1>3, <1>5, <1>6

LEMMA EmptyList == <<>> \in OneEachLists /\ <<>> \in Seq(Cookies) /\ ToSet(<<>>) = {}
BY DEF OneEachLists, OneEach, ToSet

LEMMA LoadedType ==
  ASSUME NEW lines \in Seq(Cookies), NEW list \in OneEachLists
  PROVE  Loaded(list, lines) \in OneEachLists
<1>1. PICK run : LoadRun(run, list, lines)
  BY LoadedRuns
<1> QED
  BY <1>1 DEF LoadRun

LEMMA CookieInvHolds == CookieSpec => []CookieInv
<1>1. CookieInit => CookieInv
  BY EmptyList DEF CookieInit, CookieInv
<1>2. CookieInv /\ [CookieNext]_cookieVars => CookieInv'
  <2> SUFFICES ASSUME CookieInv, [CookieNext]_cookieVars PROVE CookieInv'
    OBVIOUS
  <2> USE EmptyList
  <2>1. CASE OpenHandle
    BY <2>1 DEF OpenHandle, CookieInv
  <2>2. CASE SetCookieFile
    BY <2>2 DEF SetCookieFile, CookieInv
  <2>3. CASE LoadFiles
    <3>1. Loaded(jar, file) \in OneEachLists
      BY LoadedType DEF CookieInv
    <3> QED
      BY <2>3, <3>1 DEF LoadFiles, CookieInv
  <2>4. CASE SetCookie
    <3>1. PICK co \in Cookies : jar' = AddCookie(jar, co)
      BY <2>4, ServedAssumption DEF SetCookie
    <3>2. jar' \in OneEachLists
      BY <3>1, AddCookieIs DEF CookieInv, OneEachLists
    <3> QED
      BY <2>4, <3>2 DEF SetCookie, CookieInv
  <2>5. CASE OpenJar
    BY <2>5 DEF OpenJar, CookieInv, OneEachLists
  <2>6. CASE WriteCookie
    <3> DEFINE line == LineOf(jar[saved + 1])
    <3>1. jar \in Seq(Cookies) /\ jar[saved + 1] \in Cookies /\ saved + 1 <= Len(jar)
      BY <2>6 DEF WriteCookie, CookieInv, OneEachLists
    <3>2. line \in Cookies
      BY <3>1, LineIs
    <3>3. file = [i \in 1 .. saved |-> LineOf(jar[i])] /\ file' = Append(file, line)
      BY <2>6 DEF WriteCookie, CookieInv
    <3>4. file' = [i \in 1 .. saved + 1 |-> LineOf(jar[i])] /\ file' \in Seq(Cookies)
      BY <3>2, <3>3 DEF CookieInv
    <3> QED
      BY <2>6, <3>1, <3>4 DEF WriteCookie, CookieInv
  <2>7. CASE CloseJar
    BY <2>7 DEF CloseJar, CookieInv
  <2>8. CASE NoJar
    BY <2>8 DEF NoJar, CookieInv
  <2>9. CASE Killed
    <3>1. file' \in Seq(Cookies)
      <4>1. CASE UNCHANGED file
        BY <4>1 DEF CookieInv
      <4>2. CASE /\ saved < Len(jar)
                 /\ \E line \in HalfLines(jar[saved + 1]) : file' = Append(file, line)
        <5>1. jar[saved + 1] \in Cookies
          BY <4>2 DEF CookieInv, OneEachLists
        <5>2. PICK line \in Cookies : file' = Append(file, line)
          BY <4>2, <5>1, HalfLineIs
        <5> QED
          BY <5>2 DEF CookieInv
      <4> QED
        BY <2>9, <4>1, <4>2 DEF Killed
    <3> QED
      BY <2>9, <3>1 DEF Killed, CookieInv
  <2>10. CASE UNCHANGED cookieVars
    BY <2>10 DEF cookieVars, CookieInv
  <2> QED
    BY <2>1, <2>2, <2>3, <2>4, <2>5, <2>6, <2>7, <2>8, <2>9, <2>10 DEF CookieNext
<1> QED
  BY <1>1, <1>2, PTL DEF CookieSpec

\* The list of a handle never holds two cookies of one identity, whatever servers set
\* and whatever lines the file has.
THEOREM OneEachKept == CookieSpec => []OneCookieEach
<1>1. CookieInv => OneCookieEach
  BY DEF CookieInv, OneEachLists, OneEach, OneCookieEach
<1> QED
  BY <1>1, CookieInvHolds, PTL
-----------------------------------------------------------------------------
(* The list and the file implement CookieStore.                            *)

LEMMA StoreLoads ==
  ASSUME CookieInv, LoadFiles
  PROVE  Store!Read \/ UNCHANGED <<ToSet(jar), ToSet(Loaded(<<>>, file)), phase>>
<1>1. ToSet(Loaded(jar, file)) = Merged(ToSet(jar), ToSet(Loaded(<<>>, file)))
  BY LoadedOnto DEF CookieInv
<1> QED
  BY <1>1 DEF LoadFiles, Store!Read, Store!SetByServer, Merged
\* The cookies of a file that is being written, or was, come from those in the list.
LEMMA SavedLines ==
  ASSUME NEW list \in OneEachLists, NEW n \in Nat, n <= Len(list), NEW lines,
         lines = [i \in 1 .. n |-> LineOf(list[i])]
  PROVE  /\ lines \in Seq(Cookies)
         /\ \A k \in ToSet(Loaded(<<>>, lines)) :
              \E c \in ToSet(list) : k \in ParsedLine(LineOf(c))
         /\ \A i \in 1 .. n : \A c \in ParsedLine(LineOf(list[i])) :
              \E k \in ToSet(Loaded(<<>>, lines)) : k.id = c.id
<1>1. \A i \in 1 .. n : list[i] \in Cookies /\ list[i] \in ToSet(list)
  BY DEF OneEachLists, ToSet
<1>2. \A i \in 1 .. n : LineOf(list[i]) \in Cookies /\ lines[i] = LineOf(list[i])
  BY <1>1, LineIs
<1>3. lines \in Seq(Cookies) /\ DOMAIN lines = 1 .. n
  BY <1>2
<1>4. /\ \A c \in ToSet(Loaded(<<>>, lines)) : \E i \in DOMAIN lines : c \in ParsedLine(lines[i])
      /\ \A i \in DOMAIN lines : \A c \in ParsedLine(lines[i]) :
           \E k \in ToSet(Loaded(<<>>, lines)) : k.id = c.id
  BY <1>3, LoadedFirst
<1> QED
  BY <1>1, <1>2, <1>3, <1>4

LEMMA StoreSaves ==
  ASSUME CookieInv, WriteCookie
  PROVE  Store!Save
<1>1. /\ jar \in OneEachLists /\ saved + 1 \in Nat /\ saved + 1 <= Len(jar)
      /\ file = [i \in 1 .. saved |-> LineOf(jar[i])]
      /\ file' = Append(file, LineOf(jar[saved + 1]))
  BY DEF CookieInv, WriteCookie, OneEachLists
<1>2. file' = [i \in 1 .. saved + 1 |-> LineOf(jar[i])]
  BY <1>1 DEF CookieInv
<1>3. file' \in Seq(Cookies) /\ \A k \in ToSet(Loaded(<<>>, file')) :
        \E c \in ToSet(jar) : k \in ParsedLine(LineOf(c))
  BY <1>1, <1>2, SavedLines
<1>4. Loaded(<<>>, file') \in OneEachLists
  BY <1>3, EmptyList, LoadedType
<1>5. \A b, c \in ToSet(Loaded(<<>>, file')) : b.id = c.id => b = c
  BY <1>4 DEF OneEachLists, OneEach, ToSet
<1>6. ToSet(Loaded(<<>>, file')) \subseteq Store!Keepable
  BY <1>3 DEF Store!Keepable
<1> QED
  BY <1>5, <1>6 DEF Store!Save, Store!OneOfEach, WriteCookie

LEMMA StoreCloses ==
  ASSUME CookieInv, CloseJar
  PROVE  Store!EndSave
<1>1. /\ jar \in OneEachLists /\ saved \in Nat /\ saved <= Len(jar)
      /\ file = [i \in 1 .. saved |-> LineOf(jar[i])]
  BY DEF CookieInv, CloseJar
<1>2. \A i \in 1 .. saved : \A c \in ParsedLine(LineOf(jar[i])) :
        \E k \in ToSet(Loaded(<<>>, file)) : k.id = c.id
  BY <1>1, SavedLines, SMTT(40)
<1>3. DOMAIN jar = 1 .. saved
  BY <1>1 DEF OneEachLists, CloseJar
<1>4. \A c \in Store!Keepable : \E k \in ToSet(Loaded(<<>>, file)) : k.id = c.id
  BY <1>2, <1>3 DEF Store!Keepable, ToSet
<1> QED
  BY <1>4, EmptyList DEF Store!EndSave, CloseJar

LEMMA StorePuts ==
  ASSUME CookieInv, SetCookie
  PROVE  Store!Put
<1>1. PICK co \in Cookies : co.live /\ jar' = AddCookie(jar, co)
  BY ServedAssumption DEF SetCookie
<1>2. ToSet(jar') = Added(ToSet(jar), co)
  BY <1>1, AddCookieIs DEF CookieInv, OneEachLists
<1>3. ToSet(jar') = {b \in ToSet(jar) : b.id # co.id} \cup {co}
  BY <1>1, <1>2 DEF Added
<1> QED
  BY <1>1, <1>3 DEF Store!Put, SetCookie

LEMMA StoreDies ==
  ASSUME CookieInv, Killed
  PROVE  Store!Die
<1>1. CASE UNCHANGED file
  BY <1>1, EmptyList DEF Killed, Store!Die
<1>2. CASE /\ phase = "saving" /\ saved < Len(jar)
           /\ \E line \in HalfLines(jar[saved + 1]) : file' = Append(file, line)
  <2> DEFINE c == jar[saved + 1]
  <2>1. c \in Cookies /\ c \in ToSet(jar)
    BY <1>2 DEF CookieInv, OneEachLists, ToSet
  <2>2. PICK line \in HalfLines(c) : file' = Append(file, line)
    BY <1>2
  <2>3. line \in Cookies /\ ParsedLine(line) # {} /\ ParsedLine(line) \subseteq Remains(c)
    BY <2>1, HalfLineIs
  <2>4. PICK half \in ParsedLine(line) : ~ half.live /\ half \in Remains(c)
    BY <2>3, ParsedIs
  <2>5. Loaded(<<>>, file') = AddLine(Loaded(<<>>, file), line)
    BY <2>2, <2>3, EmptyList, LoadedAppend DEF CookieInv
  <2>6. ToSet(Loaded(<<>>, file')) = Added(ToSet(Loaded(<<>>, file)), half)
    <3>1. Loaded(<<>>, file) \in Seq(Cookies) /\ OneEach(Loaded(<<>>, file))
      BY EmptyList, LoadedType DEF CookieInv, OneEachLists
    <3> QED
      BY <2>3, <2>4, <2>5, <3>1, AddLineIs
  <2>7. \A k \in ToSet(Loaded(<<>>, file)) : ~ k.live
    BY LoadedFirst DEF CookieInv
  <2>8. ToSet(Loaded(<<>>, file')) =
          {k \in ToSet(Loaded(<<>>, file)) : k.id # half.id} \cup {half}
    BY <2>6, <2>7 DEF Added
  <2> QED
    BY <1>2, <2>1, <2>4, <2>8, EmptyList DEF Killed, Store!Die
<1> QED
  BY <1>1, <1>2 DEF Killed

LEMMA StoreSteps ==
  ASSUME CookieInv, [CookieNext]_cookieVars
  PROVE  [Store!StoreNext]_<<ToSet(jar), ToSet(Loaded(<<>>, file)), phase>>
<1> USE DEF Store!StoreNext
<1>1. CASE OpenHandle
  BY <1>1 DEF OpenHandle, Store!Open
<1>2. CASE SetCookieFile
  BY <1>2 DEF SetCookieFile
<1>3. CASE LoadFiles
  BY <1>3, StoreLoads
<1>4. CASE SetCookie
  BY <1>4, StorePuts
<1>5. CASE OpenJar
  <2>1. Loaded(<<>>, <<>>) = <<>>
    BY EmptyList, LoadedNone
  <2>2. jar[1] \in ToSet(jar)
    <3>1. jar \in Seq(Cookies) /\ jar # <<>>
      BY <1>5 DEF OpenJar, CookieInv, OneEachLists
    <3>2. 1 \in DOMAIN jar
      BY <3>1
    <3> QED
      BY <3>2, Zenon DEF ToSet
  <2> QED
    BY <1>5, <2>1, <2>2, EmptyList DEF OpenJar, Store!BeginSave
<1>6. CASE WriteCookie
  BY <1>6, StoreSaves
<1>7. CASE CloseJar
  BY <1>7, StoreCloses
<1>8. CASE NoJar
  BY <1>8, EmptyList DEF NoJar, Store!CloseOnly
<1>9. CASE Killed
  BY <1>9, StoreDies
<1>10. CASE UNCHANGED cookieVars
  BY <1>10 DEF cookieVars
<1> QED
  BY <1>1, <1>2, <1>3, <1>4, <1>5, <1>6, <1>7, <1>8, <1>9, <1>10 DEF CookieNext

\* However often files are read, cookies set and handles opened, closed and cut off, the
\* list and the file are the store that CookieStore describes: what a server set is not
\* replaced by what the file has, and nothing is lost or comes back but by the format, or
\* by a death of the process while saving: of the cookie that interrupts, what is left can
\* count as another one, and take the place of that one in the file.
THEOREM StoreIsKept == CookieSpec => StoreKept
<1>1. CookieInit => Store!StoreInit
  <2>1. Loaded(<<>>, <<>>) = <<>>
    BY EmptyList, LoadedNone
  <2> QED
    BY <2>1, EmptyList DEF CookieInit, Store!StoreInit
<1>2. CookieInv /\ [CookieNext]_cookieVars => [Store!StoreNext]_Store!storeVars
  BY StoreSteps DEF Store!storeVars
<1> QED
  BY <1>1, <1>2, CookieInvHolds, PTL DEF CookieSpec, StoreKept, Store!StoreSpec

-----------------------------------------------------------------------------
(* HttpChunks: what Curl_httpchunk_read knows. *)

\* The bytes the call did not look at, and those that did not arrive.
Left == piece \o coming

EncodedFrom(chunks, server) == Encoded(chunks, server.last, server.trailers)

\* What follows the line with the size of a chunk, and what the client was given before.
After(chunk, follows, given, server) ==
  \/ /\ chunk \in Chunks
     /\ \E chunks \in Seq(Chunks) :
          /\ follows = chunk.data \o (CRLF \o EncodedFrom(chunks, server))
          /\ given \o (chunk.data \o DataOf(chunks)) = DataOf(server.chunks)
  \/ /\ chunk = server.last
     /\ follows = EncodedTrailers(server.trailers)
     /\ given = DataOf(server.chunks)

\* In a line with a size: in the digits, in the extension, and after a CR.
InLine(chunk, follows) ==
  \/ /\ state = "HEX"
     /\ \E digits \in Seq(HexBytes) :
          /\ chunk.size = hex \o digits
          /\ Left = digits \o (chunk.extension \o (CRLF \o follows))
  \/ /\ state = "POSTHEX" /\ datasize = Len(chunk.data)
     /\ \E extension \in Seq({"x", "CR"}) : Left = extension \o (CRLF \o follows)
  \/ /\ state = "CR" /\ datasize = Len(chunk.data)
     /\ \E extension \in Seq({"x", "CR"}) : Left = extension \o (<<"LF">> \o follows)

SizeInv ==
  /\ headers = << >>
  /\ \E chunk \in Chunks \cup LastChunks, follows \in Seq(Bytes) :
       After(chunk, follows, body, sent) /\ InLine(chunk, follows)

\* In the data of a chunk, and before and in the end of its line.
DataInv ==
  /\ headers = << >>
  /\ \E chunks \in Seq(Chunks), data \in Seq(Bytes) :
       /\ body \o (data \o DataOf(chunks)) = DataOf(sent.chunks)
       /\ \/ /\ state = "DATA" /\ data # << >> /\ datasize = Len(data)
             /\ Left = data \o (CRLF \o EncodedFrom(chunks, sent))
          \/ state = "POSTCR" /\ data = << >> /\ Left = CRLF \o EncodedFrom(chunks, sent)
          \/ state = "POSTLF" /\ data = << >> /\ Left = <<"LF">> \o EncodedFrom(chunks, sent)

\* Where a trailer or the end of them begins, in a trailer, and in the end of its line.
TrailerInv ==
  /\ body = DataOf(sent.chunks)
  /\ \E trailers \in Seq(Trailers) :
       \/ /\ state \in {"TRAILER", "TRAILER_POSTCR"} /\ trailer = << >>
          /\ headers \o trailers = sent.trailers
          /\ Left = EncodedTrailers(trailers)
       \/ /\ state = "TRAILER" /\ trailer # << >>
          /\ \E more \in Seq({"x"}) :
               /\ trailer \o more \in Trailers
               /\ headers \o (<<trailer \o more>> \o trailers) = sent.trailers
               /\ Left = more \o (CRLF \o EncodedTrailers(trailers))
       \/ /\ state = "TRAILER_CR" /\ trailer = << >>
          /\ headers \o trailers = sent.trailers
          /\ Left = <<"LF">> \o EncodedTrailers(trailers)

\* Before the last byte, and after it.
StopInv ==
  /\ body = DataOf(sent.chunks) /\ headers = sent.trailers /\ state = "STOP"
  /\ Left = IF code = "STOP" THEN <<"x">> ELSE <<"LF", "x">>

ChunkTypeOK ==
  /\ sent \in [chunks : Seq(Chunks), last : LastChunks, trailers : Seq(Trailers)]
  /\ coming \in Seq(Bytes) /\ piece \in Seq(Bytes)
  /\ state \in {"HEX", "POSTHEX", "CR", "DATA", "POSTCR", "POSTLF",
                "TRAILER", "TRAILER_CR", "TRAILER_POSTCR", "STOP"}
  /\ hex \in Seq(HexBytes) /\ datasize \in Nat
  /\ trailer \in Seq({"x"}) /\ body \in Seq(Bytes) /\ headers \in Seq(Trailers)
  /\ code \in {"OK", "STOP"}

ChunkInv ==
  /\ ChunkTypeOK
  /\ \/ code = "OK" /\ (SizeInv \/ DataInv \/ TrailerInv)
     \/ StopInv

-----------------------------------------------------------------------------
(* The bytes and the encodings. *)

\* What stands after the same bytes in two equal texts is equal.
LEMMA Cancel == \A a, b, c \in Seq(Bytes) : a \o b = a \o c => b = c
BY ConcatSimplifications

\* The ends of a line and the other byte are no digits.
LEMMA BytesAre ==
  /\ HexBytes \subseteq Bytes /\ {"x", "CR", "LF"} \subseteq Bytes
  /\ "x" \notin HexBytes /\ "CR" \notin HexBytes /\ "LF" \notin HexBytes
<1>1. HexBytes \subseteq Bytes /\ {"x", "CR", "LF"} \subseteq Bytes
  BY DEF Bytes
<1>2. \A n \in 1 .. 16 : "x" \notin HexDigits[n] /\ "CR" \notin HexDigits[n] /\ "LF" \notin HexDigits[n]
  BY DEF HexDigits
<1> QED
  BY <1>1, <1>2 DEF HexBytes

\* What the constants say of a chunk.
LEMMA ChunkIs ==
  ASSUME NEW chunk \in Chunks \cup LastChunks
  PROVE  /\ chunk.size \in Seq(HexBytes) /\ chunk.size \in Seq(Bytes) /\ chunk.size # << >>
         /\ Len(chunk.size) <= MaxNumSize /\ Value(chunk.size) = Len(chunk.data)
         /\ chunk.extension \in Seq({"x", "CR"}) /\ chunk.extension \in Seq(Bytes)
         /\ chunk.data \in Seq(Bytes)
         /\ chunk \in Chunks => chunk.data # << >>
         /\ chunk \in LastChunks => chunk.data = << >>
<1>1. /\ chunk \in [size : Seq(HexBytes), extension : Seq({"x", "CR"}), data : Seq(Bytes)]
      /\ Len(chunk.size) \in 1 .. MaxNumSize /\ Value(chunk.size) = Len(chunk.data)
      /\ chunk \in Chunks => chunk.data # << >>
      /\ chunk \in LastChunks => chunk.data = << >>
  BY ChunksAssumption
<1>2. chunk.size \in Seq(HexBytes) /\ chunk.extension \in Seq({"x", "CR"}) /\ chunk.data \in Seq(Bytes)
  BY <1>1
<1>3. chunk.size \in Seq(Bytes) /\ chunk.extension \in Seq(Bytes)
  <2>1. HexBytes \subseteq Bytes /\ {"x", "CR"} \subseteq Bytes
    BY BytesAre
  <2> QED
    BY <1>2, <2>1, SeqMonotonic, Zenon
<1>4. chunk.size # << >> /\ Len(chunk.size) <= MaxNumSize
  BY <1>1, <1>2, MaxChunksAssumption
<1> QED
  BY <1>1, <1>2, <1>3, <1>4

\* CR LF before anything, and what is left after each of them.
LEMMA LineEndIs ==
  ASSUME NEW follows \in Seq(Bytes)
  PROVE  /\ CRLF \in Seq(Bytes) /\ <<"LF">> \in Seq(Bytes)
         /\ CRLF \o follows \in Seq(Bytes) /\ CRLF \o follows # << >>
         /\ Head(CRLF \o follows) = "CR" /\ Tail(CRLF \o follows) = <<"LF">> \o follows
         /\ <<"LF">> \o follows \in Seq(Bytes) /\ <<"LF">> \o follows # << >>
         /\ Head(<<"LF">> \o follows) = "LF" /\ Tail(<<"LF">> \o follows) = follows
<1>1. "CR" \in Bytes /\ "LF" \in Bytes
  BY BytesAre
<1>2. CRLF \in Seq(Bytes) /\ CRLF # << >> /\ Head(CRLF) = "CR" /\ Tail(CRLF) = <<"LF">>
  <2> HIDE DEF Bytes
  <2> QED
    BY <1>1 DEF CRLF
<1>3. <<"LF">> \in Seq(Bytes) /\ <<"LF">> # << >> /\ Head(<<"LF">>) = "LF" /\ Tail(<<"LF">>) = << >>
  <2> HIDE DEF Bytes
  <2> QED
    BY <1>1
<1>4. << >> \o follows = follows
  BY ConcatEmptySeq, Zenon
<1>5. /\ CRLF \o follows \in Seq(Bytes) /\ CRLF \o follows # << >>
      /\ Head(CRLF \o follows) = Head(CRLF) /\ Tail(CRLF \o follows) = Tail(CRLF) \o follows
  BY <1>2, HeadOfConcat
<1>6. /\ <<"LF">> \o follows \in Seq(Bytes) /\ <<"LF">> \o follows # << >>
      /\ Head(<<"LF">> \o follows) = Head(<<"LF">>)
      /\ Tail(<<"LF">> \o follows) = Tail(<<"LF">>) \o follows
  BY <1>3, HeadOfConcat
<1> QED
  BY <1>2, <1>3, <1>4, <1>5, <1>6, Zenon

\* What the constants say of a trailer.
LEMMA TrailerIs ==
  ASSUME NEW t \in Trailers
  PROVE  t \in Seq({"x"}) /\ t # << >> /\ t \in Seq(Bytes) /\ Head(t) = "x" /\ Tail(t) \in Seq({"x"})
<1>1. t \in Seq({"x"}) /\ t # << >>
  BY TrailersAssumption
<1>2. t \in Seq(Bytes)
  <2>1. {"x"} \subseteq Bytes
    BY BytesAre
  <2> QED
    BY <1>1, <2>1, SeqMonotonic, Zenon
<1>3. Head(t) \in {"x"} /\ Tail(t) \in Seq({"x"})
  BY <1>1, HeadTailProperties, Zenon
<1> QED
  BY <1>1, <1>2, <1>3

\* The encoding of trailers is that of the first of them and then of the others.
LEMMA EncodedTrailersIs ==
  ASSUME NEW trailers \in Seq(Trailers)
  PROVE  /\ EncodedTrailers(trailers) \in Seq(Bytes)
         /\ trailers = << >> => EncodedTrailers(trailers) = <<"CR", "LF", "x">>
         /\ trailers # << >> => /\ Head(trailers) \in Trailers /\ Tail(trailers) \in Seq(Trailers)
                                /\ EncodedTrailers(trailers) =
                                     Head(trailers) \o (CRLF \o EncodedTrailers(Tail(trailers)))
<1> DEFINE f == [t \in Trailers |-> t \o CRLF]
           E == <<"x">>
<1>1. CRLF \in Seq(Bytes) /\ E \in Seq(Bytes) /\ CRLF \o E \in Seq(Bytes) /\ CRLF \o E = <<"CR", "LF", "x">>
  <2>1. "CR" \in Bytes /\ "LF" \in Bytes /\ "x" \in Bytes
    BY BytesAre
  <2>2. CRLF \in Seq(Bytes) /\ E \in Seq(Bytes)
    <3> HIDE DEF Bytes
    <3> QED
      BY <2>1 DEF CRLF
  <2>3. CRLF \o E = <<"CR", "LF", "x">>
    <3> DEFINE C == <<"CR", "LF">>
               A == <<"CR", "LF", "x">>
    <3>1. /\ C \in Seq(Bytes) /\ A \in Seq(Bytes) /\ Len(C) = 2 /\ Len(E) = 1 /\ Len(A) = 3
          /\ C[1] = "CR" /\ C[2] = "LF" /\ E[1] = "x" /\ A[1] = "CR" /\ A[2] = "LF" /\ A[3] = "x"
      <4> HIDE DEF Bytes
      <4> QED
        BY <2>1
    <3> HIDE DEF C, A, E
    <3>2. /\ C \o E \in Seq(Bytes) /\ Len(C \o E) = 3
          /\ (C \o E)[1] = "CR" /\ (C \o E)[2] = "LF" /\ (C \o E)[3] = "x"
      <4>1. /\ C \o E \in Seq(Bytes) /\ Len(C \o E) = Len(C) + Len(E)
            /\ \A i \in 1 .. Len(C) + Len(E) :
                 (C \o E)[i] = IF i <= Len(C) THEN C[i] ELSE E[i - Len(C)]
        BY <2>2, <3>1, ConcatProperties, Zenon
      <4>2. Len(C) + Len(E) = 3 /\ 1 \in 1 .. 3 /\ 2 \in 1 .. 3 /\ 3 \in 1 .. 3 /\ 3 - Len(C) = 1
        BY <3>1
      <4>3. (C \o E)[1] = C[1] /\ (C \o E)[2] = C[2] /\ (C \o E)[3] = E[1]
        BY <3>1, <4>1, <4>2
      <4> QED
        BY <3>1, <4>1, <4>2, <4>3
    <3>3. C \o E = A
      BY <3>1, <3>2, SeqEqual, SMTT(40)
    <3> QED
      BY <3>3 DEF CRLF, C, A
  <2> QED
    BY <2>2, <2>3, ConcatProperties, Zenon
<1>2. f \in [Trailers -> Seq(Bytes)]
  <2>1. \A t \in Trailers : t \o CRLF \in Seq(Bytes)
    BY <1>1, TrailerIs, ConcatProperties, Zenon
  <2> QED
    BY <2>1
<1>3. ASSUME NEW ts \in Seq(Trailers)
      PROVE  /\ FlatMap(f, ts) \in Seq(Bytes)
             /\ EncodedTrailers(ts) = FlatMap(f, ts) \o (CRLF \o E)
  <2>1. [k \in DOMAIN ts |-> f[ts[k]]] = [k \in DOMAIN ts |-> ts[k] \o CRLF]
    <3>1. \A k \in DOMAIN ts : ts[k] \in Trailers
      BY ElementOfSeq, LenProperties, Zenon
    <3>2. \A k \in DOMAIN ts : f[ts[k]] = ts[k] \o CRLF
      BY <3>1, Zenon
    <3> HIDE DEF f
    <3> QED
      BY <3>2, Zenon
  <2>2. FlatMap(f, ts) \in Seq(Bytes)
    <3> HIDE DEF f
    <3> QED
      BY <1>2, FlatMapIs
  <2>3. EncodedTrailers(ts) = (FlatMap(f, ts) \o CRLF) \o E
    BY <2>1, Zenon DEF EncodedTrailers, FlatMap
  <2> HIDE DEF f, E
  <2>4. Regroups(FlatMap(f, ts), CRLF, E)
    BY <1>1, <2>2, Regroup, Zenon
  <2> QED
    BY <2>2, <2>3, <2>4, Zenon DEF Regroups
<1> HIDE DEF E
<1>4. EncodedTrailers(trailers) \in Seq(Bytes)
  BY <1>1, <1>3, ConcatProperties, Zenon
<1>5. ASSUME trailers = << >> PROVE EncodedTrailers(trailers) = <<"CR", "LF", "x">>
  <2>1. FlatMap(f, trailers) = << >>
    <3> HIDE DEF f
    <3> QED
      BY <1>5, FlatMapNone, Zenon
  <2>2. << >> \o (CRLF \o E) = CRLF \o E
    BY <1>1, ConcatEmptySeq, Zenon
  <2> QED
    BY <1>1, <1>3, <2>1, <2>2, Zenon
<1>6. ASSUME trailers # << >>
      PROVE  /\ Head(trailers) \in Trailers /\ Tail(trailers) \in Seq(Trailers)
             /\ EncodedTrailers(trailers) = Head(trailers) \o (CRLF \o EncodedTrailers(Tail(trailers)))
  <2>1. Head(trailers) \in Trailers /\ Tail(trailers) \in Seq(Trailers)
    BY <1>6, HeadTailProperties, Zenon
  <2>2. FlatMap(f, trailers) = f[Head(trailers)] \o FlatMap(f, Tail(trailers))
    <3> HIDE DEF f
    <3> QED
      BY <1>2, <1>6, FlatMapFirst
  <2>3. f[Head(trailers)] = Head(trailers) \o CRLF
    BY <2>1, Zenon
  <2> DEFINE h == Head(trailers)
             r == FlatMap(f, Tail(trailers))
             e == CRLF \o E
  <2>4. h \in Seq(Bytes) /\ r \in Seq(Bytes) /\ CRLF \in Seq(Bytes) /\ e \in Seq(Bytes)
    BY <1>1, <1>3, <2>1, TrailerIs, Zenon
  <2>5. EncodedTrailers(trailers) = ((h \o CRLF) \o r) \o e /\ EncodedTrailers(Tail(trailers)) = r \o e
    BY <1>3, <2>1, <2>2, <2>3, Zenon
  <2> HIDE DEF h, r, e
  <2>6. ((h \o CRLF) \o r) \o e = (h \o CRLF) \o (r \o e) /\ r \o e \in Seq(Bytes)
    <3>1. h \o CRLF \in Seq(Bytes) /\ r \o e \in Seq(Bytes)
      BY <2>4, ConcatProperties, Zenon
    <3> QED
      <4>1. Regroups(h \o CRLF, r, e)
        BY <2>4, <3>1, Regroup, Zenon
      <4> QED
        BY <3>1, <4>1, Zenon DEF Regroups
  <2>7. Regroups(h, CRLF, r \o e)
    BY <2>4, <2>6, Regroup, Zenon
  <2> QED
    BY <2>1, <2>5, <2>6, <2>7, Zenon DEF h, Regroups
<1> QED
  BY <1>4, <1>5, <1>6, Zenon

\* So is the data of chunks.
LEMMA DataOfIs ==
  ASSUME NEW chunks \in Seq(Chunks)
  PROVE  /\ DataOf(chunks) \in Seq(Bytes)
         /\ chunks = << >> => DataOf(chunks) = << >>
         /\ chunks # << >> => /\ Head(chunks) \in Chunks /\ Tail(chunks) \in Seq(Chunks)
                              /\ DataOf(chunks) = Head(chunks).data \o DataOf(Tail(chunks))
<1> DEFINE f == [chunk \in Chunks |-> chunk.data]
<1>1. f \in [Chunks -> Seq(Bytes)]
  <2>1. \A chunk \in Chunks : chunk.data \in Seq(Bytes)
    BY ChunkIs, Zenon
  <2> QED
    BY <2>1
<1>2. ASSUME NEW cs \in Seq(Chunks) PROVE DataOf(cs) = FlatMap(f, cs)
  <2>1. \A k \in DOMAIN cs : cs[k] \in Chunks
    BY ElementOfSeq, LenProperties, Zenon
  <2>2. \A k \in DOMAIN cs : f[cs[k]] = cs[k].data
    BY <2>1, Zenon
  <2> HIDE DEF f
  <2>3. [k \in DOMAIN cs |-> f[cs[k]]] = [k \in DOMAIN cs |-> cs[k].data]
    BY <2>2, Zenon
  <2> QED
    BY <2>3, Zenon DEF DataOf, FlatMap
<1>3. chunks # << >> => /\ Head(chunks) \in Chunks /\ Tail(chunks) \in Seq(Chunks)
                        /\ f[Head(chunks)] = Head(chunks).data
  <2>1. chunks # << >> => Head(chunks) \in Chunks /\ Tail(chunks) \in Seq(Chunks)
    BY HeadTailProperties, Zenon
  <2> QED
    BY <2>1, Zenon
<1>4. << >> \in Seq(Chunks)
  BY EmptySeq, Zenon
<1> HIDE DEF f
<1>5. /\ FlatMap(f, chunks) \in Seq(Bytes)
      /\ chunks = << >> => FlatMap(f, chunks) = << >>
      /\ chunks # << >> => FlatMap(f, chunks) = f[Head(chunks)] \o FlatMap(f, Tail(chunks))
  BY <1>1, FlatMapIs, SMTT(40)
<1> QED
  BY <1>2, <1>3, <1>5, Zenon

\* And so is the encoding of a body.
LEMMA EncodedIs ==
  ASSUME NEW chunks \in Seq(Chunks), NEW last \in LastChunks, NEW trailers \in Seq(Trailers)
  PROVE  /\ Encoded(chunks, last, trailers) \in Seq(Bytes)
         /\ chunks = << >> =>
              Encoded(chunks, last, trailers) =
                last.size \o (last.extension \o (CRLF \o EncodedTrailers(trailers)))
         /\ chunks # << >> =>
              Encoded(chunks, last, trailers) =
                Head(chunks).size \o (Head(chunks).extension \o (CRLF \o
                  (Head(chunks).data \o (CRLF \o Encoded(Tail(chunks), last, trailers)))))
<1> DEFINE f == [chunk \in Chunks |-> EncodedChunk(chunk)]
           ends == EncodedTrailers(trailers)
           L == SizeLine(last)
<1>1. CRLF \in Seq(Bytes) /\ ends \in Seq(Bytes)
  BY EncodedTrailersIs, LineEndIs, Zenon
<1>2. ASSUME NEW chunk \in Chunks \cup LastChunks
      PROVE  SizeLine(chunk) \in Seq(Bytes) /\ chunk.size \o chunk.extension \in Seq(Bytes)
             /\ EncodedChunk(chunk) \in Seq(Bytes) /\ SizeLine(chunk) \o chunk.data \in Seq(Bytes)
  <2>1. chunk.size \in Seq(Bytes) /\ chunk.extension \in Seq(Bytes) /\ chunk.data \in Seq(Bytes)
    BY ChunkIs, Zenon
  <2>2. chunk.size \o chunk.extension \in Seq(Bytes)
    BY <2>1, ConcatProperties, Zenon
  <2>3. SizeLine(chunk) \in Seq(Bytes)
    BY <1>1, <2>2, ConcatProperties, Zenon DEF SizeLine
  <2>4. SizeLine(chunk) \o chunk.data \in Seq(Bytes)
    BY <2>1, <2>3, ConcatProperties, Zenon
  <2>5. EncodedChunk(chunk) \in Seq(Bytes)
    BY <1>1, <2>4, ConcatProperties, Zenon DEF EncodedChunk
  <2> QED
    BY <2>2, <2>3, <2>4, <2>5
\* The line of a size and what follows it.
<1>3. ASSUME NEW chunk \in Chunks \cup LastChunks, NEW r \in Seq(Bytes)
      PROVE  SizeLine(chunk) \o r = chunk.size \o (chunk.extension \o (CRLF \o r))
  <2> DEFINE s == chunk.size
             x == chunk.extension
  <2>1. s \in Seq(Bytes) /\ x \in Seq(Bytes) /\ s \o x \in Seq(Bytes) /\ CRLF \o r \in Seq(Bytes)
    BY <1>2, ChunkIs, LineEndIs, Zenon
  <2>2. SizeLine(chunk) = (s \o x) \o CRLF
    BY DEF SizeLine
  <2> HIDE DEF s, x
  <2>3. Regroups(s \o x, CRLF, r)
    BY <1>1, <2>1, Regroup, Zenon
  <2>4. Regroups(s, x, CRLF \o r)
    BY <2>1, Regroup, Zenon
  <2> QED
    BY <2>2, <2>3, <2>4, Zenon DEF s, x, Regroups
<1>4. f \in [Chunks -> Seq(Bytes)]
  <2>1. \A chunk \in Chunks : EncodedChunk(chunk) \in Seq(Bytes)
    BY <1>2, Zenon
  <2> QED
    BY <2>1
<1>5. ASSUME NEW cs \in Seq(Chunks)
      PROVE  /\ FlatMap(f, cs) \in Seq(Bytes)
             /\ Encoded(cs, last, trailers) = FlatMap(f, cs) \o (L \o ends)
  <2>1. \A k \in DOMAIN cs : cs[k] \in Chunks
    BY ElementOfSeq, LenProperties, Zenon
  <2>2. \A k \in DOMAIN cs : f[cs[k]] = EncodedChunk(cs[k])
    BY <2>1, Zenon
  <2> HIDE DEF f
  <2>3. [k \in DOMAIN cs |-> f[cs[k]]] = [k \in DOMAIN cs |-> EncodedChunk(cs[k])]
    BY <2>2, Zenon
  <2>4. FlatMap(f, cs) \in Seq(Bytes)
    BY <1>4, FlatMapIs
  <2>5. Encoded(cs, last, trailers) = (FlatMap(f, cs) \o L) \o ends
    BY <2>3, Zenon DEF Encoded, FlatMap
  <2>6. L \in Seq(Bytes)
    BY <1>2, Zenon
  <2> HIDE DEF L, ends
  <2>7. Regroups(FlatMap(f, cs), L, ends)
    BY <1>1, <2>4, <2>6, Regroup, Zenon
  <2> QED
    BY <2>4, <2>5, <2>7, Zenon DEF Regroups
<1>6. L \o ends \in Seq(Bytes) /\ L \o ends = last.size \o (last.extension \o (CRLF \o ends))
  <2>1. L \in Seq(Bytes)
    BY <1>2, Zenon
  <2>2. L \o ends \in Seq(Bytes)
    BY <1>1, <2>1, ConcatProperties, Zenon
  <2> QED
    BY <1>1, <1>3, <2>2, Zenon
<1> HIDE DEF L, ends
<1>7. Encoded(chunks, last, trailers) \in Seq(Bytes)
  BY <1>5, <1>6, ConcatProperties, Zenon
<1>8. ASSUME chunks = << >>
      PROVE  Encoded(chunks, last, trailers) = last.size \o (last.extension \o (CRLF \o ends))
  <2>1. FlatMap(f, chunks) = << >>
    <3> HIDE DEF f
    <3> QED
      BY <1>8, FlatMapNone, Zenon
  <2>2. << >> \o (L \o ends) = L \o ends
    BY <1>6, ConcatEmptySeq, Zenon
  <2> QED
    BY <1>5, <1>6, <2>1, <2>2, Zenon
<1>9. ASSUME chunks # << >>
      PROVE  Encoded(chunks, last, trailers) =
               Head(chunks).size \o (Head(chunks).extension \o (CRLF \o
                 (Head(chunks).data \o (CRLF \o Encoded(Tail(chunks), last, trailers)))))
  <2> DEFINE chunk == Head(chunks)
             r == FlatMap(f, Tail(chunks))
             e == L \o ends
             S == SizeLine(chunk)
             d == chunk.data
             all == Encoded(Tail(chunks), last, trailers)
  <2>1. chunk \in Chunks /\ Tail(chunks) \in Seq(Chunks)
    BY <1>9, HeadTailProperties, Zenon
  <2>2. FlatMap(f, chunks) = f[chunk] \o r
    <3> HIDE DEF f
    <3> QED
      BY <1>4, <1>9, FlatMapFirst
  <2>3. f[chunk] = (S \o d) \o CRLF
    BY <2>1, Zenon DEF EncodedChunk
  <2>4. r \in Seq(Bytes) /\ e \in Seq(Bytes) /\ all = r \o e
    BY <1>5, <1>6, <2>1, Zenon
  <2>5. S \in Seq(Bytes) /\ d \in Seq(Bytes) /\ S \o d \in Seq(Bytes)
    BY <1>2, <2>1, ChunkIs, Zenon
  <2>6. Encoded(chunks, last, trailers) = (((S \o d) \o CRLF) \o r) \o e
    BY <1>5, <2>2, <2>3, Zenon
  <2>7. all \in Seq(Bytes) /\ CRLF \o all \in Seq(Bytes) /\ d \o (CRLF \o all) \in Seq(Bytes)
    <3> HIDE DEF r, e, d, S
    <3>1. all \in Seq(Bytes)
      BY <2>4, ConcatProperties, Zenon
    <3> HIDE DEF all
    <3>2. CRLF \o all \in Seq(Bytes)
      BY <3>1, LineEndIs, Zenon
    <3> QED
      BY <2>5, <3>1, <3>2, ConcatProperties, Zenon
  <2>8. S \o (d \o (CRLF \o all)) = chunk.size \o (chunk.extension \o (CRLF \o (d \o (CRLF \o all))))
    BY <1>3, <2>1, <2>7, Zenon
  <2> HIDE DEF chunk, r, e, S, d, all
  <2>9. (S \o d) \o CRLF \in Seq(Bytes)
    BY <1>1, <2>5, ConcatProperties, Zenon
  <2>10. Regroups((S \o d) \o CRLF, r, e)
    BY <2>4, <2>9, Regroup, Zenon
  <2>11. Regroups(S \o d, CRLF, all)
    BY <1>1, <2>5, <2>7, Regroup, Zenon
  <2>12. Regroups(S, d, CRLF \o all)
    BY <2>5, <2>7, Regroup, Zenon
  <2>13. Encoded(chunks, last, trailers) =
           chunk.size \o (chunk.extension \o (CRLF \o (d \o (CRLF \o all))))
    BY <2>4, <2>6, <2>8, <2>10, <2>11, <2>12, Zenon DEF Regroups
  <2> QED
    BY <2>13, Zenon DEF chunk, d, all
<1> QED
  BY <1>7, <1>8, <1>9, Zenon DEF ends

-----------------------------------------------------------------------------
(* The steps. *)

\* Where a chunk begins, whether it is the last or not.
LEMMA ChunkBegins ==
  ASSUME NEW server \in [chunks : Seq(Chunks), last : LastChunks, trailers : Seq(Trailers)],
         NEW chunks \in Seq(Chunks), NEW given \in Seq(Bytes),
         given \o DataOf(chunks) = DataOf(server.chunks)
  PROVE  \E chunk \in Chunks \cup LastChunks, follows \in Seq(Bytes) :
           /\ After(chunk, follows, given, server)
           /\ EncodedFrom(chunks, server) = chunk.size \o (chunk.extension \o (CRLF \o follows))
<1> DEFINE last == server.last
           ends == server.trailers
<1>1. last \in LastChunks /\ ends \in Seq(Trailers)
  OBVIOUS
<1> HIDE DEF last, ends
<1>2. EncodedFrom(chunks, server) = Encoded(chunks, last, ends)
  BY DEF EncodedFrom, last, ends
<1>3. CASE chunks = << >>
  <2>1. EncodedTrailers(ends) \in Seq(Bytes)
    BY <1>1, EncodedTrailersIs, Zenon
  <2>2. EncodedFrom(chunks, server) = last.size \o (last.extension \o (CRLF \o EncodedTrailers(ends)))
    BY <1>1, <1>2, <1>3, EncodedIs, Zenon
  <2>3. given = DataOf(server.chunks)
    <3>1. given \o << >> = given
      BY ConcatEmptySeq, Zenon
    <3>2. DataOf(chunks) = << >>
      BY <1>3, DataOfIs, Zenon
    <3> QED
      BY <3>1, <3>2, Zenon
  <2>4. After(last, EncodedTrailers(ends), given, server)
    BY <2>3, Zenon DEF After, last, ends
  <2> QED
    BY <1>1, <2>1, <2>2, <2>4, Zenon
<1>4. CASE chunks # << >>
  <2> DEFINE chunk == Head(chunks)
             others == Tail(chunks)
             next == EncodedFrom(others, server)
             follows == chunk.data \o (CRLF \o next)
  <2>1. chunk \in Chunks /\ others \in Seq(Chunks) /\ DataOf(chunks) = chunk.data \o DataOf(others)
    BY <1>4, DataOfIs, Zenon
  <2>2. chunk.data \in Seq(Bytes) /\ next \in Seq(Bytes)
    BY <1>1, <2>1, ChunkIs, EncodedIs, Zenon DEF EncodedFrom, last, ends
  <2>3. follows \in Seq(Bytes)
    <3>1. CRLF \o next \in Seq(Bytes)
      BY <2>2, LineEndIs, Zenon
    <3> QED
      BY <2>2, <3>1, ConcatProperties, Zenon
  <2>4. EncodedFrom(chunks, server) = chunk.size \o (chunk.extension \o (CRLF \o follows))
    BY <1>1, <1>2, <1>4, EncodedIs, Zenon DEF EncodedFrom, last, ends
  <2>5. After(chunk, follows, given, server)
    BY <2>1, Zenon DEF After
  <2> HIDE DEF chunk, follows
  <2> QED
    BY <2>1, <2>3, <2>4, <2>5, Zenon
<1> QED
  BY <1>3, <1>4, Zenon

\* Looking at a byte.
LEMMA LookAt ==
  ASSUME ChunkTypeOK, piece # << >>
  PROVE  Left \in Seq(Bytes) /\ Head(piece) = Head(Left)
<1>1. piece \in Seq(Bytes) /\ coming \in Seq(Bytes)
  BY DEF ChunkTypeOK
<1> QED
  BY <1>1, HeadOfConcat DEF Left

\* Consuming a byte.
LEMMA Consumed ==
  ASSUME ChunkTypeOK, piece # << >>, piece' = Tail(piece), coming' = coming
  PROVE  Left' = Tail(Left) /\ piece' \in Seq(Bytes)
<1>1. piece \in Seq(Bytes) /\ coming \in Seq(Bytes)
  BY DEF ChunkTypeOK
<1> QED
  BY <1>1, HeadOfConcat DEF Left

\* Before the first call nothing was read.
LEMMA ChunkStart == ChunkInit => ChunkInv
<1> SUFFICES ASSUME ChunkInit PROVE ChunkInv
  OBVIOUS
<1>1. /\ sent.chunks \in Seq(Chunks) /\ sent.last \in LastChunks /\ sent.trailers \in Seq(Trailers)
      /\ sent \in [chunks : Seq(Chunks), last : LastChunks, trailers : Seq(Trailers)]
  <2>1. SeqsUpTo(Chunks, MaxChunks) \subseteq Seq(Chunks)
    BY DEF SeqsUpTo
  <2>2. SeqsUpTo(Trailers, MaxTrailers) \subseteq Seq(Trailers)
    BY DEF SeqsUpTo
  <2>3. sent \in [chunks : SeqsUpTo(Chunks, MaxChunks), last : LastChunks,
                  trailers : SeqsUpTo(Trailers, MaxTrailers)]
    BY DEF ChunkInit
  <2> QED
    BY <2>1, <2>2, <2>3
<1>2. /\ coming = EncodedFrom(sent.chunks, sent)
      /\ piece = << >> /\ state = "HEX" /\ hex = << >> /\ datasize = 0
      /\ trailer = << >> /\ body = << >> /\ headers = << >> /\ code = "OK"
  BY DEF ChunkInit, EncodedFrom
<1>3. coming \in Seq(Bytes)
  BY <1>1, <1>2, EncodedIs, Zenon DEF EncodedFrom
<1>4. ChunkTypeOK
  <2>1. \A S : << >> \in Seq(S)
    BY EmptySeq, Zenon
  <2> QED
    BY <1>1, <1>2, <1>3, <2>1 DEF ChunkTypeOK
<1>5. SizeInv
  <2>1. body \o DataOf(sent.chunks) = DataOf(sent.chunks)
    BY <1>1, <1>2, DataOfIs, ConcatEmptySeq, Zenon
  <2>2. body \in Seq(Bytes)
    BY <1>4, Zenon DEF ChunkTypeOK
  <2>3. PICK chunk \in Chunks \cup LastChunks, follows \in Seq(Bytes) :
          /\ After(chunk, follows, body, sent)
          /\ EncodedFrom(sent.chunks, sent) = chunk.size \o (chunk.extension \o (CRLF \o follows))
    BY <1>1, <2>1, <2>2, ChunkBegins, Zenon
  <2>4. Left = chunk.size \o (chunk.extension \o (CRLF \o follows))
    BY <1>2, <1>3, <2>3, ConcatEmptySeq, Zenon DEF Left
  <2>5. chunk.size \in Seq(HexBytes) /\ chunk.size = hex \o chunk.size
    BY <1>2, ChunkIs, ConcatEmptySeq, Zenon
  <2>6. InLine(chunk, follows)
    BY <1>2, <2>4, <2>5, Zenon DEF InLine
  <2> QED
    BY <1>2, <2>3, <2>6, Zenon DEF SizeInv
<1> QED
  BY <1>2, <1>4, <1>5, Zenon DEF ChunkInv

\* The bytes that arrive are only in another place, and a step that changes nothing.
LEMMA SameLeft ==
  ASSUME ChunkInv, Left' = Left, coming' \in Seq(Bytes), piece' \in Seq(Bytes),
         UNCHANGED <<sent, state, hex, datasize, trailer, body, headers, code>>
  PROVE  ChunkInv'
<1>1. ChunkTypeOK'
  BY DEF ChunkInv, ChunkTypeOK
<1>2. SizeInv => SizeInv'
  BY Zenon DEF SizeInv, InLine
<1>3. DataInv => DataInv'
  BY Zenon DEF DataInv
<1>4. TrailerInv => TrailerInv'
  BY Zenon DEF TrailerInv
<1>5. StopInv => StopInv'
  BY Zenon DEF StopInv
<1> QED
  BY <1>1, <1>2, <1>3, <1>4, <1>5 DEF ChunkInv

\* Receive: the bytes are in another place, and the same.
LEMMA ReceiveInv == ASSUME ChunkInv, Receive PROVE ChunkInv'
<1>1. coming \in Seq(Bytes) /\ piece = << >>
  BY DEF ChunkInv, ChunkTypeOK, Receive
<1>2. PICK n \in 1 .. Len(coming) :
        piece' = SubSeq(coming, 1, n) /\ coming' = SubSeq(coming, n + 1, Len(coming))
  BY DEF Receive
<1>3. piece' \in Seq(Bytes) /\ coming' \in Seq(Bytes)
  BY <1>1, <1>2
<1>4. piece' \o coming' = coming
  <2>1. /\ 1 \in 1 .. Len(coming) + 1 /\ n \in 1 - 1 .. Len(coming) /\ Len(coming) \in n .. Len(coming)
        /\ SubSeq(coming, 1, Len(coming)) = coming
    BY <1>1
  <2> QED
    BY <1>1, <1>2, <2>1, ConcatAdjacentSubSeq
<1>5. Left' = Left
  BY <1>1, <1>4, ConcatEmptySeq, Zenon DEF Left
<1>6. UNCHANGED <<sent, state, hex, datasize, trailer, body, headers, code>>
  BY DEF Receive
<1> QED
  BY <1>3, <1>5, <1>6, SameLeft, Zenon

\* CHUNK_HEX: a digit of the size, or the byte after the last of them.
LEMMA HexInv == ASSUME ChunkInv, ReadHex PROVE ChunkInv'
<1>1. code = "OK" /\ piece # << >> /\ state = "HEX" /\ UNCHANGED <<sent, coming>> /\ ChunkTypeOK
  BY DEF ReadHex, In, ChunkInv
<1>2. headers = << >> /\ \E chunk \in Chunks \cup LastChunks, follows \in Seq(Bytes) :
                           After(chunk, follows, body, sent) /\ InLine(chunk, follows)
  BY <1>1 DEF ChunkInv, SizeInv, DataInv, TrailerInv, StopInv
<1>3. PICK chunk \in Chunks \cup LastChunks, follows \in Seq(Bytes) :
        After(chunk, follows, body, sent) /\ InLine(chunk, follows)
  BY <1>2, Zenon
<1> DEFINE after == chunk.extension \o (CRLF \o follows)
<1>4. PICK digits \in Seq(HexBytes) : chunk.size = hex \o digits /\ Left = digits \o after
  BY <1>1, <1>3 DEF InLine
<1>5. /\ CRLF \o follows \in Seq(Bytes) /\ after \in Seq(Bytes) /\ digits \in Seq(Bytes)
      /\ chunk.extension \in Seq(Bytes) /\ hex \in Seq(HexBytes)
  <2>1. CRLF \o follows \in Seq(Bytes) /\ chunk.extension \in Seq(Bytes)
    BY ChunkIs, LineEndIs, Zenon
  <2>2. digits \in Seq(Bytes)
    BY BytesAre, SeqMonotonic, Zenon
  <2> QED
    BY <1>1, <2>1, <2>2, ConcatProperties, Zenon DEF ChunkTypeOK
<1>6. CASE digits # << >>
  <2> HIDE DEF after
  <2>1. /\ Head(digits) \in HexBytes /\ Tail(digits) \in Seq(HexBytes)
        /\ Head(Left) = Head(digits) /\ Tail(Left) = Tail(digits) \o after
    <3>1. Head(digits) \in HexBytes /\ Tail(digits) \in Seq(HexBytes)
      BY <1>6, HeadTailProperties, Zenon
    <3>2. Head(digits \o after) = Head(digits) /\ Tail(digits \o after) = Tail(digits) \o after
      BY <1>5, <1>6, HeadOfConcat
    <3> QED
      BY <1>4, <3>1, <3>2, Zenon
  <2>2. /\ Append(hex, Head(digits)) \in Seq(HexBytes)
        /\ chunk.size = Append(hex, Head(digits)) \o Tail(digits)
    BY <1>4, <1>5, <1>6, MoveHead
  <2>3. Len(hex) < MaxNumSize
    <3>1. Len(chunk.size) = Len(hex) + Len(digits) /\ Len(digits) \in Nat \ {0} /\ Len(hex) \in Nat
      BY <1>4, <1>5, <1>6, ConcatProperties, EmptySeq, LenProperties
    <3>2. Len(chunk.size) <= MaxNumSize /\ MaxNumSize \in Nat
      BY ChunkIs, MaxChunksAssumption
    <3> QED
      BY <3>1, <3>2
  <2>4. IsHex(Head(piece))
    BY <1>1, <2>1, LookAt, Zenon DEF IsHex
  <2>5. /\ hex' = Append(hex, Head(digits)) /\ piece' = Tail(piece)
        /\ UNCHANGED <<sent, coming, state, datasize, trailer, body, headers, code>>
    BY <1>1, <2>1, <2>3, <2>4, LookAt DEF ReadHex, Consume, In
  <2>6. Left' = Tail(digits) \o after /\ piece' \in Seq(Bytes)
    BY <1>1, <2>1, <2>5, Consumed
  <2>7. InLine(chunk, follows)'
    <3>1. chunk.size = hex' \o Tail(digits)
      BY <2>2, <2>5
    <3>2. state' = "HEX"
      BY <1>1, <2>5
    <3> QED
      BY <2>1, <2>6, <3>1, <3>2, Zenon DEF InLine, after
  <2>8. SizeInv'
    <3>1. After(chunk, follows, body', sent') /\ headers' = << >>
      BY <1>2, <1>3, <2>5
    <3> QED
      BY <2>7, <3>1, Zenon DEF SizeInv
  <2>9. ChunkTypeOK'
    BY <1>1, <2>2, <2>5, <2>6 DEF ChunkTypeOK
  <2> QED
    BY <1>1, <2>5, <2>8, <2>9 DEF ChunkInv
<1>7. CASE digits = << >>
  <2>1. Left = after /\ chunk.size = hex
    BY <1>4, <1>5, <1>7, ConcatEmptySeq, Zenon
  <2>2. Head(after) \in {"x", "CR"}
    <3>1. CASE chunk.extension = << >>
      <4>1. after = CRLF \o follows
        BY <1>5, <3>1, ConcatEmptySeq, Zenon
      <4> QED
        BY <4>1, LineEndIs
    <3>2. CASE chunk.extension # << >>
      <4>1. Head(chunk.extension) \in {"x", "CR"}
        BY <3>2, ChunkIs, HeadTailProperties, Zenon
      <4>2. Head(after) = Head(chunk.extension)
        <5> DEFINE e == chunk.extension
                   r == CRLF \o follows
        <5>1. e \in Seq(Bytes) /\ e # << >> /\ r \in Seq(Bytes)
          BY <1>5, <3>2
        <5> HIDE DEF e, r
        <5>2. Head(e \o r) = Head(e)
          BY <5>1, HeadOfConcat
        <5> QED
          BY <5>2 DEF e, r
      <4> QED
        BY <4>1, <4>2
    <3> QED
      BY <3>1, <3>2
  <2> HIDE DEF after
  <2>3. ~ IsHex(Head(piece))
    BY <1>1, <2>1, <2>2, LookAt, BytesAre DEF IsHex
  <2>4. hex # << >>
    BY <2>1, ChunkIs
  <2>5. /\ datasize' = Value(hex) /\ state' = "POSTHEX"
        /\ UNCHANGED <<sent, coming, piece, hex, trailer, body, headers, code>>
    BY <1>1, <2>3, <2>4 DEF ReadHex
  <2>6. datasize' = Len(chunk.data) /\ datasize' \in Nat
    <3>1. Value(chunk.size) = Len(chunk.data) /\ Len(chunk.data) \in Nat
      BY ChunkIs, LenProperties, Zenon
    <3> QED
      BY <2>1, <2>5, <3>1
  <2>7. InLine(chunk, follows)'
    <3>1. chunk.extension \in Seq({"x", "CR"})
      BY ChunkIs, Zenon
    <3>2. Left' = Left
      BY <2>5 DEF Left
    <3> QED
      BY <2>1, <2>5, <2>6, <3>1, <3>2, Zenon DEF InLine, after
  <2>8. SizeInv'
    <3>1. After(chunk, follows, body', sent') /\ headers' = << >>
      BY <1>2, <1>3, <2>5
    <3> QED
      BY <2>7, <3>1, Zenon DEF SizeInv
  <2>9. ChunkTypeOK'
    BY <1>1, <2>5, <2>6 DEF ChunkTypeOK
  <2> QED
    BY <1>1, <2>5, <2>8, <2>9 DEF ChunkInv
<1> QED
  BY <1>6, <1>7

\* CHUNK_POSTHEX: a byte of an extension, or a CR, be it in the extension or not.
LEMMA PostHexInv == ASSUME ChunkInv, ReadPostHex PROVE ChunkInv'
<1>1. /\ code = "OK" /\ piece # << >> /\ state = "POSTHEX" /\ ChunkTypeOK /\ piece' = Tail(piece)
      /\ state' = IF Head(piece) = "CR" THEN "CR" ELSE state
      /\ UNCHANGED <<sent, coming, hex, datasize, trailer, body, headers, code>>
  BY DEF ReadPostHex, In, ChunkInv, Consume
<1>2. headers = << >> /\ \E chunk \in Chunks \cup LastChunks, follows \in Seq(Bytes) :
                           After(chunk, follows, body, sent) /\ InLine(chunk, follows)
  BY <1>1 DEF ChunkInv, SizeInv, DataInv, TrailerInv, StopInv
<1>3. PICK chunk \in Chunks \cup LastChunks, follows \in Seq(Bytes) :
        After(chunk, follows, body, sent) /\ InLine(chunk, follows)
  BY <1>2, Zenon
<1> DEFINE end == CRLF \o follows
<1>4. PICK extension \in Seq({"x", "CR"}) : datasize = Len(chunk.data) /\ Left = extension \o end
  BY <1>1, <1>3 DEF InLine
<1>5. /\ end \in Seq(Bytes) /\ end # << >> /\ extension \in Seq(Bytes) /\ Head(end) = "CR"
      /\ Tail(end) = <<"LF">> \o follows /\ <<"LF">> \o follows \in Seq(Bytes)
  <2>1. extension \in Seq(Bytes)
    <3>1. {"x", "CR"} \subseteq Bytes
      BY BytesAre
    <3> QED
      BY <3>1, SeqMonotonic, Zenon
  <2> QED
    BY <2>1, LineEndIs, Zenon
<1>6. Left' = Tail(Left) /\ piece' \in Seq(Bytes) /\ Head(piece) = Head(Left)
  BY <1>1, Consumed, LookAt
<1> HIDE DEF end
<1>7. InLine(chunk, follows)'
  <2>1. CASE extension = << >>
    <3>1. Left = end
      BY <1>4, <1>5, <2>1, ConcatEmptySeq, Zenon
    <3>2. Left' = << >> \o (<<"LF">> \o follows)
      BY <1>5, <1>6, <3>1, ConcatEmptySeq, Zenon
    <3>3. state' = "CR"
      BY <1>1, <1>5, <1>6, <3>1
    <3>4. << >> \in Seq({"x", "CR"})
      BY EmptySeq, Zenon
    <3> QED
      BY <1>1, <1>4, <3>2, <3>3, <3>4, Zenon DEF InLine
  <2>2. CASE extension # << >>
    <3> DEFINE more == Tail(extension)
    <3>1. more \in Seq({"x", "CR"}) /\ Head(extension) \in {"x", "CR"}
      BY <2>2, HeadTailProperties, Zenon
    <3>2. Head(Left) = Head(extension) /\ Left' = more \o end
      BY <1>4, <1>5, <1>6, <2>2, HeadOfConcat, SMTT(40)
    <3> HIDE DEF more
    <3>3. CASE Head(extension) = "CR"
      <4>1. "CR" \in {"x", "CR"} /\ more \in Seq(Bytes)
        <5>1. {"x", "CR"} \subseteq Bytes
          BY BytesAre
        <5> QED
          BY <3>1, <5>1, SeqMonotonic, Zenon
      <4>2. Append(more, "CR") \in Seq({"x", "CR"})
        BY <3>1, <4>1
      <4>3. more \o end = Append(more, Head(end)) \o Tail(end)
        BY <1>5, <4>1, MoveHead
      <4>4. Left' = Append(more, "CR") \o (<<"LF">> \o follows)
        BY <1>5, <3>2, <4>3, Zenon
      <4>5. state' = "CR"
        BY <1>1, <1>6, <3>2, <3>3
      <4> QED
        BY <1>1, <1>4, <4>2, <4>4, <4>5, Zenon DEF InLine
    <3>4. CASE Head(extension) # "CR"
      <4>1. state' = "POSTHEX"
        BY <1>1, <1>6, <3>2, <3>4
      <4> QED
        BY <1>1, <1>4, <3>1, <3>2, <4>1, Zenon DEF InLine, end
    <3> QED
      BY <3>3, <3>4
  <2> QED
    BY <2>1, <2>2
<1>8. SizeInv'
  <2>1. After(chunk, follows, body', sent') /\ headers' = << >>
    BY <1>1, <1>2, <1>3
  <2> QED
    BY <1>7, <2>1, Zenon DEF SizeInv
<1>9. ChunkTypeOK'
  BY <1>1, <1>6 DEF ChunkTypeOK
<1> QED
  BY <1>1, <1>8, <1>9 DEF ChunkInv

\* CHUNK_CR: a byte of an extension, or the LF, and with it the data or the trailers.
LEMMA CRInv == ASSUME ChunkInv, ReadCR PROVE ChunkInv'
<1>1. /\ code = "OK" /\ piece # << >> /\ state = "CR" /\ ChunkTypeOK /\ piece' = Tail(piece)
      /\ state' = CASE Head(piece) = "LF" /\ datasize = 0 -> "TRAILER"
                    [] Head(piece) = "LF" /\ datasize # 0 -> "DATA"
                    [] OTHER -> "CR"
      /\ trailer' = IF state' = "TRAILER" THEN << >> ELSE trailer
      /\ UNCHANGED <<sent, coming, hex, datasize, body, headers, code>>
  BY DEF ReadCR, In, ChunkInv, Consume
<1>2. headers = << >> /\ \E chunk \in Chunks \cup LastChunks, follows \in Seq(Bytes) :
                           After(chunk, follows, body, sent) /\ InLine(chunk, follows)
  BY <1>1 DEF ChunkInv, SizeInv, DataInv, TrailerInv, StopInv
<1>3. PICK chunk \in Chunks \cup LastChunks, follows \in Seq(Bytes) :
        After(chunk, follows, body, sent) /\ InLine(chunk, follows)
  BY <1>2, Zenon
<1> DEFINE end == <<"LF">> \o follows
<1>4. PICK extension \in Seq({"x", "CR"}) : datasize = Len(chunk.data) /\ Left = extension \o end
  BY <1>1, <1>3 DEF InLine
<1>5. /\ end \in Seq(Bytes) /\ end # << >> /\ extension \in Seq(Bytes) /\ Head(end) = "LF"
      /\ Tail(end) = follows
  <2>1. extension \in Seq(Bytes)
    <3>1. {"x", "CR"} \subseteq Bytes
      BY BytesAre
    <3> QED
      BY <3>1, SeqMonotonic, Zenon
  <2> QED
    BY <2>1, LineEndIs, Zenon
<1>6. Left' = Tail(Left) /\ piece' \in Seq(Bytes) /\ Head(piece) = Head(Left)
  BY <1>1, Consumed, LookAt
<1>7. ChunkTypeOK'
  <2>1. << >> \in Seq({"x"})
    BY EmptySeq, Zenon
  <2>2. state' \in {"TRAILER", "DATA", "CR"}
    BY <1>1
  <2>3. trailer' \in Seq({"x"})
    BY <1>1, <2>1 DEF ChunkTypeOK
  <2> QED
    BY <1>1, <1>6, <2>2, <2>3 DEF ChunkTypeOK
<1> HIDE DEF end
<1>8. CASE extension # << >>
  <2>1. Tail(extension) \in Seq({"x", "CR"}) /\ Head(extension) \in {"x", "CR"}
    BY <1>8, HeadTailProperties, Zenon
  <2>2. Head(Left) = Head(extension) /\ Left' = Tail(extension) \o end
    BY <1>4, <1>5, <1>6, <1>8, HeadOfConcat
  <2>3. state' = "CR"
    BY <1>1, <1>6, <2>1, <2>2
  <2>4. InLine(chunk, follows)'
    BY <1>1, <1>4, <2>1, <2>2, <2>3, Zenon DEF InLine, end
  <2>5. SizeInv'
    <3>1. After(chunk, follows, body', sent') /\ headers' = << >>
      BY <1>1, <1>2, <1>3
    <3> QED
      BY <2>4, <3>1, Zenon DEF SizeInv
  <2> QED
    BY <1>1, <1>7, <2>5 DEF ChunkInv
<1>9. CASE extension = << >>
  <2>1. Left = end
    BY <1>4, <1>5, <1>9, ConcatEmptySeq, Zenon
  <2>2. Left' = follows /\ Head(piece) = "LF"
    BY <1>5, <1>6, <2>1, Zenon
  <2>3. CASE chunk \in Chunks /\ \E chunks \in Seq(Chunks) :
               /\ follows = chunk.data \o (CRLF \o EncodedFrom(chunks, sent))
               /\ body \o (chunk.data \o DataOf(chunks)) = DataOf(sent.chunks)
    <3>1. PICK chunks \in Seq(Chunks) :
            /\ follows = chunk.data \o (CRLF \o EncodedFrom(chunks, sent))
            /\ body \o (chunk.data \o DataOf(chunks)) = DataOf(sent.chunks)
      BY <2>3, Zenon
    <3>2. chunk.data \in Seq(Bytes) /\ chunk.data # << >>
      BY <2>3, ChunkIs
    <3>3. datasize # 0
      BY <1>4, <3>2, EmptySeq
    <3>4. state' = "DATA"
      BY <1>1, <2>2, <3>3
    <3>5. Left' = chunk.data \o (CRLF \o EncodedFrom(chunks, sent'))
          /\ body' \o (chunk.data \o DataOf(chunks)) = DataOf(sent'.chunks) /\ datasize' = Len(chunk.data)
          /\ headers' = << >>
      BY <1>1, <1>2, <1>4, <2>2, <3>1
    <3>6. DataInv'
      BY <3>2, <3>4, <3>5, Zenon DEF DataInv
    <3> QED
      BY <1>1, <1>7, <3>6 DEF ChunkInv
  <2>4. CASE /\ chunk = sent.last /\ follows = EncodedTrailers(sent.trailers)
             /\ body = DataOf(sent.chunks)
    <3>1. sent.last \in LastChunks /\ sent.trailers \in Seq(Trailers)
      BY <1>1 DEF ChunkTypeOK
    <3>2. datasize = 0
      BY <1>4, <2>4, <3>1, ChunkIs, EmptySeq
    <3>3. state' = "TRAILER" /\ trailer' = << >>
      BY <1>1, <2>2, <3>2
    <3>4. headers' \o sent'.trailers = sent'.trailers
      BY <1>1, <1>2, <3>1, ConcatEmptySeq, Zenon
    <3>5. /\ Left' = EncodedTrailers(sent'.trailers) /\ body' = DataOf(sent'.chunks)
          /\ sent'.trailers \in Seq(Trailers)
      BY <1>1, <2>2, <2>4, <3>1
    <3>6. TrailerInv'
      BY <3>3, <3>4, <3>5 DEF TrailerInv
    <3> QED
      BY <1>1, <1>7, <3>6 DEF ChunkInv
  <2> QED
    BY <1>3, <2>3, <2>4, Zenon DEF After
<1> QED
  BY <1>8, <1>9

\* Two ways to see the same bytes are cut at the same place.
Cut(p, c, d, r, n) ==
  LET given == SubSeq(p, 1, n)
      more == SubSeq(d, n + 1, Len(d))
  IN /\ given \in Seq(Bytes) /\ SubSeq(p, n + 1, Len(p)) \in Seq(Bytes)
     /\ more \in Seq(Bytes) /\ Len(more) = Len(d) - n /\ d = given \o more
     /\ SubSeq(p, n + 1, Len(p)) \o c = more \o r

LEMMA CutAt ==
  ASSUME NEW p \in Seq(Bytes), NEW c \in Seq(Bytes), NEW d \in Seq(Bytes), NEW r \in Seq(Bytes),
         p \o c = d \o r, NEW n \in Nat, n <= Len(p), n <= Len(d)
  PROVE  Cut(p, c, d, r, n)
<1> DEFINE p1 == SubSeq(p, 1, n)
           p2 == SubSeq(p, n + 1, Len(p))
           d1 == SubSeq(d, 1, n)
           d2 == SubSeq(d, n + 1, Len(d))
<1>1. ASSUME NEW s \in Seq(Bytes), n <= Len(s)
      PROVE  /\ SubSeq(s, 1, n) \in Seq(Bytes) /\ SubSeq(s, n + 1, Len(s)) \in Seq(Bytes)
             /\ Len(SubSeq(s, n + 1, Len(s))) = Len(s) - n /\ Len(SubSeq(s, 1, n)) = n
             /\ SubSeq(s, 1, n) \o SubSeq(s, n + 1, Len(s)) = s
             /\ \A i \in 1 .. n : SubSeq(s, 1, n)[i] = s[i]
  <2>1. /\ SubSeq(s, 1, n) \in Seq(Bytes) /\ SubSeq(s, n + 1, Len(s)) \in Seq(Bytes)
        /\ Len(SubSeq(s, n + 1, Len(s))) = Len(s) - n /\ Len(SubSeq(s, 1, n)) = n
        /\ \A i \in 1 .. n : SubSeq(s, 1, n)[i] = s[i]
    <3>1. /\ Len(s) \in Nat /\ 1 \in Int /\ n \in Int /\ n + 1 \in Int /\ Len(s) \in Int
          /\ \A i \in 1 .. n : s[i] \in Bytes
          /\ \A i \in n + 1 .. Len(s) : s[i] \in Bytes
      <4>1. Len(s) \in Nat /\ \A i \in 1 .. Len(s) : s[i] \in Bytes
        BY ElementOfSeq, LenProperties, Zenon
      <4> QED
        BY <1>1, <4>1
    <3>2. /\ SubSeq(s, 1, n) \in Seq(Bytes) /\ Len(SubSeq(s, 1, n)) = IF 1 <= n THEN n - 1 + 1 ELSE 0
          /\ \A i \in 1 .. n - 1 + 1 : SubSeq(s, 1, n)[i] = s[1 + i - 1]
      BY <3>1, SubSeqProperties
    <3>3. /\ SubSeq(s, n + 1, Len(s)) \in Seq(Bytes)
          /\ Len(SubSeq(s, n + 1, Len(s))) = IF n + 1 <= Len(s) THEN Len(s) - (n + 1) + 1 ELSE 0
      BY <3>1, SubSeqProperties
    <3>4. n - 1 + 1 = n /\ \A i \in 1 .. n : 1 + i - 1 = i
      OBVIOUS
    <3> QED
      BY <1>1, <3>1, <3>2, <3>3, <3>4
  <2>2. /\ 1 \in 1 .. Len(s) + 1 /\ n \in 1 - 1 .. Len(s) /\ Len(s) \in n .. Len(s)
        /\ SubSeq(s, 1, Len(s)) = s
    BY <1>1
  <2>3. SubSeq(s, 1, n) \o SubSeq(s, n + 1, Len(s)) = SubSeq(s, 1, Len(s))
    BY <2>2, ConcatAdjacentSubSeq
  <2> QED
    BY <2>1, <2>2, <2>3
<1>2. /\ p1 \in Seq(Bytes) /\ p2 \in Seq(Bytes) /\ Len(p1) = n /\ p = p1 \o p2
      /\ d1 \in Seq(Bytes) /\ d2 \in Seq(Bytes) /\ Len(d1) = n /\ d = d1 \o d2 /\ Len(d2) = Len(d) - n
      /\ \A i \in 1 .. n : p1[i] = p[i] /\ d1[i] = d[i]
  BY <1>1
<1>3. p1 = d1
  <2>1. ASSUME NEW i \in 1 .. n PROVE p1[i] = d1[i]
    <3>1. Len(p) \in Nat /\ Len(c) \in Nat /\ Len(d) \in Nat /\ Len(r) \in Nat
      BY LenProperties
    <3>2. i \in 1 .. Len(p) + Len(c) /\ i <= Len(p) /\ i \in 1 .. Len(d) + Len(r) /\ i <= Len(d)
      BY <3>1
    <3>3. (p \o c)[i] = p[i]
      BY <3>2, ConcatProperties
    <3>4. (d \o r)[i] = d[i]
      BY <3>2, ConcatProperties
    <3> QED
      BY <1>2, <3>3, <3>4
  <2> HIDE DEF p1, d1
  <2> QED
    BY <1>2, <2>1, SeqEqual
<1> HIDE DEF p1, p2, d1, d2
<1>4. p1 \o (p2 \o c) = p1 \o (d2 \o r) /\ p2 \o c \in Seq(Bytes) /\ d2 \o r \in Seq(Bytes)
  <2>1. Regroups(p1, p2, c)
    BY <1>2, Regroup, Zenon
  <2>3. Regroups(d1, d2, r)
    BY <1>2, Regroup, Zenon
  <2>2. p2 \o c \in Seq(Bytes) /\ d2 \o r \in Seq(Bytes)
    BY <1>2, ConcatProperties, Zenon
  <2> QED
    BY <1>2, <1>3, <2>1, <2>2, <2>3, Zenon DEF Regroups
<1>5. p2 \o c = d2 \o r
  BY <1>2, <1>4, Cancel, Zenon
<1> QED
  BY <1>2, <1>3, <1>5, Zenon DEF p1, p2, d2, Cut

\* CHUNK_DATA: as much of the data as has arrived.
LEMMA DataStepInv == ASSUME ChunkInv, ReadData PROVE ChunkInv'
<1> DEFINE n == IF datasize >= Len(piece) THEN Len(piece) ELSE datasize
<1>1. /\ code = "OK" /\ piece # << >> /\ state = "DATA" /\ ChunkTypeOK
      /\ body' = body \o SubSeq(piece, 1, n) /\ piece' = SubSeq(piece, n + 1, Len(piece))
      /\ datasize' = datasize - n /\ state' = IF datasize' = 0 THEN "POSTCR" ELSE state
      /\ UNCHANGED <<sent, coming, hex, trailer, headers, code>>
  BY DEF ReadData, In, ChunkInv
<1>2. /\ headers = << >> /\ datasize \in Nat /\ body \in Seq(Bytes)
      /\ piece \in Seq(Bytes) /\ coming \in Seq(Bytes) /\ sent.last \in LastChunks
      /\ sent.trailers \in Seq(Trailers)
  BY <1>1 DEF ChunkInv, SizeInv, InLine, DataInv, TrailerInv, StopInv, ChunkTypeOK
<1>3. PICK chunks \in Seq(Chunks), data \in Seq(Bytes) :
        /\ body \o (data \o DataOf(chunks)) = DataOf(sent.chunks)
        /\ datasize = Len(data) /\ Left = data \o (CRLF \o EncodedFrom(chunks, sent))
  BY <1>1 DEF ChunkInv, SizeInv, InLine, DataInv, TrailerInv, StopInv
<1> DEFINE after == CRLF \o EncodedFrom(chunks, sent)
           given == SubSeq(piece, 1, n)
           more == SubSeq(data, n + 1, Len(data))
<1>4. after \in Seq(Bytes) /\ DataOf(chunks) \in Seq(Bytes)
  <2>1. EncodedFrom(chunks, sent) \in Seq(Bytes)
    BY <1>2, EncodedIs, Zenon DEF EncodedFrom
  <2> QED
    BY <2>1, LineEndIs, DataOfIs, Zenon
<1>5. n \in Nat /\ n <= Len(piece) /\ n <= Len(data)
  BY <1>2, <1>3, LenProperties
<1>6. piece \o coming = data \o after
  BY <1>3 DEF Left
<1> HIDE DEF after, n
<1>7. /\ given \in Seq(Bytes) /\ piece' \in Seq(Bytes) /\ more \in Seq(Bytes) /\ Len(more) = Len(data) - n
      /\ data = given \o more /\ SubSeq(piece, n + 1, Len(piece)) \o coming = more \o after
  <2>1. Cut(piece, coming, data, after, n)
    BY <1>2, <1>4, <1>5, <1>6, CutAt, Zenon
  <2> QED
    BY <1>1, <2>1, Zenon DEF Cut
<1> HIDE DEF given, more
<1>8. body' \o (more \o DataOf(chunks)) = DataOf(sent'.chunks) /\ body' \in Seq(Bytes)
  <2> DEFINE rest == DataOf(chunks)
             b == more \o rest
  <2>1. b \in Seq(Bytes) /\ body' = body \o given /\ body' \in Seq(Bytes)
    BY <1>1, <1>2, <1>4, <1>7, ConcatProperties DEF given
  <2>2. Regroups(given, more, rest)
    <3>1. rest \in Seq(Bytes)
      BY <1>4
    <3> HIDE DEF rest
    <3> QED
      BY <1>7, <3>1, Regroup, Zenon
  <2> HIDE DEF b
  <2>3. Regroups(body, given, b)
    BY <1>2, <1>7, <2>1, Regroup, Zenon
  <2> QED
    BY <1>1, <1>3, <1>7, <2>1, <2>2, <2>3 DEF b, Regroups
<1>9. Left' = more \o after /\ datasize' = Len(more) /\ datasize' \in Nat
  BY <1>1, <1>3, <1>7, LenProperties DEF Left
<1>10. ChunkTypeOK'
  BY <1>1, <1>7, <1>8, <1>9 DEF ChunkTypeOK
<1>11. DataInv'
  <2>1. headers' = << >> /\ after = CRLF \o EncodedFrom(chunks, sent')
    BY <1>1, <1>2 DEF after
  <2>2. CASE more = << >>
    <3>1. Left' = after /\ state' = "POSTCR"
      BY <1>1, <1>4, <1>9, <2>2, ConcatEmptySeq
    <3> QED
      BY <1>7, <1>8, <2>1, <2>2, <3>1, Zenon DEF DataInv
  <2>3. CASE more # << >>
    <3>1. state' = "DATA"
      BY <1>1, <1>7, <1>9, <2>3, EmptySeq
    <3> QED
      BY <1>7, <1>8, <1>9, <2>1, <2>3, <3>1, Zenon DEF DataInv
  <2> QED
    BY <2>2, <2>3
<1> QED
  BY <1>1, <1>10, <1>11 DEF ChunkInv

\* CHUNK_POSTCR: the CR after the data.
LEMMA PostCRInv == ASSUME ChunkInv, ReadPostCR PROVE ChunkInv'
<1>1. code = "OK" /\ piece # << >> /\ state = "POSTCR" /\ ChunkTypeOK /\ UNCHANGED <<sent, coming>>
  BY DEF ReadPostCR, In, ChunkInv
<1>2. headers = << >>
  BY <1>1 DEF ChunkInv, SizeInv, InLine, DataInv, TrailerInv, StopInv
<1>3. PICK chunks \in Seq(Chunks), data \in Seq(Bytes) :
        /\ body \o (data \o DataOf(chunks)) = DataOf(sent.chunks)
        /\ data = << >> /\ Left = CRLF \o EncodedFrom(chunks, sent)
  BY <1>1 DEF ChunkInv, SizeInv, InLine, DataInv, TrailerInv, StopInv
<1>4. EncodedFrom(chunks, sent) \in Seq(Bytes)
  <2>1. sent.last \in LastChunks /\ sent.trailers \in Seq(Trailers)
    BY <1>1 DEF ChunkTypeOK
  <2> QED
    BY <2>1, EncodedIs, Zenon DEF EncodedFrom
<1>5. Head(piece) = "CR" /\ Tail(Left) = <<"LF">> \o EncodedFrom(chunks, sent)
  <2>1. Head(Left) = "CR" /\ Tail(Left) = <<"LF">> \o EncodedFrom(chunks, sent)
    BY <1>3, <1>4, LineEndIs, Zenon
  <2> QED
    BY <1>1, <2>1, LookAt
<1>6. /\ piece' = Tail(piece) /\ state' = "POSTLF"
      /\ UNCHANGED <<hex, datasize, trailer, body, headers, code>>
  BY <1>5 DEF ReadPostCR, Consume
<1>7. Left' = Tail(Left) /\ piece' \in Seq(Bytes)
  BY <1>1, <1>6, Consumed
<1>8. ChunkTypeOK'
  BY <1>1, <1>6, <1>7 DEF ChunkTypeOK
<1>9. DataInv'
  <2>1. /\ headers' = << >> /\ Left' = <<"LF">> \o EncodedFrom(chunks, sent')
        /\ body' \o (data \o DataOf(chunks)) = DataOf(sent'.chunks)
    BY <1>1, <1>2, <1>3, <1>5, <1>6, <1>7
  <2> QED
    BY <1>3, <1>6, <2>1, Zenon DEF DataInv
<1> QED
  BY <1>1, <1>6, <1>8, <1>9 DEF ChunkInv

\* CHUNK_POSTLF: the LF, after which a chunk begins.
LEMMA PostLFInv == ASSUME ChunkInv, ReadPostLF PROVE ChunkInv'
<1>1. code = "OK" /\ piece # << >> /\ state = "POSTLF" /\ ChunkTypeOK /\ UNCHANGED <<sent, coming>>
  BY DEF ReadPostLF, In, ChunkInv
<1>2. headers = << >>
  BY <1>1 DEF ChunkInv, SizeInv, InLine, DataInv, TrailerInv, StopInv
<1>3. PICK chunks \in Seq(Chunks), data \in Seq(Bytes) :
        /\ body \o (data \o DataOf(chunks)) = DataOf(sent.chunks)
        /\ data = << >> /\ Left = <<"LF">> \o EncodedFrom(chunks, sent)
  BY <1>1 DEF ChunkInv, SizeInv, InLine, DataInv, TrailerInv, StopInv
<1>4. /\ EncodedFrom(chunks, sent) \in Seq(Bytes) /\ DataOf(chunks) \in Seq(Bytes) /\ body \in Seq(Bytes)
      /\ sent \in [chunks : Seq(Chunks), last : LastChunks, trailers : Seq(Trailers)]
  <2>1. /\ sent.last \in LastChunks /\ sent.trailers \in Seq(Trailers) /\ body \in Seq(Bytes)
        /\ sent \in [chunks : Seq(Chunks), last : LastChunks, trailers : Seq(Trailers)]
    BY <1>1 DEF ChunkTypeOK
  <2> QED
    BY <2>1, EncodedIs, DataOfIs, Zenon DEF EncodedFrom
<1>5. Head(piece) = "LF" /\ Tail(Left) = EncodedFrom(chunks, sent)
  <2>1. Head(Left) = "LF" /\ Tail(Left) = EncodedFrom(chunks, sent)
    BY <1>3, <1>4, LineEndIs, Zenon
  <2> QED
    BY <1>1, <2>1, LookAt
<1>6. /\ piece' = Tail(piece) /\ state' = "HEX" /\ hex' = << >>
      /\ UNCHANGED <<datasize, trailer, body, headers, code>>
  BY <1>5 DEF ReadPostLF, Consume
<1>7. Left' = EncodedFrom(chunks, sent) /\ piece' \in Seq(Bytes)
  BY <1>1, <1>5, <1>6, Consumed
<1>8. ChunkTypeOK'
  <2>1. << >> \in Seq(HexBytes)
    BY EmptySeq, Zenon
  <2> QED
    BY <1>1, <1>6, <1>7, <2>1 DEF ChunkTypeOK
<1>9. SizeInv'
  <2>1. body \o DataOf(chunks) = DataOf(sent.chunks)
    BY <1>3, <1>4, ConcatEmptySeq, Zenon
  <2>2. PICK chunk \in Chunks \cup LastChunks, follows \in Seq(Bytes) :
          /\ After(chunk, follows, body, sent)
          /\ EncodedFrom(chunks, sent) = chunk.size \o (chunk.extension \o (CRLF \o follows))
    BY <1>4, <2>1, ChunkBegins
  <2>3. chunk.size \in Seq(HexBytes) /\ chunk.size = << >> \o chunk.size
    BY ChunkIs, ConcatEmptySeq, Zenon
  <2>4. InLine(chunk, follows)'
    <3>1. Left' = chunk.size \o (chunk.extension \o (CRLF \o follows)) /\ chunk.size = hex' \o chunk.size
      BY <1>6, <1>7, <2>2, <2>3, Zenon
    <3> QED
      BY <1>6, <2>3, <3>1, Zenon DEF InLine
  <2>5. headers' = << >> /\ After(chunk, follows, body', sent')
    BY <1>1, <1>2, <1>6, <2>2
  <2> QED
    BY <2>4, <2>5, Zenon DEF SizeInv
<1> QED
  BY <1>1, <1>6, <1>8, <1>9 DEF ChunkInv

\* The end of the encoding, seen from its first byte.
LEMMA EndsBegin ==
  ASSUME NEW trailers \in Seq(Trailers)
  PROVE  /\ Head(EncodedTrailers(trailers)) = "CR" <=> trailers = << >>
         /\ trailers = << >> => Tail(EncodedTrailers(trailers)) = <<"LF", "x">>
         /\ trailers # << >> =>
              /\ Head(trailers) \in Trailers /\ Tail(trailers) \in Seq(Trailers)
              /\ Head(EncodedTrailers(trailers)) = "x"
              /\ Tail(EncodedTrailers(trailers)) =
                   Tail(Head(trailers)) \o (CRLF \o EncodedTrailers(Tail(trailers)))
<1>1. CASE trailers = << >>
  <2>1. EncodedTrailers(trailers) = <<"CR", "LF", "x">>
    BY <1>1, EncodedTrailersIs, Zenon
  <2>2. Head(<<"CR", "LF", "x">>) = "CR" /\ Tail(<<"CR", "LF", "x">>) = <<"LF", "x">>
    OBVIOUS
  <2> QED
    BY <1>1, <2>1, <2>2, Zenon
<1>2. CASE trailers # << >>
  <2> DEFINE t == Head(trailers)
             r == CRLF \o EncodedTrailers(Tail(trailers))
  <2>1. t \in Trailers /\ Tail(trailers) \in Seq(Trailers) /\ EncodedTrailers(trailers) = t \o r
    BY <1>2, EncodedTrailersIs, Zenon
  <2>2. r \in Seq(Bytes)
    BY <2>1, EncodedTrailersIs, LineEndIs, Zenon
  <2>3. t \in Seq(Bytes) /\ t # << >> /\ Head(t) = "x"
    BY <2>1, TrailerIs
  <2> HIDE DEF t, r
  <2>4. Head(t \o r) = "x" /\ Tail(t \o r) = Tail(t) \o r
    BY <2>2, <2>3, HeadOfConcat
  <2> QED
    BY <1>2, <2>1, <2>4 DEF t, r
<1> QED
  BY <1>1, <1>2

\* CHUNK_TRAILER: a byte of a trailer, the end of it, or of all of them.
LEMMA TrailerStepInv == ASSUME ChunkInv, ReadTrailer PROVE ChunkInv'
<1>1. /\ code = "OK" /\ piece # << >> /\ state = "TRAILER" /\ ChunkTypeOK
      /\ UNCHANGED <<sent, coming, hex, datasize, body, code>>
  BY DEF ReadTrailer, In, ChunkInv
<1>2. /\ body = DataOf(sent.chunks) /\ sent.trailers \in Seq(Trailers) /\ headers \in Seq(Trailers)
      /\ trailer \in Seq({"x"}) /\ piece \in Seq(Bytes)
  BY <1>1 DEF ChunkInv, SizeInv, InLine, DataInv, TrailerInv, StopInv, ChunkTypeOK
<1>3. PICK trailers \in Seq(Trailers) :
        \/ /\ trailer = << >> /\ headers \o trailers = sent.trailers
           /\ Left = EncodedTrailers(trailers)
        \/ /\ trailer # << >>
           /\ \E more \in Seq({"x"}) :
                /\ trailer \o more \in Trailers
                /\ headers \o (<<trailer \o more>> \o trailers) = sent.trailers
                /\ Left = more \o (CRLF \o EncodedTrailers(trailers))
  BY <1>1 DEF ChunkInv, SizeInv, InLine, DataInv, TrailerInv, StopInv
<1>4. Head(piece) = Head(Left)
  BY <1>1, LookAt
<1>5. piece' = Tail(piece) => Left' = Tail(Left) /\ piece' \in Seq(Bytes)
  BY <1>1, Consumed
<1>6. "x" # "CR" /\ "x" # "LF"
  OBVIOUS
<1>7. EncodedTrailers(trailers) \in Seq(Bytes)
  BY EncodedTrailersIs, Zenon
\* The line of the trailer ends.
<1>8. ASSUME NEW more \in Seq({"x"}), trailer # << >>, trailer \o more \in Trailers,
             headers \o (<<trailer \o more>> \o trailers) = sent.trailers,
             Left = more \o (CRLF \o EncodedTrailers(trailers))
      PROVE  ChunkInv'
  <2> DEFINE end == CRLF \o EncodedTrailers(trailers)
  <2>1. end \in Seq(Bytes) /\ Head(end) = "CR" /\ Tail(end) = <<"LF">> \o EncodedTrailers(trailers)
    BY <1>7, LineEndIs, Zenon
  <2>2. more \in Seq(Bytes)
    <3>1. {"x"} \subseteq Bytes
      BY BytesAre
    <3> QED
      BY <3>1, SeqMonotonic, Zenon
  <2>3. CASE more = << >>
    <3>1. Left = end
      BY <1>8, <2>1, <2>3, ConcatEmptySeq, Zenon
    <3>2. Head(piece) = "CR"
      BY <1>4, <2>1, <3>1, Zenon
    <3>3. /\ headers' = Append(headers, trailer) /\ trailer' = << >>
          /\ state' = "TRAILER_CR" /\ piece' = Tail(piece)
      BY <1>8, <3>2 DEF ReadTrailer, Consume
    <3>4. Left' = <<"LF">> \o EncodedTrailers(trailers) /\ piece' \in Seq(Bytes)
      BY <1>5, <2>1, <3>1, <3>3, Zenon
    <3>5. trailer \o more = trailer /\ trailer \in Trailers
      BY <1>2, <1>8, <2>3, ConcatEmptySeq, Zenon
    <3>6. headers' \in Seq(Trailers) /\ headers' \o trailers = sent.trailers
      <4>1. headers' = headers \o <<trailer>> /\ headers' \in Seq(Trailers) /\ <<trailer>> \in Seq(Trailers)
        BY <1>2, <3>3, <3>5
      <4>2. Regroups(headers, <<trailer>>, trailers)
        BY <1>2, <4>1, Regroup, Zenon
      <4> QED
        BY <1>8, <3>5, <4>1, <4>2, Zenon DEF Regroups
    <3>7. ChunkTypeOK'
      <4>1. << >> \in Seq({"x"})
        BY EmptySeq, Zenon
      <4> QED
        BY <1>1, <3>3, <3>4, <3>6, <4>1 DEF ChunkTypeOK
    <3>8. TrailerInv'
      <4>1. body' = DataOf(sent'.chunks) /\ headers' \o trailers = sent'.trailers
        BY <1>1, <1>2, <3>6
      <4> QED
        BY <3>3, <3>4, <4>1, Zenon DEF TrailerInv
    <3> QED
      BY <1>1, <3>7, <3>8 DEF ChunkInv
  <2>4. CASE more # << >>
    <3> HIDE DEF end
    <3>1. Head(more) = "x" /\ Tail(more) \in Seq({"x"})
      <4>1. Head(more) \in {"x"} /\ Tail(more) \in Seq({"x"})
        BY <2>4, HeadTailProperties, Zenon
      <4> QED
        BY <4>1
    <3>2. Head(Left) = "x" /\ Tail(Left) = Tail(more) \o end
      <4>1. Head(more \o end) = Head(more) /\ Tail(more \o end) = Tail(more) \o end
        BY <2>1, <2>2, <2>4, HeadOfConcat
      <4> QED
        BY <1>8, <3>1, <4>1 DEF end
    <3>3. /\ trailer' = Append(trailer, "x") /\ piece' = Tail(piece) /\ UNCHANGED <<headers, state>>
      BY <1>4, <3>2 DEF ReadTrailer, Consume
    <3>4. Left' = Tail(more) \o end /\ piece' \in Seq(Bytes)
      BY <1>5, <3>2, <3>3
    <3>5. trailer' \in Seq({"x"}) /\ trailer' \o Tail(more) = trailer \o more /\ trailer' # << >>
      <4>1. Append(trailer, Head(more)) \in Seq({"x"}) /\ trailer \o more = Append(trailer, Head(more)) \o Tail(more)
        BY <1>2, <2>4, MoveHead
      <4>2. Append(trailer, "x") # << >>
        <5>1. Len(Append(trailer, "x")) # 0 /\ Len(<< >>) = 0
          BY <1>2
        <5> QED
          BY <5>1, Zenon
      <4> QED
        BY <3>1, <3>3, <4>1, <4>2
    <3>6. ChunkTypeOK'
      BY <1>1, <3>3, <3>4, <3>5 DEF ChunkTypeOK
    <3>7. TrailerInv'
      <4>1. /\ body' = DataOf(sent'.chunks) /\ trailer' \o Tail(more) \in Trailers
            /\ headers' \o (<<trailer' \o Tail(more)>> \o trailers) = sent'.trailers /\ state' = "TRAILER"
        BY <1>1, <1>2, <1>8, <3>3, <3>5
      <4> QED
        BY <3>1, <3>4, <3>5, <4>1, Zenon DEF TrailerInv, end
    <3> QED
      BY <1>1, <3>6, <3>7 DEF ChunkInv
  <2> QED
    BY <2>3, <2>4
\* A line begins, or the trailers have ended.
<1>9. ASSUME trailer = << >>, headers \o trailers = sent.trailers, Left = EncodedTrailers(trailers)
      PROVE  ChunkInv'
  <2>1. CASE trailers = << >>
    <3>1. Head(piece) = "CR"
      BY <1>4, <1>9, <2>1, EndsBegin, Zenon
    <3>2. state' = "TRAILER_POSTCR" /\ UNCHANGED <<piece, trailer, headers>>
      BY <1>9, <3>1 DEF ReadTrailer
    <3>3. ChunkTypeOK'
      BY <1>1, <3>2 DEF ChunkTypeOK
    <3>4. Left' = EncodedTrailers(trailers)
      BY <1>1, <1>9, <3>2 DEF Left
    <3>5. TrailerInv'
      <4>1. /\ body' = DataOf(sent'.chunks) /\ headers' \o trailers = sent'.trailers /\ trailer' = << >>
            /\ state' \in {"TRAILER", "TRAILER_POSTCR"}
        BY <1>1, <1>2, <1>9, <3>2
      <4> QED
        BY <3>4, <4>1, Zenon DEF TrailerInv
    <3> QED
      BY <1>1, <3>3, <3>5 DEF ChunkInv
  <2>2. CASE trailers # << >>
    <3> DEFINE t == Head(trailers)
               others == Tail(trailers)
               more == Tail(t)
    <3>1. /\ t \in Trailers /\ others \in Seq(Trailers) /\ Head(Left) = "x"
          /\ Tail(Left) = more \o (CRLF \o EncodedTrailers(others))
      BY <1>9, <2>2, EndsBegin, Zenon
    <3>2. t \in Seq({"x"}) /\ t # << >> /\ Head(t) = "x" /\ more \in Seq({"x"})
      BY <3>1, TrailerIs, Zenon
    <3>3. trailers = <<t>> \o others
      BY <2>2
    <3> HIDE DEF t, others
    <3>4. /\ trailer' = Append(trailer, "x") /\ piece' = Tail(piece) /\ UNCHANGED <<headers, state>>
      BY <1>4, <3>1 DEF ReadTrailer, Consume
    <3>5. trailer' = <<"x">> /\ trailer' # << >> /\ trailer' \in Seq({"x"}) /\ trailer' \o more = t
      <4>1. trailer' = <<"x">>
        BY <1>9, <3>4
      <4>2. t = <<Head(t)>> \o Tail(t)
        BY <3>2
      <4> QED
        BY <3>2, <4>1, <4>2
    <3> HIDE DEF more
    <3>6. Left' = more \o (CRLF \o EncodedTrailers(others)) /\ piece' \in Seq(Bytes)
      BY <1>5, <3>1, <3>4
    <3>7. ChunkTypeOK'
      BY <1>1, <3>4, <3>5, <3>6 DEF ChunkTypeOK
    <3>8. TrailerInv'
      <4>1. /\ body' = DataOf(sent'.chunks) /\ trailer' \o more \in Trailers
            /\ headers' \o (<<trailer' \o more>> \o others) = sent'.trailers /\ state' = "TRAILER"
        BY <1>1, <1>2, <1>9, <3>1, <3>3, <3>4, <3>5
      <4> QED
        BY <3>1, <3>2, <3>5, <3>6, <4>1, Zenon DEF TrailerInv
    <3> QED
      BY <1>1, <3>7, <3>8 DEF ChunkInv
  <2> QED
    BY <2>1, <2>2
<1> QED
  BY <1>3, <1>8, <1>9, Zenon

\* CHUNK_TRAILER_CR: the LF of a trailer.
LEMMA TrailerCRInv == ASSUME ChunkInv, ReadTrailerCR PROVE ChunkInv'
<1>1. code = "OK" /\ piece # << >> /\ state = "TRAILER_CR" /\ ChunkTypeOK /\ UNCHANGED <<sent, coming>>
  BY DEF ReadTrailerCR, In, ChunkInv
<1>2. body = DataOf(sent.chunks) /\ trailer = << >>
  BY <1>1 DEF ChunkInv, SizeInv, InLine, DataInv, TrailerInv, StopInv
<1>3. PICK trailers \in Seq(Trailers) :
        headers \o trailers = sent.trailers /\ Left = <<"LF">> \o EncodedTrailers(trailers)
  BY <1>1 DEF ChunkInv, SizeInv, InLine, DataInv, TrailerInv, StopInv
<1>4. Head(piece) = "LF" /\ Tail(Left) = EncodedTrailers(trailers)
  <2>1. EncodedTrailers(trailers) \in Seq(Bytes)
    BY EncodedTrailersIs, Zenon
  <2>2. Head(Left) = "LF" /\ Tail(Left) = EncodedTrailers(trailers)
    BY <1>3, <2>1, LineEndIs, Zenon
  <2> QED
    BY <1>1, <2>2, LookAt
<1>5. /\ state' = "TRAILER_POSTCR" /\ piece' = Tail(piece)
      /\ UNCHANGED <<hex, datasize, trailer, body, headers, code>>
  BY <1>4 DEF ReadTrailerCR, Consume
<1>6. Left' = EncodedTrailers(trailers) /\ piece' \in Seq(Bytes)
  BY <1>1, <1>4, <1>5, Consumed
<1>7. ChunkTypeOK'
  BY <1>1, <1>5, <1>6 DEF ChunkTypeOK
<1>8. TrailerInv'
  <2>1. /\ body' = DataOf(sent'.chunks) /\ headers' \o trailers = sent'.trailers /\ trailer' = << >>
        /\ state' \in {"TRAILER", "TRAILER_POSTCR"}
    BY <1>1, <1>2, <1>3, <1>5
  <2> QED
    BY <1>6, <2>1, Zenon DEF TrailerInv
<1> QED
  BY <1>1, <1>5, <1>7, <1>8 DEF ChunkInv

\* CHUNK_TRAILER_POSTCR: the CR of the end, or another trailer.
LEMMA TrailerPostCRInv == ASSUME ChunkInv, ReadTrailerPostCR PROVE ChunkInv'
<1>1. /\ code = "OK" /\ piece # << >> /\ state = "TRAILER_POSTCR" /\ ChunkTypeOK
      /\ UNCHANGED <<sent, coming, hex, datasize, trailer, body, headers, code>>
  BY DEF ReadTrailerPostCR, In, ChunkInv
<1>2. body = DataOf(sent.chunks) /\ trailer = << >> /\ headers \in Seq(Trailers)
  BY <1>1 DEF ChunkInv, SizeInv, InLine, DataInv, TrailerInv, StopInv, ChunkTypeOK
<1>3. PICK trailers \in Seq(Trailers) :
        headers \o trailers = sent.trailers /\ Left = EncodedTrailers(trailers)
  BY <1>1 DEF ChunkInv, SizeInv, InLine, DataInv, TrailerInv, StopInv
<1>4. Head(piece) = Head(Left)
  BY <1>1, LookAt
<1>5. CASE trailers = << >>
  <2>1. Head(piece) = "CR" /\ Tail(Left) = <<"LF", "x">>
    BY <1>3, <1>4, <1>5, EndsBegin, Zenon
  <2>2. state' = "STOP" /\ piece' = Tail(piece)
    BY <2>1 DEF ReadTrailerPostCR, Consume
  <2>3. Left' = <<"LF", "x">> /\ piece' \in Seq(Bytes)
    BY <1>1, <2>1, <2>2, Consumed
  <2>4. headers = sent.trailers
    BY <1>2, <1>3, <1>5, ConcatEmptySeq, Zenon
  <2>5. ChunkTypeOK'
    BY <1>1, <2>2, <2>3 DEF ChunkTypeOK
  <2>6. StopInv'
    BY <1>1, <1>2, <2>2, <2>3, <2>4 DEF StopInv
  <2> QED
    BY <2>5, <2>6 DEF ChunkInv
<1>6. CASE trailers # << >>
  <2>1. Head(piece) # "CR"
    BY <1>3, <1>4, <1>6, EndsBegin, Zenon
  <2>2. state' = "TRAILER" /\ UNCHANGED piece
    BY <2>1 DEF ReadTrailerPostCR
  <2>3. ChunkTypeOK'
    BY <1>1, <2>2 DEF ChunkTypeOK
  <2>4. Left' = EncodedTrailers(trailers)
    BY <1>1, <1>3, <2>2 DEF Left
  <2>5. TrailerInv'
    <3>1. /\ body' = DataOf(sent'.chunks) /\ headers' \o trailers = sent'.trailers /\ trailer' = << >>
          /\ state' \in {"TRAILER", "TRAILER_POSTCR"}
      BY <1>1, <1>2, <1>3, <2>2
    <3> QED
      BY <2>4, <3>1, Zenon DEF TrailerInv
  <2> QED
    BY <1>1, <2>3, <2>5 DEF ChunkInv
<1> QED
  BY <1>5, <1>6

\* CHUNK_STOP: the last byte.
LEMMA StopStepInv == ASSUME ChunkInv, ReadStop PROVE ChunkInv'
<1>1. code = "OK" /\ piece # << >> /\ state = "STOP" /\ ChunkTypeOK /\ UNCHANGED <<sent, coming>>
  BY DEF ReadStop, In, ChunkInv
<1>2. body = DataOf(sent.chunks) /\ headers = sent.trailers /\ Left = <<"LF", "x">>
  BY <1>1 DEF ChunkInv, SizeInv, InLine, DataInv, TrailerInv, StopInv
<1>3. Head(piece) = "LF" /\ Tail(Left) = <<"x">>
  BY <1>1, <1>2, LookAt
<1>4. /\ code' = "STOP" /\ piece' = Tail(piece)
      /\ UNCHANGED <<state, hex, datasize, trailer, body, headers>>
  BY <1>3 DEF ReadStop, Consume
<1>5. Left' = <<"x">> /\ piece' \in Seq(Bytes)
  BY <1>1, <1>3, <1>4, Consumed
<1>6. ChunkTypeOK'
  BY <1>1, <1>4, <1>5 DEF ChunkTypeOK
<1>7. StopInv'
  BY <1>1, <1>2, <1>4, <1>5 DEF StopInv
<1> QED
  BY <1>6, <1>7 DEF ChunkInv

\* Every step keeps the invariant.
LEMMA ChunkInvKept == ChunkInv /\ [ChunkNext]_chunkVars => ChunkInv'
<1> SUFFICES ASSUME ChunkInv, [ChunkNext]_chunkVars PROVE ChunkInv'
  OBVIOUS
<1>1. CASE UNCHANGED chunkVars
  <2>1. /\ Left' = Left /\ coming' \in Seq(Bytes) /\ piece' \in Seq(Bytes)
        /\ UNCHANGED <<sent, state, hex, datasize, trailer, body, headers, code>>
    BY <1>1 DEF chunkVars, Left, ChunkInv, ChunkTypeOK
  <2> QED
    BY <2>1, SameLeft, Zenon
<1> QED
  BY <1>1, ReceiveInv, HexInv, PostHexInv, CRInv, DataStepInv, PostCRInv, PostLFInv,
     TrailerStepInv, TrailerCRInv, TrailerPostCRInv, StopStepInv, Zenon DEF ChunkNext

\* Two bytes at the end of a text make it at least two bytes long.
LEMMA TwoLeft ==
  ASSUME NEW s \in Seq(Bytes), NEW e, e \in Seq(Bytes), Len(e) >= 2
  PROVE  Len(s \o e) >= 2
<1>1. Len(s \o e) = Len(s) + Len(e) /\ Len(s) \in Nat /\ Len(e) \in Nat
  BY ConcatProperties, LenProperties
<1> QED
  BY <1>1

\* In every state of the invariant the client has what it should have.
LEMMA InvDecodes == ChunkInv => ChunksDecoded
<1> SUFFICES ASSUME ChunkInv PROVE ChunksDecoded
  OBVIOUS
<1> DEFINE given == DataOf(sent.chunks)
           Fits == /\ \E more \in Seq(Bytes) : body \o more = given
                   /\ \E more \in Seq(Trailers) : headers \o more = sent.trailers
                   /\ Len(Left) >= 2
<1>1. /\ body \in Seq(Bytes) /\ headers \in Seq(Trailers) /\ piece \in Seq(Bytes) /\ coming \in Seq(Bytes)
      /\ sent.chunks \in Seq(Chunks) /\ sent.last \in LastChunks /\ sent.trailers \in Seq(Trailers)
      /\ code \in {"OK", "STOP"}
  BY DEF ChunkInv, ChunkTypeOK
<1>2. Len(Left) = Len(piece) + Len(coming) /\ Len(piece) \in Nat /\ Len(coming) \in Nat
  BY <1>1, ConcatProperties, LenProperties DEF Left
<1>3. given \in Seq(Bytes)
  BY <1>1, DataOfIs, Zenon
<1>4. /\ << >> \in Seq(Trailers) /\ << >> \in Seq(Bytes)
      /\ headers = << >> => headers \o sent.trailers = sent.trailers
  BY <1>1, EmptySeq, ConcatEmptySeq, Zenon
<1>5. ASSUME NEW e \in Seq(Bytes)
      PROVE  Len(CRLF \o e) >= 2 /\ CRLF \o e \in Seq(Bytes)
             /\ (e # << >> => Len(<<"LF">> \o e) >= 2 /\ <<"LF">> \o e \in Seq(Bytes))
  <2>1. Len(CRLF) = 2 /\ Len(<<"LF">>) = 1 /\ CRLF \in Seq(Bytes) /\ <<"LF">> \in Seq(Bytes)
    BY LineEndIs DEF CRLF
  <2>2. Len(CRLF \o e) = 2 + Len(e) /\ Len(<<"LF">> \o e) = 1 + Len(e) /\ Len(e) \in Nat
    <3>1. Len(CRLF \o e) = Len(CRLF) + Len(e)
      BY <2>1, ConcatProperties, Zenon
    <3>2. Len(<<"LF">> \o e) = Len(<<"LF">>) + Len(e)
      BY <2>1, ConcatProperties, Zenon
    <3> QED
      BY <2>1, <3>1, <3>2, LenProperties
  <2>3. CRLF \o e \in Seq(Bytes) /\ <<"LF">> \o e \in Seq(Bytes)
    BY LineEndIs, Zenon
  <2>4. e # << >> => Len(e) \in Nat \ {0}
    BY EmptySeq, Zenon
  <2> QED
    BY <2>2, <2>3, <2>4
<1>6. ASSUME NEW trailers \in Seq(Trailers)
      PROVE  EncodedTrailers(trailers) \in Seq(Bytes) /\ Len(EncodedTrailers(trailers)) >= 2
             /\ EncodedTrailers(trailers) # << >>
  <2>1. EncodedTrailers(trailers) \in Seq(Bytes)
    BY EncodedTrailersIs, Zenon
  <2>2. CASE trailers = << >>
    <3>1. EncodedTrailers(trailers) = <<"CR", "LF", "x">>
      BY <2>2, EncodedTrailersIs, Zenon
    <3> QED
      BY <2>1, <3>1
  <2>3. CASE trailers # << >>
    <3> DEFINE t == Head(trailers)
               e == CRLF \o EncodedTrailers(Tail(trailers))
    <3>1. /\ t \in Trailers /\ Tail(trailers) \in Seq(Trailers) /\ EncodedTrailers(trailers) = t \o e
      BY <2>3, EncodedTrailersIs, Zenon
    <3>2. t \in Seq(Bytes) /\ EncodedTrailers(Tail(trailers)) \in Seq(Bytes)
      BY <3>1, TrailerIs, EncodedTrailersIs, Zenon
    <3>3. e \in Seq(Bytes) /\ Len(e) >= 2
      BY <1>5, <3>2, Zenon
    <3> HIDE DEF t, e
    <3>4. Len(t \o e) >= 2
      BY <3>2, <3>3, TwoLeft
    <3> QED
      BY <2>1, <3>1, <3>4, EmptySeq
  <2> QED
    BY <2>2, <2>3
<1>7. ASSUME NEW chunks \in Seq(Chunks)
      PROVE  EncodedFrom(chunks, sent) \in Seq(Bytes) /\ EncodedFrom(chunks, sent) # << >>
  <2>1. EncodedFrom(chunks, sent) \in Seq(Bytes)
    BY <1>1, EncodedIs, Zenon DEF EncodedFrom
  <2>2. PICK chunk \in Chunks \cup LastChunks, follows \in Seq(Bytes) :
          EncodedFrom(chunks, sent) = chunk.size \o (chunk.extension \o (CRLF \o follows))
    <3> DEFINE next == Head(chunks).data \o (CRLF \o EncodedFrom(Tail(chunks), sent))
    <3>1. CASE chunks = << >>
      <4> DEFINE ends == EncodedTrailers(sent.trailers)
                 last == sent.last
      <4>1. ends \in Seq(Bytes) /\ last \in Chunks \cup LastChunks
        BY <1>1, <1>6, Zenon
      <4>2. EncodedFrom(chunks, sent) = last.size \o (last.extension \o (CRLF \o ends))
        BY <1>1, <3>1, EncodedIs, Zenon DEF EncodedFrom
      <4> HIDE DEF ends, last
      <4> QED
        BY <4>1, <4>2, Zenon
    <3>2. CASE chunks # << >>
      <4>1. Head(chunks) \in Chunks /\ Tail(chunks) \in Seq(Chunks)
        BY <3>2, HeadTailProperties, Zenon
      <4>2. EncodedFrom(Tail(chunks), sent) \in Seq(Bytes)
        BY <1>1, <4>1, EncodedIs, Zenon DEF EncodedFrom
      <4>3. next \in Seq(Bytes)
        BY <1>5, <4>1, <4>2, ChunkIs, ConcatProperties, Zenon
      <4>4. EncodedFrom(chunks, sent) =
              Head(chunks).size \o (Head(chunks).extension \o (CRLF \o next))
        BY <1>1, <3>2, EncodedIs, Zenon DEF EncodedFrom
      <4> HIDE DEF next
      <4> QED
        BY <4>1, <4>3, <4>4, Zenon
    <3> QED
      BY <3>1, <3>2
  <2> DEFINE e == chunk.extension \o (CRLF \o follows)
             s == chunk.size
  <2>3. s \in Seq(Bytes) /\ s # << >> /\ e \in Seq(Bytes)
    BY <1>5, ChunkIs, ConcatProperties, Zenon
  <2> HIDE DEF e, s
  <2>4. s \o e # << >>
    BY <2>3, HeadOfConcat
  <2> QED
    BY <2>1, <2>2, <2>4 DEF e, s
<1>8. ASSUME SizeInv PROVE Fits
  <2>1. PICK chunk \in Chunks \cup LastChunks, follows \in Seq(Bytes) :
          After(chunk, follows, body, sent) /\ InLine(chunk, follows)
    BY <1>8, Zenon DEF SizeInv
  <2>2. \E more \in Seq(Bytes) : body \o more = given
    <3>1. CASE chunk \in Chunks /\ \E chunks \in Seq(Chunks) :
                 body \o (chunk.data \o DataOf(chunks)) = DataOf(sent.chunks)
      <4>1. PICK chunks \in Seq(Chunks) : body \o (chunk.data \o DataOf(chunks)) = DataOf(sent.chunks)
        BY <3>1, Zenon
      <4>2. chunk.data \o DataOf(chunks) \in Seq(Bytes)
        BY ChunkIs, DataOfIs, ConcatProperties, Zenon
      <4> QED
        BY <4>1, <4>2, Zenon
    <3>2. CASE body = DataOf(sent.chunks)
      BY <1>1, <1>4, <3>2, ConcatEmptySeq, Zenon
    <3> QED
      BY <2>1, <3>1, <3>2, Zenon DEF After
  <2>3. Len(Left) >= 2
    <3> DEFINE end == CRLF \o follows
               e1 == chunk.extension \o end
               e2 == <<"LF">> \o follows
    <3>1. end \in Seq(Bytes) /\ Len(end) >= 2 /\ chunk.extension \in Seq(Bytes)
      BY <1>5, ChunkIs, Zenon
    <3>2. CASE state = "HEX" /\ \E digits \in Seq(HexBytes) : Left = digits \o e1
      <4>1. PICK digits \in Seq(HexBytes) : Left = digits \o e1
        BY <3>2, Zenon
      <4>2. digits \in Seq(Bytes)
        BY BytesAre, SeqMonotonic, Zenon
      <4> HIDE DEF end
      <4>3. e1 \in Seq(Bytes) /\ Len(e1) >= 2
        BY <3>1, ConcatProperties, TwoLeft
      <4> HIDE DEF e1
      <4> QED
        BY <4>1, <4>2, <4>3, TwoLeft
    <3>3. CASE state = "POSTHEX" /\ \E extension \in Seq({"x", "CR"}) : Left = extension \o end
      <4>1. PICK extension \in Seq({"x", "CR"}) : Left = extension \o end
        BY <3>3, Zenon
      <4>2. extension \in Seq(Bytes)
        <5>1. {"x", "CR"} \subseteq Bytes
          BY BytesAre
        <5> QED
          BY <5>1, SeqMonotonic, Zenon
      <4> HIDE DEF end
      <4> QED
        BY <3>1, <4>1, <4>2, TwoLeft
    <3>4. CASE state = "CR" /\ \E extension \in Seq({"x", "CR"}) : Left = extension \o e2
      <4>1. PICK extension \in Seq({"x", "CR"}) : Left = extension \o e2
        BY <3>4, Zenon
      <4>2. extension \in Seq(Bytes)
        <5>1. {"x", "CR"} \subseteq Bytes
          BY BytesAre
        <5> QED
          BY <5>1, SeqMonotonic, Zenon
      <4>3. follows # << >>
        <5>1. CASE chunk \in Chunks /\ \E chunks \in Seq(Chunks) :
                     follows = chunk.data \o (CRLF \o EncodedFrom(chunks, sent))
          <6>1. PICK chunks \in Seq(Chunks) : follows = chunk.data \o (CRLF \o EncodedFrom(chunks, sent))
            BY <5>1, Zenon
          <6> DEFINE d == chunk.data
                     r == CRLF \o EncodedFrom(chunks, sent)
          <6>2. d \in Seq(Bytes) /\ r \in Seq(Bytes) /\ d # << >>
            BY <1>5, <1>7, <5>1, ChunkIs, Zenon
          <6> HIDE DEF d, r
          <6>3. d \o r # << >>
            BY <6>2, HeadOfConcat
          <6> QED
            BY <6>1, <6>3 DEF d, r
        <5>2. CASE follows = EncodedTrailers(sent.trailers)
          BY <1>1, <1>6, <5>2, Zenon
        <5> QED
          BY <2>1, <5>1, <5>2, Zenon DEF After
      <4>4. e2 \in Seq(Bytes) /\ Len(e2) >= 2
        BY <1>5, <4>3, Zenon
      <4> HIDE DEF e2
      <4> QED
        BY <4>1, <4>2, <4>4, TwoLeft
    <3> QED
      BY <2>1, <3>2, <3>3, <3>4, Zenon DEF InLine
  <2>4. headers = << >>
    BY <1>8 DEF SizeInv
  <2> QED
    BY <1>1, <1>4, <2>2, <2>3, <2>4, Zenon
<1>9. ASSUME DataInv PROVE Fits
  <2>1. PICK chunks \in Seq(Chunks), data \in Seq(Bytes) :
          /\ body \o (data \o DataOf(chunks)) = DataOf(sent.chunks)
          /\ \/ Left = data \o (CRLF \o EncodedFrom(chunks, sent))
             \/ Left = CRLF \o EncodedFrom(chunks, sent)
             \/ Left = <<"LF">> \o EncodedFrom(chunks, sent)
    BY <1>9 DEF DataInv
  <2>2. data \o DataOf(chunks) \in Seq(Bytes)
    BY DataOfIs, ConcatProperties, Zenon
  <2> DEFINE e == EncodedFrom(chunks, sent)
             end == CRLF \o e
  <2>3. end \in Seq(Bytes) /\ Len(end) >= 2 /\ Len(<<"LF">> \o e) >= 2
    BY <1>5, <1>7, Zenon
  <2>4. Len(data \o end) >= 2
    <3> HIDE DEF end
    <3> QED
      BY <2>3, TwoLeft
  <2>5. Len(Left) >= 2
    BY <2>1, <2>3, <2>4, Zenon
  <2>6. headers = << >>
    BY <1>9 DEF DataInv
  <2> QED
    BY <1>1, <1>4, <2>1, <2>2, <2>5, <2>6, Zenon
<1>10. ASSUME TrailerInv PROVE Fits
  <2>1. body \o << >> = given
    BY <1>1, <1>10, ConcatEmptySeq, Zenon DEF TrailerInv
  <2>2. PICK trailers \in Seq(Trailers) :
          \/ headers \o trailers = sent.trailers /\ Left = EncodedTrailers(trailers)
          \/ \E more \in Seq({"x"}) :
               /\ trailer \o more \in Trailers
               /\ headers \o (<<trailer \o more>> \o trailers) = sent.trailers
               /\ Left = more \o (CRLF \o EncodedTrailers(trailers))
          \/ headers \o trailers = sent.trailers /\ Left = <<"LF">> \o EncodedTrailers(trailers)
    BY <1>10 DEF TrailerInv
  <2> DEFINE e == EncodedTrailers(trailers)
             end == CRLF \o e
  <2>3. Len(e) >= 2 /\ end \in Seq(Bytes) /\ Len(end) >= 2 /\ Len(<<"LF">> \o e) >= 2
    BY <1>5, <1>6, Zenon
  <2>4. CASE headers \o trailers = sent.trailers /\ (Left = e \/ Left = <<"LF">> \o e)
    <3>1. Len(Left) >= 2
      BY <2>3, <2>4, Zenon
    <3> QED
      BY <1>4, <2>1, <2>4, <3>1, Zenon
  <2>5. ASSUME NEW more \in Seq({"x"}), trailer \o more \in Trailers,
               headers \o (<<trailer \o more>> \o trailers) = sent.trailers, Left = more \o end
        PROVE  Fits
    <3>1. <<trailer \o more>> \o trailers \in Seq(Trailers)
      <4> DEFINE t == trailer \o more
      <4>1. t \in Trailers
        BY <2>5
      <4> HIDE DEF t
      <4>2. <<t>> \o trailers \in Seq(Trailers)
        BY <4>1
      <4> QED
        BY <4>2 DEF t
    <3>2. more \in Seq(Bytes)
      <4>1. {"x"} \subseteq Bytes
        BY BytesAre
      <4> QED
        BY <4>1, SeqMonotonic, Zenon
    <3>3. Len(more \o end) >= 2
      <4> HIDE DEF end
      <4> QED
        BY <2>3, <3>2, TwoLeft
    <3> QED
      BY <1>4, <2>1, <2>5, <3>1, <3>3, Zenon
  <2> QED
    BY <2>2, <2>4, <2>5, Zenon
<1>11. ASSUME code = "OK", Fits PROVE ChunksDecoded
  <2>1. IsPrefix(body, given) /\ IsPrefix(headers, sent.trailers)
    BY <1>1, <1>11, IsPrefixOf
  <2>2. ~ (Len(coming) + Len(piece) < 2)
    BY <1>2, <1>11
  <2> QED
    BY <1>11, <2>1, <2>2 DEF ChunksDecoded
<1>12. ASSUME StopInv PROVE ChunksDecoded
  <2>1. IsPrefix(body, given) /\ IsPrefix(headers, sent.trailers)
    <3>1. body \o << >> = given /\ headers \o << >> = sent.trailers
      BY <1>1, <1>12, ConcatEmptySeq, Zenon DEF StopInv
    <3> QED
      BY <1>1, <1>4, <3>1, IsPrefixOf
  <2>2. Len(Left) = IF code = "STOP" THEN 1 ELSE 2
    BY <1>12 DEF StopInv
  <2>3. code = "STOP" <=> Len(coming) + Len(piece) < 2
    <3>1. CASE code = "STOP"
      BY <1>2, <2>2, <3>1
    <3>2. CASE code # "STOP"
      BY <1>2, <2>2, <3>2
    <3> QED
      BY <3>1, <3>2
  <2> QED
    BY <1>1, <1>12, <2>1, <2>3 DEF ChunksDecoded, StopInv, Left
<1> QED
  BY <1>8, <1>9, <1>10, <1>11, <1>12 DEF ChunkInv

\* Curl_httpchunk_read gives the client what the server sent, for chunks of any size, any
\* extensions, data and trailers, and however the network cuts their bytes.
THEOREM DecodesChunks == ChunkSpec => []ChunksDecoded
<1>1. ChunkSpec => []ChunkInv
  BY ChunkStart, ChunkInvKept, PTL DEF ChunkSpec
<1> QED
  BY <1>1, InvDecodes, PTL
=============================================================================
