----------------------------- MODULE HttpChunks -----------------------------
(***************************************************************************)
(* http_chunks.c of libcurl: a chunked body arrives in pieces the network  *)
(* cuts, and Curl_httpchunk_read takes each of them through its states.    *)
(* Each case of its switch is an action.                                   *)
(***************************************************************************)
EXTENDS Integers, SequencesExt

CONSTANTS Chunks,        \* the chunks servers send
          LastChunks,    \* what they end a body with
          Trailers,      \* the header lines after that, without CR LF
          MaxChunks,     \* chunks of a body (a bound)
          MaxTrailers,   \* and trailers (a bound)
          MaxNumSize     \* MAXNUM_SIZE, 16 in the code

HexDigits == <<{"0"}, {"1"}, {"2"}, {"3"}, {"4"}, {"5"}, {"6"}, {"7"}, {"8"}, {"9"},
               {"A", "a"}, {"B", "b"}, {"C", "c"}, {"D", "d"}, {"E", "e"}, {"F", "f"}>>

HexBytes == UNION {HexDigits[n] : n \in 1 .. 16}

IsHex(byte) == byte \in HexBytes

\* Hexadecimal digits, the two ends of a line, and any other byte.
Bytes == HexBytes \cup {"CR", "LF", "x"}

HexValue(byte) == (CHOOSE n \in 1 .. 16 : byte \in HexDigits[n]) - 1

\* strtoul.
Value(digits) == FoldLeft(LAMBDA n, d : 16 * n + HexValue(d), 0, digits)

\* A chunk is its size, as it is written, what may stand between that and the end of
\* the line, and its data.
ASSUME ChunksAssumption ==
  \A chunk \in Chunks \cup LastChunks :
    /\ chunk \in [size : Seq(HexBytes), extension : Seq({"x", "CR"}), data : Seq(Bytes)]
    /\ Len(chunk.size) \in 1 .. MaxNumSize /\ Value(chunk.size) = Len(chunk.data)
    /\ chunk \in Chunks => chunk.data # << >>
    /\ chunk \in LastChunks => chunk.data = << >>
ASSUME TrailersAssumption == Trailers \subseteq Seq({"x"}) \ {<< >>}
ASSUME MaxChunksAssumption ==
  MaxChunks \in Nat /\ MaxTrailers \in Nat /\ MaxNumSize \in Nat \ {0}

VARIABLES sent,       \* what the server sent: its chunks, the last of them, and its trailers
          coming,     \* the bytes of it that did not arrive yet
          piece,      \* datap and length: what is left of the bytes that arrived
          state,      \* ch->state
          hex,        \* ch->hexbuffer, as far as ch->hexindex
          datasize,   \* ch->datasize
          trailer,    \* conn->trailer, as far as conn->trlPos
          body,       \* what the client was given as the body
          headers,    \* and as header lines
          code        \* what the calls returned: "OK", "STOP", or an error

chunkVars == <<sent, coming, piece, state, hex, datasize, trailer, body, headers, code>>
-----------------------------------------------------------------------------
(* The server. *)

CRLF == <<"CR", "LF">>

SizeLine(chunk) == chunk.size \o chunk.extension \o CRLF

EncodedChunk(chunk) == SizeLine(chunk) \o chunk.data \o CRLF

SeqsUpTo(set, n) == UNION {[1 .. k -> set] : k \in 0 .. n}

\* The end of the encoding, and the first byte of whatever comes after it.
EncodedTrailers(trailers) ==
  FlattenSeq([k \in DOMAIN trailers |-> trailers[k] \o CRLF]) \o CRLF \o <<"x">>

Encoded(chunks, last, trailers) ==
  FlattenSeq([k \in DOMAIN chunks |-> EncodedChunk(chunks[k])])
    \o SizeLine(last) \o EncodedTrailers(trailers)

ChunkInit ==
  /\ sent \in [chunks : SeqsUpTo(Chunks, MaxChunks), last : LastChunks,
               trailers : SeqsUpTo(Trailers, MaxTrailers)]
  /\ coming = Encoded(sent.chunks, sent.last, sent.trailers)
  /\ piece = << >> /\ state = "HEX" /\ hex = << >> /\ datasize = 0
  /\ trailer = << >> /\ body = << >> /\ headers = << >> /\ code = "OK"
-----------------------------------------------------------------------------
(* Curl_httpchunk_read. *)

\* The next call, with some more bytes.
Receive ==
  /\ code = "OK" /\ piece = << >> /\ coming # << >>
  /\ \E n \in 1 .. Len(coming) :
       /\ piece' = SubSeq(coming, 1, n)
       /\ coming' = SubSeq(coming, n + 1, Len(coming))
  /\ UNCHANGED <<sent, state, hex, datasize, trailer, body, headers, code>>

\* A round of the loop in one of the states.
In(s) == code = "OK" /\ piece # << >> /\ state = s /\ UNCHANGED <<sent, coming>>

Consume == piece' = Tail(piece)

Fail(error) == code' = error /\ UNCHANGED <<piece, state, hex, datasize, trailer, body, headers>>

ReadHex ==
  /\ In("HEX")
  /\ IF IsHex(Head(piece))
     THEN IF Len(hex) < MaxNumSize
          THEN /\ hex' = Append(hex, Head(piece)) /\ Consume
               /\ UNCHANGED <<state, datasize, trailer, body, headers, code>>
          ELSE Fail("TOO_LONG_HEX")
     ELSE IF hex = << >> THEN Fail("ILLEGAL_HEX")
     ELSE /\ datasize' = Value(hex) /\ state' = "POSTHEX"
          /\ UNCHANGED <<piece, hex, trailer, body, headers, code>>

\* Extensions are read over.
ReadPostHex ==
  /\ In("POSTHEX")
  /\ Consume
  /\ state' = IF Head(piece) = "CR" THEN "CR" ELSE state
  /\ UNCHANGED <<hex, datasize, trailer, body, headers, code>>

\* After "a fake CR", in an extension, the LF is still waited for.
ReadCR ==
  /\ In("CR")
  /\ Consume
  /\ state' = CASE Head(piece) = "LF" /\ datasize = 0 -> "TRAILER"
                [] Head(piece) = "LF" /\ datasize # 0 -> "DATA"
                [] OTHER -> "CR"
  /\ trailer' = IF state' = "TRAILER" THEN << >> ELSE trailer
  /\ UNCHANGED <<hex, datasize, body, headers, code>>

\* Mutant: what is left of the chunk is not counted down.
ReadDataOfWholeSize ==
  /\ In("DATA")
  /\ LET n == IF datasize >= Len(piece) THEN Len(piece) ELSE datasize
     IN /\ body' = body \o SubSeq(piece, 1, n)
        /\ piece' = SubSeq(piece, n + 1, Len(piece))
        /\ state' = IF n = datasize THEN "POSTCR" ELSE state
  /\ UNCHANGED <<hex, datasize, trailer, headers, code>>

\* As much of the chunk as has arrived.
ReadData ==
  /\ In("DATA")
  /\ LET n == IF datasize >= Len(piece) THEN Len(piece) ELSE datasize
     IN /\ body' = body \o SubSeq(piece, 1, n)
        /\ piece' = SubSeq(piece, n + 1, Len(piece))
        /\ datasize' = datasize - n
        /\ state' = IF datasize' = 0 THEN "POSTCR" ELSE state
  /\ UNCHANGED <<hex, trailer, headers, code>>

ReadPostCR ==
  /\ In("POSTCR")
  /\ IF Head(piece) = "CR"
     THEN /\ state' = "POSTLF" /\ Consume
          /\ UNCHANGED <<hex, datasize, trailer, body, headers, code>>
     ELSE Fail("BAD_CHUNK")

\* Curl_httpchunk_init, for the next chunk.
ReadPostLF ==
  /\ In("POSTLF")
  /\ IF Head(piece) = "LF"
     THEN /\ hex' = << >> /\ state' = "HEX" /\ Consume
          /\ UNCHANGED <<datasize, trailer, body, headers, code>>
     ELSE Fail("BAD_CHUNK")

\* At a CR a line of the trailers ends, or, where a line would begin, all of them.
ReadTrailer ==
  /\ In("TRAILER")
  /\ CASE Head(piece) = "CR" /\ trailer # << >> ->
            /\ headers' = Append(headers, trailer) /\ trailer' = << >>
            /\ state' = "TRAILER_CR" /\ Consume
       [] Head(piece) = "CR" /\ trailer = << >> ->
            /\ state' = "TRAILER_POSTCR"
            /\ UNCHANGED <<piece, trailer, headers>>
       [] OTHER ->
            /\ trailer' = Append(trailer, Head(piece)) /\ Consume
            /\ UNCHANGED <<headers, state>>
  /\ UNCHANGED <<hex, datasize, body, code>>

ReadTrailerCR ==
  /\ In("TRAILER_CR")
  /\ IF Head(piece) = "LF"
     THEN /\ state' = "TRAILER_POSTCR" /\ Consume
          /\ UNCHANGED <<hex, datasize, trailer, body, headers, code>>
     ELSE Fail("BAD_CHUNK")

ReadTrailerPostCR ==
  /\ In("TRAILER_POSTCR")
  /\ IF Head(piece) = "CR" THEN state' = "STOP" /\ Consume
                           ELSE state' = "TRAILER" /\ UNCHANGED piece
  /\ UNCHANGED <<hex, datasize, trailer, body, headers, code>>

\* dataleft is what remains of piece.
ReadStop ==
  /\ In("STOP")
  /\ IF Head(piece) = "LF"
     THEN /\ code' = "STOP" /\ Consume
          /\ UNCHANGED <<state, hex, datasize, trailer, body, headers>>
     ELSE Fail("BAD_CHUNK")

ChunkNext ==
  \/ Receive
  \/ ReadHex \/ ReadPostHex \/ ReadCR \/ ReadData \/ ReadPostCR \/ ReadPostLF
  \/ ReadTrailer \/ ReadTrailerCR \/ ReadTrailerPostCR \/ ReadStop

ChunkSpec == ChunkInit /\ [][ChunkNext]_chunkVars
-----------------------------------------------------------------------------
(* Property. *)

DataOf(chunks) == FlattenSeq([k \in DOMAIN chunks |-> chunks[k].data])

\* However the network cuts the bytes of a body, in a size, between CR and LF or in a
\* trailer, and whatever bytes its data holds: the client gets the data and the
\* trailers the server sent, in order and no byte of the framing, and the end is seen
\* at the last byte of the encoding and nowhere else.
ChunksDecoded ==
  /\ IsPrefix(body, DataOf(sent.chunks)) /\ IsPrefix(headers, sent.trailers)
  /\ code \in {"OK", "STOP"}
  /\ code = "STOP" <=> Len(coming) + Len(piece) < 2
  /\ code = "STOP" => /\ body = DataOf(sent.chunks) /\ headers = sent.trailers
                      /\ piece \o coming = <<"x">>
=============================================================================
