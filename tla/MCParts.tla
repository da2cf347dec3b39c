------------------------------ MODULE MCParts ------------------------------
(***************************************************************************)
(* Small instances, for TLC, of the parts a report goes through one after  *)
(* the other and that share no state: url_encode, the transfers, the       *)
(* cookies and the chunks of libcurl, convert_to_utf8, CSVReader.  In a    *)
(* behaviour one of them works and the others keep still.                  *)
(***************************************************************************)
EXTENDS UrlCode, CurlTransfer, CurlCookies, HttpChunks, ConvertUtf, CsvReader

VARIABLE part

PartsInit ==
  /\ part \in {"url", "transfer", "cookies", "chunks", "utf", "csv"}
  /\ TransferInit
  /\ CookieInit
  /\ part # "url" => email = << >> /\ password = << >>
  /\ UrlInit
  /\ part # "chunks" => sent = [chunks |-> << >>, last |-> CHOOSE chunk \in LastChunks : TRUE,
                                trailers |-> << >>]
  /\ ChunkInit
  /\ part # "utf" => report = << >>
  /\ UtfInit
  /\ part # "csv" => csvTable = << >> /\ csvFile = << >>
  /\ CsvInit

PartsNext ==
  /\ UNCHANGED part
  /\ \/ part = "url" /\ UrlNext
     \/ part # "url" /\ UNCHANGED urlVars
  /\ \/ part = "transfer" /\ TransferNext
     \/ part # "transfer" /\ UNCHANGED transferVars
  /\ \/ part = "cookies" /\ CookieNext
     \/ part # "cookies" /\ UNCHANGED cookieVars
  /\ \/ part = "chunks" /\ ChunkNext
     \/ part # "chunks" /\ UNCHANGED chunkVars
  /\ \/ part = "utf" /\ UtfNext
     \/ part # "utf" /\ UNCHANGED utfVars
  /\ \/ part = "csv" /\ CsvNext
     \/ part # "csv" /\ UNCHANGED csvVars

PartsSpec ==
  PartsInit /\ [][PartsNext]_<<part, urlVars, transferVars, cookieVars, chunkVars, utfVars, csvVars>>
-----------------------------------------------------------------------------
\* Two names, of which one is the beginning of the other: cut within it, the longer one
\* counts as the shorter.
SomeNames == {"SID", "S"}

SomeCuts == [name \in SomeNames |-> IF name = "SID" THEN {"S"} ELSE {}]

\* Of the longer name there are cookies of two paths that become one in the file; values
\* are plain, blank, with a TAB, too long.
SomeServed ==
  {[id |-> <<"SID", "/">>, value |-> "v", live |-> TRUE],
   [id |-> <<"SID", "">>, value |-> "long", live |-> TRUE],
   [id |-> <<"S", "/">>, value |-> "w", live |-> TRUE],
   [id |-> <<"S", "/">>, value |-> "", live |-> TRUE],
   [id |-> <<"S", "/">>, value |-> "tabbed", live |-> TRUE]}

\* Sizes of one and of two digits, extensions with a CR in them, and data with the
\* bytes of the framing.
SomeChunks ==
  {[size |-> <<"1">>, extension |-> <<"CR", "x">>, data |-> <<"CR">>],
   [size |-> <<"0", "3">>, extension |-> << >>, data |-> <<"CR", "LF", "0">>],
   [size |-> <<"b">>, extension |-> <<"x">>,
    data |-> <<"x", "LF", "1", "CR", "LF", "x", "CR", "LF", "0", "CR", "LF">>]}

SomeLastChunks ==
  {[size |-> <<"0">>, extension |-> << >>, data |-> << >>],
   [size |-> <<"0", "0">>, extension |-> <<"CR", "x">>, data |-> << >>]}

SomeTrailers == {<<"x">>, <<"x", "x">>}

\* A field of every kind: none, plain, a separator, an end of a line, a quote, and
\* a quote beside another.
SomeFields == {<< >>, <<"x">>, <<",">>, <<"n">>, <<"q">>, <<"q", ",">>, <<"q", "n">>}

\* Lines of any two characters, and quotes further on in a line.
SomeLines == SeqsTo({",", "q", "x"}, 2)
             \cup {<<",", "x", "x">> \o end : end \in SeqsTo({"q", "x"}, 3)}
=============================================================================
