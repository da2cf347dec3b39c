----------------------------- MODULE ConvertUtf -----------------------------
(***************************************************************************)
(* convert_to_utf8 of curl.c, which converts a report block by block, with *)
(* ConvertUTF16toUTF8 of ConvertUTF.c, called twice for a block: once to   *)
(* count the bytes, up to one unit past the block, and once to write them. *)
(***************************************************************************)
EXTENDS Naturals, SequencesExt

CONSTANTS Units,      \* 16-bit units a report, and memory, can hold
          BSIZ,       \* units of a block, 32768 in the code
          MaxUnits    \* units of a report (a bound)

ASSUME UnitsAssumption == \A unit \in Units : unit \in Nat /\ unit < 65536
ASSUME BSIZAssumption == BSIZ \in Nat \ {0}
ASSUME MaxUnitsAssumption == MaxUnits \in Nat

VARIABLES report,    \* the units of the file, whole
          rest,      \* what fread has not read of them
          buffer,    \* source_start, as far as it was written
          beyond,    \* the unit past the last block that the first call read
          written,   \* the bytes of the converted file
          status     \* "converted" (0), "failed" (1), or "reading"

utfVars == <<report, rest, buffer, beyond, written, status>>

\* Mutant: the range of low surrogates is one too long.
IsLowToE000(unit) == unit \in 56320 .. 57344

IsHigh(unit) == unit \in 55296 .. 56319    \* D800 to DBFF
IsLow(unit) == unit \in 56320 .. 57343     \* DC00 to DFFF

\* The code point of a pair: halfShift is 10, halfBase 10000 (hex).
PairValue(high, low) == (high - 55296) * 1024 + (low - 56320) + 65536

\* The trailing byte for six bits of a code point.
Trail(n) == 128 + (n % 64)

\* Mutant: the second range is one too long.
BytesToWrite800(ch) ==
  IF ch < 128 THEN 1 ELSE IF ch <= 2048 THEN 2 ELSE IF ch < 65536 THEN 3 ELSE 4

BytesToWrite(ch) ==
  IF ch < 128 THEN 1 ELSE IF ch < 2048 THEN 2 ELSE IF ch < 65536 THEN 3 ELSE 4

Utf8Bytes(ch) ==
  LET n == BytesToWrite(ch)
  IN CASE n = 1 -> <<ch>>
       [] n = 2 -> <<192 + (ch \div 64), Trail(ch)>>
       [] n = 3 -> <<224 + (ch \div 4096), Trail(ch \div 64), Trail(ch)>>
       [] n = 4 -> <<240 + (ch \div 262144), Trail(ch \div 4096), Trail(ch \div 64), Trail(ch)>>

Failed(result) == [result |-> result, bytes |-> << >>]

\* ConvertUTF16toUTF8 in strict mode, with a target that is long enough or none.
ConvertUTF16toUTF8(source) ==
  LET Before(bytes, converted) == [converted EXCEPT !.bytes = bytes \o @]
      from[i \in 1 .. Len(source) + 1] ==
        IF i > Len(source) THEN [result |-> "conversionOK", bytes |-> << >>]
        ELSE IF IsHigh(source[i])
        THEN IF i = Len(source) THEN Failed("sourceExhausted")
             ELSE IF IsLow(source[i + 1])
             THEN Before(Utf8Bytes(PairValue(source[i], source[i + 1])), from[i + 2])
             ELSE Failed("sourceIllegal")
        ELSE IF IsLow(source[i]) THEN Failed("sourceIllegal")
        ELSE Before(Utf8Bytes(source[i]), from[i + 1])
  IN from[1]

Converts(source) == ConvertUTF16toUTF8(source).result = "conversionOK"
-----------------------------------------------------------------------------
(* convert_to_utf8. *)

UtfInit ==
  /\ report \in UNION {[1 .. n -> Units] : n \in 0 .. MaxUnits}
  /\ rest = report
  /\ buffer = << >> /\ beyond = 0 /\ written = << >> /\ status = "reading"

BlockLength == IF Len(rest) < BSIZ THEN Len(rest) ELSE BSIZ

Block == SubSeq(rest, 1, BlockLength)

\* The unit past the block: left by a block before, or whatever memory holds.
PastBlock == IF BlockLength < Len(buffer) THEN {buffer[BlockLength + 1]} ELSE Units

\* Mutant: the bytes are counted and written by the same bounds.
ReadBlockWithUnitPast ==
  /\ status = "reading" /\ rest # << >>
  /\ beyond' \in PastBlock
  /\ LET sized == Append(Block, beyond')
     IN IF Converts(sized)
        THEN written' = written \o ConvertUTF16toUTF8(sized).bytes /\ UNCHANGED status
        ELSE status' = "failed" /\ UNCHANGED written
  /\ buffer' = Block \o SubSeq(buffer, BlockLength + 1, Len(buffer))
  /\ rest' = SubSeq(rest, BlockLength + 1, Len(rest))
  /\ UNCHANGED report

\* One round of the loop.  A failure of either call ends it, with the blocks
\* before already in the file.
ReadBlock ==
  /\ status = "reading" /\ rest # << >>
  /\ beyond' \in PastBlock
  /\ IF Converts(Append(Block, beyond')) /\ Converts(Block)
     THEN written' = written \o ConvertUTF16toUTF8(Block).bytes /\ UNCHANGED status
     ELSE status' = "failed" /\ UNCHANGED written
  /\ buffer' = Block \o SubSeq(buffer, BlockLength + 1, Len(buffer))
  /\ rest' = SubSeq(rest, BlockLength + 1, Len(rest))
  /\ UNCHANGED report

EndOfReport ==
  /\ status = "reading" /\ rest = << >>
  /\ status' = "converted"
  /\ UNCHANGED <<report, rest, buffer, beyond, written>>

UtfNext == ReadBlock \/ EndOfReport

UtfSpec == UtfInit /\ [][UtfNext]_utfVars
-----------------------------------------------------------------------------
(* Reference: the units a sequence of UTF-8 bytes stands for. *)

UnitsOf(ch) == IF ch < 65536 THEN <<ch>>
               ELSE <<55296 + ((ch - 65536) \div 1024), 56320 + ((ch - 65536) % 1024)>>

\* The length of a sequence and its code point, by the byte it begins with.
Width(byte) == IF byte < 128 THEN 1 ELSE IF byte < 224 THEN 2 ELSE IF byte < 240 THEN 3 ELSE 4

CodePointAt(bytes, i) ==
  LET width == Width(bytes[i])
      Bits(j) == IF j <= Len(bytes) THEN bytes[j] % 64 ELSE 0
  IN CASE width = 1 -> bytes[i]
       [] width = 2 -> (bytes[i] - 192) * 64 + Bits(i + 1)
       [] width = 3 -> (bytes[i] - 224) * 4096 + Bits(i + 1) * 64 + Bits(i + 2)
       [] width = 4 -> (bytes[i] - 240) * 262144 + Bits(i + 1) * 4096 + Bits(i + 2) * 64 + Bits(i + 3)

Utf16(bytes) ==
  LET from[i \in 1 .. Len(bytes) + 4] ==
        IF i > Len(bytes) THEN << >>
        ELSE UnitsOf(CodePointAt(bytes, i)) \o from[i + Width(bytes[i])]
  IN from[1]

\* Surrogates come in pairs, a high and then a low one.
WellFormed(source) ==
  /\ \A i \in DOMAIN source : IsHigh(source[i]) =>
       i < Len(source) /\ source[i + 1] \in 56320 .. 57343
  /\ \A i \in DOMAIN source : source[i] \in 56320 .. 57343 => i > 1 /\ IsHigh(source[i - 1])

\* A pair with one half in a block and the other in the next.
PairSplit(source) == \E i \in DOMAIN source : i % BSIZ = 0 /\ IsHigh(source[i])
-----------------------------------------------------------------------------
(* Properties. *)

\* What is in the converted file is the report as far as it was read, up to a block
\* that failed: no block is lost, written twice, or written in part.
ConvertedAsRead ==
  Utf16(written) =
    SubSeq(report, 1, IF status = "failed" THEN ((Len(report) - Len(rest) - 1) \div BSIZ) * BSIZ
                                    ELSE Len(report) - Len(rest))

\* A conversion fails for one of three reasons, and only the first is the report's:
\* it is not well formed, a pair lies across two blocks, or the unit past a block,
\* which is not part of the report, is a surrogate.
FailureExplained ==
  status = "failed" =>
    ~ WellFormed(report) \/ PairSplit(report) \/ IsHigh(beyond) \/ beyond \in 56320 .. 57343
=============================================================================
