----------------------------- MODULE CsvReader -----------------------------
(***************************************************************************)
(* CSVReader of opencsv, with which the content provider reads afc.csv:    *)
(* readNext gives the next row, which takes more than one line of the file *)
(* where a quote is open at the end of a line.                             *)
(***************************************************************************)
EXTENDS Naturals, SequencesExt

CONSTANTS Lines,       \* the lines of other files, without their ends
          MaxLines,    \* how many of them a file has (a bound)
          Fields,      \* the fields of a table another program writes
          MaxFields,   \* fields of its rows (a bound)
          MaxRows      \* rows of it (a bound)

\* separator, quotechar, the end of a line, and any other character.
Chars == {",", "q", "n", "x"}

ASSUME LinesAssumption == Lines \subseteq Seq(Chars \ {"n"}) /\ MaxLines \in Nat
ASSUME FieldsAssumption == Fields \subseteq Seq(Chars)
ASSUME MaxFieldsAssumption == MaxFields \in Nat \ {0} /\ MaxRows \in Nat

VARIABLES csvTable,   \* what the file was written from, << >> if it is any text
          csvFile,    \* its lines
          line,       \* lines read
          tokens,     \* tokensOnThisLine
          sb,         \* the field parseLine is at
          inQuotes,
          rows,       \* what readNext returned
          hasNext

csvVars == <<csvTable, csvFile, line, tokens, sb, inQuotes, rows, hasNext>>
-----------------------------------------------------------------------------
(* Another program writes a table: fields that need it in quotes, quotes in    *)
(* them doubled.                                                               *)

Doubled(field) == FlattenSeq([i \in DOMAIN field |->
                    IF field[i] = "q" THEN <<"q", "q">> ELSE <<field[i]>>])

Quoted(field) == IF \A i \in DOMAIN field : field[i] = "x" THEN field
                 ELSE <<"q">> \o Doubled(field) \o <<"q">>

Joined(row) == FlattenSeq([k \in DOMAIN row |->
                 IF k = 1 THEN Quoted(row[k]) ELSE <<",">> \o Quoted(row[k])])

\* The lines of a text, whose last character ends the last of them.
LinesOf(text) ==
  FoldLeft(LAMBDA ls, c : IF c = "n" THEN [done |-> Append(ls.done, ls.last), last |-> << >>]
                          ELSE [ls EXCEPT !.last = Append(@, c)],
           [done |-> << >>, last |-> << >>], text).done

Written(table) == LinesOf(FlattenSeq([j \in DOMAIN table |-> Append(Joined(table[j]), "n")]))

SeqsTo(set, n) == UNION {[1 .. k -> set] : k \in 0 .. n}

Tables == SeqsTo(UNION {[1 .. k -> Fields] : k \in 1 .. MaxFields}, MaxRows)

CsvInit ==
  /\ \/ csvTable \in Tables /\ csvFile = Written(csvTable)
     \/ csvTable = << >> /\ csvFile \in SeqsTo(Lines, MaxLines)
  /\ line = 0
  /\ tokens = << >> /\ sb = << >> /\ inQuotes = FALSE
  /\ rows = << >> /\ hasNext = TRUE
-----------------------------------------------------------------------------
(* parseLine. *)

\* Mutant: the second of two quotes is read again.
EscapedQuoteReadAgain(text, i, p) ==
  [p EXCEPT !.sb = Append(@, "q"), !.next = i + 1]

\* Two quotes in a quoted text are one: both are consumed.
EscapedQuote(text, i, p) ==
  [p EXCEPT !.sb = Append(@, "q"), !.next = i + 2]

\* A quote that opens or closes a quoted text; between two other characters, from
\* the fourth of a line on, it belongs to the field as well.
OtherQuote(text, i, p) ==
  [p EXCEPT !.quotes = ~ @, !.next = i + 1,
            !.sb = IF i > 3 /\ text[i - 1] # "," /\ i < Len(text) /\ text[i + 1] # ","
                   THEN Append(@, "q") ELSE @]

\* One round of the loop over the characters of a line.
ParseChar(text, p) ==
  LET i == p.next
  IN CASE text[i] = "q" /\ p.quotes /\ i < Len(text) /\ text[i + 1] = "q" ->
            EscapedQuote(text, i, p)
       [] text[i] = "q" /\ ~ (p.quotes /\ i < Len(text) /\ text[i + 1] = "q") ->
            OtherQuote(text, i, p)
       [] text[i] = "," /\ ~ p.quotes ->
            [p EXCEPT !.tokens = Append(@, p.sb), !.sb = << >>, !.next = i + 1]
       [] OTHER -> [p EXCEPT !.sb = Append(@, text[i]), !.next = i + 1]

\* The whole line, where a character may take another with it.
ParseLine(text, start) ==
  FoldLeft(LAMBDA p, i : IF i = p.next THEN ParseChar(text, p) ELSE p,
           start, [i \in DOMAIN text |-> i])

\* Mutant: a row ends where its line does.
ParsedAnyQuotes(p) ==
  /\ rows' = Append(rows, Append(p.tokens, p.sb))
  /\ tokens' = << >> /\ sb' = << >> /\ inQuotes' = FALSE

\* The end of a line: of the row too, unless a quote is open.
Parsed(p) ==
  IF p.quotes
  THEN /\ tokens' = p.tokens /\ sb' = p.sb /\ inQuotes' = TRUE
       /\ UNCHANGED rows
  ELSE /\ rows' = Append(rows, Append(p.tokens, p.sb))
       /\ tokens' = << >> /\ sb' = << >> /\ inQuotes' = FALSE

NextLine == line < Len(csvFile) /\ line' = line + 1

\* readNext, and the line it begins with.
ReadNext ==
  /\ hasNext /\ ~ inQuotes
  /\ NextLine
  /\ Parsed(ParseLine(csvFile[line'], [tokens |-> << >>, sb |-> << >>, quotes |-> FALSE,
                                       next |-> 1]))
  /\ UNCHANGED <<csvTable, csvFile, hasNext>>

\* A line that continues a quoted text.
ReadOn ==
  /\ inQuotes
  /\ NextLine
  /\ Parsed(ParseLine(csvFile[line'], [tokens |-> tokens, sb |-> Append(sb, "n"),
                                       quotes |-> TRUE, next |-> 1]))
  /\ UNCHANGED <<csvTable, csvFile, hasNext>>

\* No more lines: a row whose quote was never closed is returned as it is, and then
\* null.
EndOfFile ==
  /\ hasNext /\ line = Len(csvFile)
  /\ hasNext' = FALSE
  /\ rows' = IF inQuotes THEN Append(rows, Append(tokens, Append(sb, "n"))) ELSE rows
  /\ tokens' = << >> /\ sb' = << >> /\ inQuotes' = FALSE
  /\ UNCHANGED <<csvTable, csvFile, line>>

CsvNext == ReadNext \/ ReadOn \/ EndOfFile

CsvSpec == CsvInit /\ [][CsvNext]_csvVars
-----------------------------------------------------------------------------
(* Properties. *)

\* Whatever the fields of a table hold, quotes, separators and ends of lines
\* included, the reader returns the rows that were written, one after the other.
WrittenRowsRead ==
  csvTable # << >> => /\ IsPrefix(rows, csvTable)
                      /\ ~ hasNext => rows = csvTable

Quotes(text) == {i \in DOMAIN text : text[i] = "q"}

QuotesTo(n) == FoldLeft(LAMBDA sum, text : sum + Cardinality(Quotes(text)), 0,
                        SubSeq(csvFile, 1, n))

\* Of any text: a row ends with the first line up to which the quotes come in pairs,
\* wherever in the lines they stand.  So a row of the file without quotes is a line,
\* and one quote too many swallows all lines up to the next.
RowsEndOutsideQuotes ==
  hasNext => /\ inQuotes = (QuotesTo(line) % 2 = 1)
             /\ Len(rows) = Cardinality({n \in 1 .. line : QuotesTo(n) % 2 = 0})
=============================================================================
