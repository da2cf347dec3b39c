-------------------------- MODULE CsvReader_proofs --------------------------
(***************************************************************************)
(* Theorems about CsvReader: where the rows of a file end, for any number  *)
(* of lines of any length, whether a program wrote them or not; and that   *)
(* a table another program wrote is read back, whatever is in its fields.  *)
(***************************************************************************)
EXTENDS CsvReader, Recursion, SequenceTheorems, FiniteSetTheorems

-----------------------------------------------------------------------------
(* A line: parseLine goes through its characters.                          *)

\* Texts of any length: a field, a line, a file.
CsvTexts == Seq(Chars)

\* What parseLine keeps.
Parses == [tokens : Seq(CsvTexts), sb : CsvTexts, quotes : BOOLEAN, next : Nat]

\* The conditions of parseLine, and what it makes of its variables, field by field.
EscapedAt(text, i, p) == text[i] = "q" /\ p.quotes /\ i < Len(text) /\ text[i + 1] = "q"

KeptAt(text, i) == i > 3 /\ text[i - 1] # "," /\ i < Len(text) /\ text[i + 1] # ","

Gives(p, t, s, q, n) == p \in Parses /\ p.tokens = t /\ p.sb = s /\ p.quotes = q /\ p.next = n

\* ParseChar, case by case.
LEMMA ParseCharIs ==
  ASSUME NEW text \in CsvTexts, NEW p \in Parses, NEW i, i = p.next, i \in 1 .. Len(text)
  PROVE  /\ EscapedAt(text, i, p) =>
              Gives(ParseChar(text, p), p.tokens, Append(p.sb, "q"), p.quotes, i + 2)
         /\ text[i] = "q" /\ ~ EscapedAt(text, i, p) =>
              Gives(ParseChar(text, p), p.tokens,
                    IF KeptAt(text, i) THEN Append(p.sb, "q") ELSE p.sb,
                    ~ p.quotes, i + 1)
         /\ text[i] = "," /\ ~ p.quotes =>
              Gives(ParseChar(text, p), Append(p.tokens, p.sb), << >>, p.quotes, i + 1)
         /\ text[i] # "q" /\ (text[i] # "," \/ p.quotes) =>
              Gives(ParseChar(text, p), p.tokens, Append(p.sb, text[i]), p.quotes, i + 1)
<1>1. /\ p.tokens \in Seq(CsvTexts) /\ p.sb \in CsvTexts /\ p.quotes \in BOOLEAN
      /\ i + 1 \in Nat /\ i + 2 \in Nat /\ text[i] \in Chars
  BY DEF Parses, CsvTexts
<1>2. /\ Append(p.sb, "q") \in CsvTexts /\ << >> \in CsvTexts
      /\ Append(p.tokens, p.sb) \in Seq(CsvTexts)
      /\ Append(p.sb, text[i]) \in CsvTexts
  <2>1. "q" \in Chars
    BY DEF Chars
  <2> QED
    BY <1>1, <2>1 DEF CsvTexts
<1>0. "q" # ","
  OBVIOUS
<1>3. CASE EscapedAt(text, i, p)
  <2> DEFINE s == Append(p.sb, "q")
  <2>1. ParseChar(text, p) = EscapedQuote(text, i, p)
    BY <1>3, Zenon DEF ParseChar, EscapedAt
  <2>2. EscapedQuote(text, i, p) = [p EXCEPT !.sb = s, !.next = i + 2]
    BY DEF EscapedQuote
  <2>3. Gives([p EXCEPT !.sb = s, !.next = i + 2], p.tokens, s, p.quotes, i + 2)
    <3> HIDE DEF s
    <3>1. s \in CsvTexts
      BY <1>2 DEF s
    <3> QED
      BY <1>1, <3>1 DEF Gives, Parses
  <2> QED
    BY <1>0, <1>3, <2>1, <2>2, <2>3, Zenon DEF EscapedAt
<1>4. CASE text[i] = "q" /\ ~ EscapedAt(text, i, p)
  <2>1. ParseChar(text, p) = OtherQuote(text, i, p)
    BY <1>4, Zenon DEF ParseChar, EscapedAt
  <2> DEFINE s == IF KeptAt(text, i) THEN Append(p.sb, "q") ELSE p.sb
  <2>2. OtherQuote(text, i, p) = [p EXCEPT !.quotes = ~ @, !.next = i + 1, !.sb = s]
    BY Zenon DEF OtherQuote, KeptAt
  <2>3. Gives([p EXCEPT !.quotes = ~ @, !.next = i + 1, !.sb = s], p.tokens, s, ~ p.quotes, i + 1)
    <3>1. s \in CsvTexts
      BY <1>1, <1>2
    <3> HIDE DEF s
    <3> QED
      BY <1>1, <3>1 DEF Gives, Parses
  <2> QED
    BY <1>0, <1>4, <2>1, <2>2, <2>3, Zenon
<1>5. CASE text[i] = "," /\ ~ p.quotes
  <2> DEFINE t == Append(p.tokens, p.sb)
             s == << >>
  <2>1. ParseChar(text, p) = [p EXCEPT !.tokens = t, !.sb = s, !.next = i + 1]
    BY <1>0, <1>5, Zenon DEF ParseChar
  <2>2. Gives([p EXCEPT !.tokens = t, !.sb = s, !.next = i + 1], t, s, p.quotes, i + 1)
    <3>1. t \in Seq(CsvTexts) /\ s \in CsvTexts
      BY <1>2
    <3> HIDE DEF s, t
    <3> QED
      BY <1>1, <3>1 DEF Gives, Parses
  <2> QED
    BY <1>0, <1>5, <2>1, <2>2, Zenon DEF EscapedAt
<1>6. CASE text[i] # "q" /\ (text[i] # "," \/ p.quotes)
  <2> DEFINE s == Append(p.sb, text[i])
  <2>1. ParseChar(text, p) = [p EXCEPT !.sb = s, !.next = i + 1]
    BY <1>6, Zenon DEF ParseChar
  <2>2. Gives([p EXCEPT !.sb = s, !.next = i + 1], p.tokens, s, p.quotes, i + 1)
    <3>1. s \in CsvTexts
      BY <1>2
    <3> HIDE DEF s
    <3> QED
      BY <1>1, <3>1 DEF Gives, Parses
  <2> QED
    BY <1>6, <2>1, <2>2, Zenon DEF EscapedAt
<1>7. EscapedAt(text, i, p) => text[i] = "q"
  BY DEF EscapedAt
<1> QED
  BY <1>3, <1>4, <1>5, <1>6, <1>7, Zenon

\* A round of parseLine keeps types.
LEMMA ParseCharType ==
  ASSUME NEW text \in CsvTexts, NEW p \in Parses, p.next \in 1 .. Len(text)
  PROVE  ParseChar(text, p) \in Parses
BY ParseCharIs, Zenon DEF Gives

\* parseLine goes through a line.
ParseRun(run, text, start) ==
  /\ run \in [0 .. Len(text) -> Parses]
  /\ run[0] = start /\ run[Len(text)] = ParseLine(text, start)
  /\ \A k \in 1 .. Len(text) :
       run[k] = IF k = run[k - 1].next THEN ParseChar(text, run[k - 1]) ELSE run[k - 1]

LEMMA ParseRuns ==
  ASSUME NEW text \in CsvTexts, NEW start \in Parses
  PROVE  \E run : ParseRun(run, text, start)
<1> DEFINE n == Len(text)
           places == [i \in DOMAIN text |-> i]
           Next(p, i) == IF i = p.next THEN ParseChar(text, p) ELSE p
           step == [q \in Parses \X (1 .. n) |-> Next(q[1], q[2])]
<1>1. n \in Nat /\ DOMAIN text = 1 .. n
  BY DEF CsvTexts
<1>2. step \in [Parses \X (1 .. n) -> Parses]
  <2>1. \A p \in Parses, k \in 1 .. n : Next(p, k) \in Parses
    BY ParseCharType
  <2> HIDE DEF Next, n
  <2> QED
    BY <2>1
<1>3. \A p \in Parses, k \in 1 .. n : step[<<p, k>>] = Next(p, k)
  <2> HIDE DEF Next, n
  <2> QED
    OBVIOUS
<1> HIDE DEF step
<1>4. PICK g \in [SUBSET (1 .. n) -> Parses] : IsFold(g, n, start, step)
  <2> HIDE DEF n
  <2> QED
    BY <1>1, <1>2, FoldExists, Zenon
<1> DEFINE Equation(f) == f = [s \in SUBSET (DOMAIN places) |->
             IF s = {} THEN start
             ELSE IF places[Max(s)] = f[s \ {Max(s)}].next THEN ParseChar(text, f[s \ {Max(s)}])
                  ELSE f[s \ {Max(s)}]]
<1>5. DOMAIN places = 1 .. n /\ \A k \in 1 .. n : places[k] = k
  BY <1>1
<1> HIDE DEF places
<1>6. \E f : Equation(f)
  <2>1. ASSUME NEW s \in SUBSET (1 .. n)
        PROVE  g[s] = IF s = {} THEN start
                      ELSE IF places[Max(s)] = g[s \ {Max(s)}].next THEN ParseChar(text, g[s \ {Max(s)}])
                      ELSE g[s \ {Max(s)}]
    <3>1. CASE s # {}
      <4>1. Max(s) \in 1 .. n
        <5> HIDE DEF n
        <5> QED
          BY <1>1, <3>1, MaxIs
      <4>2. g[s \ {Max(s)}] \in Parses /\ places[Max(s)] = Max(s)
        BY <1>5, <4>1
      <4>3. g[s] = Next(g[s \ {Max(s)}], Max(s))
        <5> HIDE DEF Next
        <5> QED
          BY <1>3, <1>4, <3>1, <4>1, <4>2 DEF IsFold
      <4> QED
        BY <3>1, <4>2, <4>3, Zenon
    <3> QED
      BY <1>4, <3>1 DEF IsFold
  <2>2. Equation(g)
    BY <1>5, <2>1
  <2> QED
    BY <2>2
<1> DEFINE iter[s \in SUBSET (DOMAIN places)] ==
             IF s = {} THEN start
             ELSE IF places[Max(s)] = iter[s \ {Max(s)}].next THEN ParseChar(text, iter[s \ {Max(s)}])
                  ELSE iter[s \ {Max(s)}]
<1>7. Equation(iter)
  BY <1>6, Zenon
<1>8. ParseLine(text, start) = iter[DOMAIN places]
  BY Zenon DEF ParseLine, FoldLeft, MapThenFoldSet, places
<1> HIDE DEF iter
<1>9. iter[{}] = start
  BY <1>7
<1>10. ASSUME NEW s \in SUBSET (1 .. n), s # {}, iter[s \ {Max(s)}] \in Parses
       PROVE  iter[s] = step[<<iter[s \ {Max(s)}], Max(s)>>]
  <2>1. Max(s) \in 1 .. n
    <3> HIDE DEF n
    <3> QED
      BY <1>1, <1>10, MaxIs
  <2>2. iter[s] = Next(iter[s \ {Max(s)}], Max(s))
    BY <1>5, <1>7, <1>10, <2>1
  <2> HIDE DEF Next
  <2> QED
    BY <1>3, <1>10, <2>1, <2>2
<1>11. PICK run \in [0 .. n -> Parses] : IsRun(run, n, start, step, iter[1 .. n])
  <2> HIDE DEF n
  <2> QED
    BY <1>1, <1>2, <1>9, <1>10, FoldRuns, Zenon
<1>12. ASSUME NEW k \in 1 .. n PROVE run[k] = Next(run[k - 1], k)
  <2>1. k - 1 \in 0 .. n /\ run[k - 1] \in Parses
    BY <1>1
  <2> HIDE DEF Next
  <2> QED
    BY <1>3, <1>11, <2>1 DEF IsRun
<1>13. run[0] = start /\ run[n] = ParseLine(text, start)
  BY <1>5, <1>8, <1>11 DEF IsRun
<1> QED
  BY <1>12, <1>13, Zenon DEF ParseRun

Odd(n) == n % 2 = 1

\* Odd and even take turns.
LEMMA OddIs ==
  /\ ~ Odd(0)
  /\ \A n \in Nat : Odd(n + 1) <=> ~ Odd(n)
  /\ \A m, n \in Nat : Odd(m + n) <=> ~ (Odd(m) <=> Odd(n))
BY SMT DEF Odd

\* Quotes among the first m characters.
QuotesIn(text, m) == Cardinality({i \in 1 .. m : text[i] = "q"})

\* With a character more there is a quote more, or not.
LEMMA QuotesCounted ==
  ASSUME NEW text
  PROVE  /\ QuotesIn(text, 0) = 0
         /\ \A m \in Nat : /\ QuotesIn(text, m) \in Nat
                           /\ QuotesIn(text, m + 1) = IF text[m + 1] = "q" THEN QuotesIn(text, m) + 1
                                                      ELSE QuotesIn(text, m)
<1>1. QuotesIn(text, 0) = 0
  <2>1. {i \in 1 .. 0 : text[i] = "q"} = {}
    OBVIOUS
  <2> QED
    BY <2>1, FS_EmptySet, Zenon DEF QuotesIn
<1>2. ASSUME NEW m \in Nat
      PROVE  /\ QuotesIn(text, m) \in Nat
             /\ QuotesIn(text, m + 1) = IF text[m + 1] = "q" THEN QuotesIn(text, m) + 1
                                        ELSE QuotesIn(text, m)
  <2> DEFINE s == {i \in 1 .. m : text[i] = "q"}
             t == {i \in 1 .. m + 1 : text[i] = "q"}
  <2>1. IsFiniteSet(s)
    <3>1. IsFiniteSet(1 .. m)
      BY FS_Interval
    <3>2. s \subseteq 1 .. m
      OBVIOUS
    <3> QED
      BY <3>1, <3>2, FS_Subset, Zenon
  <2>2. Cardinality(s) \in Nat
    BY <2>1, FS_CardinalityType
  <2>3. CASE text[m + 1] = "q"
    <3>1. t = s \cup {m + 1} /\ m + 1 \notin s
      BY <2>3
    <3> HIDE DEF s, t
    <3>2. Cardinality(t) = Cardinality(s) + 1
      BY <2>1, <3>1, FS_AddElement
    <3> QED
      BY <2>2, <2>3, <3>2 DEF QuotesIn, s, t
  <2>4. CASE text[m + 1] # "q"
    <3>1. t = s
      BY <2>4
    <3> QED
      BY <2>2, <2>4, <3>1, Zenon DEF QuotesIn
  <2> QED
    BY <2>3, <2>4, Zenon
<1> QED
  BY <1>1, <1>2, Zenon

\* With before a quote open or not at the beginning of a line, one is open where p is if so
\* says the number of quotes before.
Kept(text, before, p) == p.quotes <=> ~ (before <=> Odd(QuotesIn(text, p.next - 1)))

\* A round of parseLine keeps that, and goes on by one character or by two.
LEMMA ParityKept ==
  ASSUME NEW text \in CsvTexts, NEW p \in Parses, NEW i \in 1 .. Len(text), i = p.next,
         NEW before \in BOOLEAN, Kept(text, before, p)
  PROVE  /\ Kept(text, before, ParseChar(text, p))
         /\ ParseChar(text, p).next \in {i + 1, i + 2} /\ ParseChar(text, p).next <= Len(text) + 1
<1> DEFINE r == ParseChar(text, p)
           c == QuotesIn(text, i - 1)
           d == QuotesIn(text, i)
           e == QuotesIn(text, i + 1)
<1>0. p.quotes <=> ~ (before <=> Odd(c))
  BY Zenon DEF Kept
<1>1. /\ Len(text) \in Nat /\ i \in Nat /\ i - 1 \in Nat
      /\ (i - 1) + 1 = i /\ (i + 1) - 1 = i /\ (i + 2) - 1 = i + 1
  BY DEF CsvTexts
<1>2. /\ c \in Nat /\ d \in Nat
      /\ d = IF text[i] = "q" THEN c + 1 ELSE c
      /\ e = IF text[i + 1] = "q" THEN d + 1 ELSE d
  <2>1. /\ QuotesIn(text, i - 1) \in Nat /\ QuotesIn(text, i) \in Nat
        /\ QuotesIn(text, (i - 1) + 1) = IF text[(i - 1) + 1] = "q" THEN c + 1 ELSE c
        /\ QuotesIn(text, i + 1) = IF text[i + 1] = "q" THEN d + 1 ELSE d
    BY <1>1, QuotesCounted, Zenon
  <2>2. (i - 1) + 1 = i
    BY <1>1
  <2> QED
    BY <2>1, <2>2
<1> HIDE DEF c, d, e
<1>3. CASE EscapedAt(text, i, p)
  <2>1. Gives(r, p.tokens, Append(p.sb, "q"), p.quotes, i + 2)
    BY <1>3, ParseCharIs, Zenon
  <2>2. text[i] = "q" /\ text[i + 1] = "q" /\ i < Len(text)
    BY <1>3 DEF EscapedAt
  <2>3. Odd(e) <=> Odd(c)
    <3>1. d = c + 1 /\ e = d + 1
      BY <1>2, <2>2
    <3> QED
      BY <1>2, <3>1, SMT DEF Odd
  <2>4. r.next = i + 2 /\ r.next - 1 = i + 1 /\ r.quotes = p.quotes
    BY <1>1, <2>1, Zenon DEF Gives
  <2> HIDE DEF r
  <2>5. r.next \in {i + 1, i + 2} /\ r.next <= Len(text) + 1
    BY <1>1, <2>2, <2>4
  <2> QED
    BY <1>0, <2>3, <2>4, <2>5, Zenon DEF c, e, r, Kept
<1>4. CASE text[i] = "q" /\ ~ EscapedAt(text, i, p)
  <2>1. Gives(r, p.tokens, IF KeptAt(text, i) THEN Append(p.sb, "q") ELSE p.sb, ~ p.quotes, i + 1)
    BY <1>4, ParseCharIs, Zenon
  <2>3. Odd(d) <=> ~ Odd(c)
    <3>1. d = c + 1
      BY <1>2, <1>4
    <3> QED
      BY <1>2, <3>1, SMT DEF Odd
  <2>4. r.next = i + 1 /\ r.next - 1 = i /\ r.quotes = (~ p.quotes)
    BY <1>1, <2>1, Zenon DEF Gives
  <2> HIDE DEF r
  <2>5. r.next \in {i + 1, i + 2} /\ r.next <= Len(text) + 1
    BY <1>1, <2>4
  <2> QED
    BY <1>0, <2>3, <2>4, <2>5, Zenon DEF c, d, r, Kept
<1>5. CASE text[i] # "q"
  <2>1. PICK t, s : Gives(r, t, s, p.quotes, i + 1)
    <3>1. CASE text[i] = "," /\ ~ p.quotes
      BY <3>1, ParseCharIs, Zenon
    <3>2. CASE text[i] # "," \/ p.quotes
      BY <1>5, <3>2, ParseCharIs, Zenon
    <3> QED
      BY <3>1, <3>2, Zenon
  <2>3. d = c
    BY <1>2, <1>5
  <2>4. r.next = i + 1 /\ r.next - 1 = i /\ r.quotes = p.quotes
    BY <1>1, <2>1, Zenon DEF Gives
  <2> HIDE DEF r
  <2>5. r.next \in {i + 1, i + 2} /\ r.next <= Len(text) + 1
    BY <1>1, <2>4
  <2> QED
    BY <1>0, <2>3, <2>4, <2>5, Zenon DEF c, d, r, Kept
<1> QED
  BY <1>3, <1>4, <1>5, Zenon

\* A line with quotes that do not come in pairs opens a quote or closes the one that was
\* open, wherever in it they stand.
LEMMA ParseParity ==
  ASSUME NEW text \in CsvTexts, NEW start \in Parses, start.next = 1
  PROVE  /\ ParseLine(text, start) \in Parses
         /\ ParseLine(text, start).quotes <=> ~ (start.quotes <=> Odd(QuotesIn(text, Len(text))))
<1> DEFINE n == Len(text)
<1>1. n \in Nat
  BY DEF CsvTexts
<1>2. PICK run : ParseRun(run, text, start)
  BY ParseRuns
<1>3. \A k \in 0 .. n : run[k] \in Parses
  BY <1>2 DEF ParseRun
<1> DEFINE Good(p) == Kept(text, start.quotes, p)
           S == {k \in 0 .. n : run[k].next \in {k + 1, k + 2} /\ run[k].next <= n + 1 /\ Good(run[k])}
<1>4. 0 \in S
  <2>1. run[0] = start /\ start.next - 1 = 0
    BY <1>2 DEF ParseRun
  <2>2. Good(start)
    BY <2>1, OddIs, QuotesCounted, Zenon DEF Kept
  <2> HIDE DEF Good
  <2> QED
    BY <1>1, <2>1, <2>2
<1>5. ASSUME NEW k \in Nat, k < n, k \in S PROVE k + 1 \in S
  <2> DEFINE p == run[k]
             r == run[k + 1]
             i == k + 1
  <2>1. /\ p \in Parses /\ i \in 1 .. n /\ i \in 0 .. n
        /\ (i + 1) - 1 = i /\ (i + 2) - 1 = i + 1 /\ i - 1 = k
    BY <1>1, <1>3, <1>5
  <2>2. r = IF i = p.next THEN ParseChar(text, p) ELSE p
    BY <1>2, <2>1, ZenonT(40) DEF ParseRun
  <2>3. p.next \in {i, i + 1} /\ p.next <= n + 1 /\ Good(p)
    <3>1. k + 2 = i + 1
      BY <1>5
    <3> HIDE DEF Good
    <3> QED
      BY <1>5, <3>1
  <2>4. CASE i # p.next
    <3>1. r = p /\ p.next = i + 1
      BY <2>2, <2>3, <2>4
    <3> HIDE DEF Good
    <3> QED
      BY <2>1, <2>3, <3>1
  <2>5. CASE i = p.next
    <3>1. Good(r) /\ r.next \in {i + 1, i + 2} /\ r.next <= n + 1
      <4>1. r = ParseChar(text, p) /\ start.quotes \in BOOLEAN
        BY <2>2, <2>5 DEF Parses
      <4> HIDE DEF p, r, i
      <4> QED
        BY <2>1, <2>3, <2>5, <4>1, ParityKept, Zenon
    <3> HIDE DEF Good, r
    <3> QED
      BY <2>1, <3>1 DEF r
  <2> QED
    BY <2>4, <2>5
<1>6. 0 .. n \subseteq S
  <2> HIDE DEF S, n
  <2> QED
    BY <1>1, <1>4, <1>5, CountUp
<1>7. n \in S /\ run[n] \in Parses
  BY <1>1, <1>3, <1>6
<1>8. run[n] = ParseLine(text, start)
  BY <1>2 DEF ParseRun
<1>9. run[n].next - 1 = n /\ Good(run[n])
  <2> HIDE DEF Good
  <2> QED
    BY <1>1, <1>7
<1> QED
  BY <1>7, <1>8, <1>9, Zenon DEF Kept

-----------------------------------------------------------------------------
(* The file: the fields of the rows one after the other, cut into lines.   *)

\* LinesOf goes through a text.
LineStates == [done : Seq(CsvTexts), last : CsvTexts]

NoLines == [done |-> << >>, last |-> << >>]

WithChar(ls, c) == IF c = "n" THEN [done |-> Append(ls.done, ls.last), last |-> << >>]
                   ELSE [ls EXCEPT !.last = Append(@, c)]

LinesRun(run, text) ==
  /\ run \in [0 .. Len(text) -> LineStates]
  /\ run[0] = NoLines /\ run[Len(text)].done = LinesOf(text)
  /\ \A k \in 1 .. Len(text) : run[k] = WithChar(run[k - 1], text[k])

\* A character of the text keeps types.
LEMMA WithCharType ==
  ASSUME NEW ls \in LineStates, NEW c \in Chars
  PROVE  WithChar(ls, c) \in LineStates
<1>1. ls.done \in Seq(CsvTexts) /\ ls.last \in CsvTexts
  BY DEF LineStates
<1>2. CASE c = "n"
  <2>1. Append(ls.done, ls.last) \in Seq(CsvTexts) /\ << >> \in CsvTexts
    BY <1>1, AppendProperties DEF CsvTexts
  <2> QED
    BY <1>2, <2>1 DEF WithChar, LineStates
<1>3. CASE c # "n"
  <2>1. Append(ls.last, c) \in CsvTexts
    BY <1>1, AppendProperties DEF CsvTexts
  <2>2. [ls EXCEPT !.last = Append(ls.last, c)] \in LineStates
    <3>1. \A l \in CsvTexts : [ls EXCEPT !.last = l] \in LineStates
      BY SMT DEF LineStates
    <3> QED
      BY <2>1, <3>1, Zenon
  <2> QED
    BY <1>3, <2>2, Zenon DEF WithChar
<1> QED
  BY <1>2, <1>3

LEMMA LinesRuns ==
  ASSUME NEW text \in CsvTexts
  PROVE  \E run : LinesRun(run, text)
<1> DEFINE n == Len(text)
           step == [q \in LineStates \X (1 .. n) |-> WithChar(q[1], text[q[2]])]
<1>1. n \in Nat /\ DOMAIN text = 1 .. n /\ \A k \in 1 .. n : text[k] \in Chars
  BY DEF CsvTexts
<1>2. step \in [LineStates \X (1 .. n) -> LineStates]
  <2>1. \A ls \in LineStates, k \in 1 .. n : WithChar(ls, text[k]) \in LineStates
    BY <1>1, WithCharType, Zenon
  <2> HIDE DEF n
  <2> QED
    BY <2>1
<1>3. \A ls \in LineStates, k \in 1 .. n : step[<<ls, k>>] = WithChar(ls, text[k])
  <2> HIDE DEF n
  <2> QED
    OBVIOUS
<1> HIDE DEF step
<1>0. NoLines \in LineStates
  BY DEF NoLines, LineStates, CsvTexts
<1>4. PICK g \in [SUBSET (1 .. n) -> LineStates] : IsFold(g, n, NoLines, step)
  <2> HIDE DEF n
  <2> QED
    BY <1>0, <1>1, <1>2, FoldExists, Zenon
<1> DEFINE Equation(f) == f = [s \in SUBSET (DOMAIN text) |->
             IF s = {} THEN [done |-> << >>, last |-> << >>]
             ELSE IF text[Max(s)] = "n"
                  THEN [done |-> Append(f[s \ {Max(s)}].done, f[s \ {Max(s)}].last), last |-> << >>]
                  ELSE [f[s \ {Max(s)}] EXCEPT !.last = Append(@, text[Max(s)])]]
<1>6. \E f : Equation(f)
  <2>1. ASSUME NEW s \in SUBSET (1 .. n)
        PROVE  g[s] = IF s = {} THEN [done |-> << >>, last |-> << >>]
                      ELSE IF text[Max(s)] = "n"
                           THEN [done |-> Append(g[s \ {Max(s)}].done, g[s \ {Max(s)}].last), last |-> << >>]
                           ELSE [g[s \ {Max(s)}] EXCEPT !.last = Append(@, text[Max(s)])]
    <3>1. CASE s # {}
      <4>1. Max(s) \in 1 .. n
        <5> HIDE DEF n
        <5> QED
          BY <1>1, <3>1, MaxIs
      <4>2. g[s \ {Max(s)}] \in LineStates
        BY <4>1
      <4>3. g[s] = WithChar(g[s \ {Max(s)}], text[Max(s)])
        <5>1. g[s] = step[<<g[s \ {Max(s)}], Max(s)>>]
          BY <1>4, <3>1 DEF IsFold
        <5> QED
          BY <1>3, <4>1, <4>2, <5>1, Zenon
      <4> QED
        BY <3>1, <4>3, Zenon DEF WithChar
    <3>2. g[{}] = NoLines
      BY <1>4 DEF IsFold
    <3> QED
      BY <3>1, <3>2, Zenon DEF NoLines
  <2>2. Equation(g)
    <3>1. g = [s \in SUBSET (1 .. n) |-> g[s]]
      BY Zenon
    <3> QED
      BY <1>1, <2>1, <3>1, Zenon
  <2> QED
    BY <2>2, Zenon
<1> DEFINE iter[s \in SUBSET (DOMAIN text)] ==
             IF s = {} THEN [done |-> << >>, last |-> << >>]
             ELSE IF text[Max(s)] = "n"
                  THEN [done |-> Append(iter[s \ {Max(s)}].done, iter[s \ {Max(s)}].last), last |-> << >>]
                  ELSE [iter[s \ {Max(s)}] EXCEPT !.last = Append(@, text[Max(s)])]
<1>7. Equation(iter)
  BY <1>6, Zenon
<1>8. LinesOf(text) = iter[DOMAIN text].done
  BY Zenon DEF LinesOf, FoldLeft, MapThenFoldSet
<1> HIDE DEF iter
<1>9. iter[{}] = NoLines
  BY <1>7, Zenon DEF NoLines
<1>10. ASSUME NEW s \in SUBSET (1 .. n), s # {}, iter[s \ {Max(s)}] \in LineStates
       PROVE  iter[s] = step[<<iter[s \ {Max(s)}], Max(s)>>]
  <2>1. Max(s) \in 1 .. n
    <3> HIDE DEF n
    <3> QED
      BY <1>1, <1>10, MaxIs
  <2>2. s \in SUBSET (DOMAIN text)
    BY <1>1
  <2>3. iter[s] = WithChar(iter[s \ {Max(s)}], text[Max(s)])
    BY <1>7, <1>10, <2>2, Zenon DEF WithChar
  <2> QED
    BY <1>3, <1>10, <2>1, <2>3, Zenon
<1>11. PICK run \in [0 .. n -> LineStates] : IsRun(run, n, NoLines, step, iter[1 .. n])
  <2> HIDE DEF n
  <2> QED
    BY <1>0, <1>1, <1>2, <1>9, <1>10, FoldRuns, Zenon
<1>12. ASSUME NEW k \in 1 .. n PROVE run[k] = WithChar(run[k - 1], text[k])
  <2>1. k - 1 \in 0 .. n /\ run[k - 1] \in LineStates
    BY <1>1
  <2> QED
    BY <1>3, <1>11, <2>1, Zenon DEF IsRun
<1>13. run[0] = NoLines /\ run[n].done = LinesOf(text)
  BY <1>1, <1>8, <1>11, Zenon DEF IsRun
<1>14. LinesRun(run, text)
  BY <1>12, <1>13, Zenon DEF LinesRun
<1> QED
  BY <1>14, Zenon

\* Texts of no, one and two characters.
LEMMA CharTexts ==
  << >> \in CsvTexts /\ \A c, d \in Chars : <<c>> \in CsvTexts /\ <<c, d>> \in CsvTexts
<1>1. \A c, d \in Chars : <<c>> \in Seq(Chars) /\ <<c, d>> \in Seq(Chars)
  <2> HIDE DEF Chars
  <2> QED
    OBVIOUS
<1> QED
  BY <1>1 DEF CsvTexts

\* A field, a row and the lines of a text are written as texts.
LEMMA QuotedType == ASSUME NEW field \in CsvTexts PROVE Quoted(field) \in CsvTexts
<1> DEFINE pieces == [i \in DOMAIN field |-> IF field[i] = "q" THEN <<"q", "q">> ELSE <<field[i]>>]
<1>1. DOMAIN field = 1 .. Len(field) /\ Len(field) \in Nat /\ \A i \in DOMAIN field : field[i] \in Chars
  BY DEF CsvTexts
<1>2. "q" \in Chars
  BY DEF Chars
<1>3. \A i \in DOMAIN field : pieces[i] \in CsvTexts
  BY <1>1, <1>2, CharTexts
<1>4. pieces \in Seq(CsvTexts)
  BY <1>1, <1>3
<1>5. Doubled(field) = FlattenSeq(pieces)
  BY Zenon DEF Doubled
<1>6. Doubled(field) \in CsvTexts
  <2> HIDE DEF pieces
  <2> QED
    BY <1>4, <1>5, FlattenType, Zenon DEF CsvTexts
<1>7. (<<"q">> \o Doubled(field)) \o <<"q">> \in CsvTexts
  BY <1>2, <1>6, CharTexts, ConcatProperties, Zenon DEF CsvTexts
<1> QED
  BY <1>7, Zenon DEF Quoted

LEMMA JoinedType == ASSUME NEW row \in Seq(CsvTexts) PROVE Joined(row) \in CsvTexts
<1> DEFINE pieces == [k \in DOMAIN row |-> IF k = 1 THEN Quoted(row[k]) ELSE <<",">> \o Quoted(row[k])]
<1>1. DOMAIN row = 1 .. Len(row) /\ Len(row) \in Nat /\ \A k \in DOMAIN row : row[k] \in CsvTexts
  OBVIOUS
<1>2. "," \in Chars
  BY DEF Chars
<1>3. ASSUME NEW k \in DOMAIN row PROVE pieces[k] \in CsvTexts
  <2>1. Quoted(row[k]) \in CsvTexts /\ <<",">> \in CsvTexts
    BY <1>1, <1>2, QuotedType, CharTexts, Zenon
  <2>2. <<",">> \o Quoted(row[k]) \in CsvTexts
    BY <2>1, ConcatProperties, Zenon DEF CsvTexts
  <2> QED
    BY <2>1, <2>2, Zenon
<1>4. pieces \in Seq(CsvTexts)
  <2> HIDE DEF pieces
  <2>1. DOMAIN pieces = 1 .. Len(row)
    BY <1>1 DEF pieces
  <2>2. pieces = [k \in 1 .. Len(row) |-> pieces[k]]
    BY <2>1 DEF pieces
  <2> QED
    BY <1>1, <1>3, <2>1, <2>2
<1>5. Joined(row) = FlattenSeq(pieces)
  BY Zenon DEF Joined
<1> HIDE DEF pieces
<1> QED
  BY <1>4, <1>5, FlattenType, Zenon DEF CsvTexts

LEMMA LinesType == ASSUME NEW text \in CsvTexts PROVE LinesOf(text) \in Seq(CsvTexts)
<1>1. PICK run : LinesRun(run, text)
  BY LinesRuns, Zenon
<1>2. Len(text) \in 0 .. Len(text)
  BY DEF CsvTexts
<1>3. run[Len(text)] \in LineStates
  BY <1>1, <1>2 DEF LinesRun
<1> QED
  BY <1>1, <1>3 DEF LinesRun, LineStates

\* The lines of a table are texts.
LEMMA WrittenType == ASSUME NEW table \in Seq(Seq(CsvTexts)) PROVE Written(table) \in Seq(CsvTexts)
<1> DEFINE pieces == [j \in DOMAIN table |-> Append(Joined(table[j]), "n")]
<1>1. /\ DOMAIN table = 1 .. Len(table) /\ Len(table) \in Nat
      /\ \A j \in DOMAIN table : table[j] \in Seq(CsvTexts)
  OBVIOUS
<1>2. "n" \in Chars
  BY DEF Chars
<1>3. ASSUME NEW j \in DOMAIN table PROVE pieces[j] \in CsvTexts
  <2>1. Joined(table[j]) \in CsvTexts
    BY <1>1, JoinedType, Zenon
  <2> QED
    BY <1>2, <2>1, AppendProperties DEF CsvTexts
<1>4. pieces \in Seq(CsvTexts)
  <2> HIDE DEF pieces
  <2>1. DOMAIN pieces = 1 .. Len(table)
    BY <1>1 DEF pieces
  <2>2. pieces = [j \in 1 .. Len(table) |-> pieces[j]]
    BY <2>1 DEF pieces
  <2> QED
    BY <1>1, <1>3, <2>1, <2>2
<1>5. Written(table) = LinesOf(FlattenSeq(pieces))
  BY Zenon DEF Written
<1> HIDE DEF pieces
<1>6. FlattenSeq(pieces) \in CsvTexts
  BY <1>4, FlattenType, Zenon DEF CsvTexts
<1> QED
  BY <1>5, <1>6, LinesType, Zenon
-----------------------------------------------------------------------------
(* Quotes up to a line.                                                    *)

LEMMA QuotesOfLine ==
  ASSUME NEW text \in CsvTexts
  PROVE  Cardinality(Quotes(text)) = QuotesIn(text, Len(text)) /\ Cardinality(Quotes(text)) \in Nat
<1>1. Quotes(text) = {i \in 1 .. Len(text) : text[i] = "q"} /\ Len(text) \in Nat
  BY DEF Quotes, CsvTexts
<1> QED
  BY <1>1, QuotesCounted, Zenon DEF QuotesIn

\* What QuotesTo sums up, for any lines.
QuotesOf(ls) == FoldLeft(LAMBDA sum, text : sum + Cardinality(Quotes(text)), 0, ls)

CountRun(run, ls) ==
  /\ run \in [0 .. Len(ls) -> Nat]
  /\ run[0] = 0 /\ run[Len(ls)] = QuotesOf(ls)
  /\ \A k \in 1 .. Len(ls) : run[k] = run[k - 1] + Cardinality(Quotes(ls[k]))

LEMMA CountRuns ==
  ASSUME NEW ls \in Seq(CsvTexts)
  PROVE  \E run : CountRun(run, ls)
<1> DEFINE n == Len(ls)
           C(k) == Cardinality(Quotes(ls[k]))
           step == [q \in Nat \X (1 .. n) |-> q[1] + C(q[2])]
<1>1. n \in Nat /\ DOMAIN ls = 1 .. n /\ \A k \in 1 .. n : ls[k] \in CsvTexts
  OBVIOUS
<1>2. \A k \in 1 .. n : C(k) \in Nat
  BY <1>1, QuotesOfLine, Zenon
<1>3. step \in [Nat \X (1 .. n) -> Nat] /\ \A m \in Nat, k \in 1 .. n : step[<<m, k>>] = m + C(k)
  <2>1. \A m \in Nat, k \in 1 .. n : m + C(k) \in Nat
    BY <1>2
  <2> HIDE DEF C, n
  <2> QED
    BY <2>1
<1> HIDE DEF step
<1>4. PICK g \in [SUBSET (1 .. n) -> Nat] : IsFold(g, n, 0, step)
  <2> HIDE DEF n
  <2> QED
    BY <1>1, <1>3, FoldExists
<1> DEFINE Equation(f) == f = [s \in SUBSET (DOMAIN ls) |->
             IF s = {} THEN 0 ELSE f[s \ {Max(s)}] + Cardinality(Quotes(ls[Max(s)]))]
<1>5. \E f : Equation(f)
  <2>1. ASSUME NEW s \in SUBSET (1 .. n)
        PROVE  g[s] = IF s = {} THEN 0 ELSE g[s \ {Max(s)}] + Cardinality(Quotes(ls[Max(s)]))
    <3>1. CASE s # {}
      <4>1. Max(s) \in 1 .. n
        <5> HIDE DEF n
        <5> QED
          BY <1>1, <3>1, MaxIs
      <4>2. g[s \ {Max(s)}] \in Nat
        BY <4>1
      <4>3. g[s] = step[<<g[s \ {Max(s)}], Max(s)>>]
        BY <1>4, <3>1 DEF IsFold
      <4> QED
        BY <1>3, <3>1, <4>1, <4>2, <4>3, Zenon
    <3>2. g[{}] = 0
      BY <1>4 DEF IsFold
    <3> QED
      BY <3>1, <3>2, Zenon
  <2>2. g = [s \in SUBSET (1 .. n) |-> g[s]]
    BY Zenon
  <2>3. Equation(g)
    BY <1>1, <2>1, <2>2, Zenon
  <2> QED
    BY <2>3, Zenon
<1> DEFINE iter[s \in SUBSET (DOMAIN ls)] ==
             IF s = {} THEN 0 ELSE iter[s \ {Max(s)}] + Cardinality(Quotes(ls[Max(s)]))
<1>6. Equation(iter)
  BY <1>5, Zenon
<1>7. QuotesOf(ls) = iter[DOMAIN ls]
  BY Zenon DEF QuotesOf, FoldLeft, MapThenFoldSet
<1> HIDE DEF iter
<1>8. iter[{}] = 0
  BY <1>6, Zenon
<1>9. ASSUME NEW s \in SUBSET (1 .. n), s # {}, iter[s \ {Max(s)}] \in Nat
      PROVE  iter[s] = step[<<iter[s \ {Max(s)}], Max(s)>>]
  <2>1. Max(s) \in 1 .. n
    <3> HIDE DEF n
    <3> QED
      BY <1>1, <1>9, MaxIs
  <2>2. iter[s] = iter[s \ {Max(s)}] + C(Max(s))
    BY <1>1, <1>6, <1>9, Zenon
  <2> QED
    BY <1>3, <1>9, <2>1, <2>2, Zenon
<1>10. PICK run \in [0 .. n -> Nat] : IsRun(run, n, 0, step, iter[1 .. n])
  <2>1. 0 \in Nat /\ n \in Nat /\ step \in [Nat \X (1 .. n) -> Nat]
    BY <1>1, <1>3
  <2>2. \A s \in SUBSET (1 .. n) : s # {} /\ iter[s \ {Max(s)}] \in Nat =>
          iter[s] = step[<<iter[s \ {Max(s)}], Max(s)>>]
    BY <1>9, Zenon
  <2> HIDE DEF n, step
  <2> QED
    BY <1>8, <2>1, <2>2, FoldRuns, Zenon
<1>11. ASSUME NEW k \in 1 .. n PROVE run[k] = run[k - 1] + C(k)
  <2>1. k - 1 \in 0 .. n /\ run[k - 1] \in Nat
    BY <1>1
  <2> QED
    BY <1>3, <1>10, <2>1, Zenon DEF IsRun
<1>12. run[0] = 0 /\ run[n] = QuotesOf(ls)
  BY <1>1, <1>7, <1>10, Zenon DEF IsRun
<1>13. CountRun(run, ls)
  BY <1>11, <1>12, Zenon DEF CountRun
<1> QED
  BY <1>13, Zenon

\* The quotes up to a line are those before it and its own.
LEMMA QuotesToNext ==
  ASSUME csvFile \in Seq(CsvTexts)
  PROVE  /\ QuotesTo(0) = 0
         /\ \A k \in 1 .. Len(csvFile) :
              /\ QuotesTo(k - 1) \in Nat /\ QuotesTo(k) \in Nat
              /\ QuotesTo(k) = QuotesTo(k - 1) + QuotesIn(csvFile[k], Len(csvFile[k]))
<1> DEFINE n == Len(csvFile)
<1>1. n \in Nat
  OBVIOUS
<1>2. PICK sum : CountRun(sum, csvFile)
  BY CountRuns, Zenon
<1>3. ASSUME NEW k \in 0 .. n PROVE QuotesTo(k) = sum[k]
  <2> DEFINE ls == SubSeq(csvFile, 1, k)
  <2>1. /\ ls \in Seq(CsvTexts) /\ Len(ls) = k /\ k \in Nat
        /\ \A j \in 1 .. k : ls[j] = csvFile[j] /\ j \in 1 .. n
    BY <1>1
  <2> HIDE DEF ls
  <2>2. PICK run : CountRun(run, ls)
    BY <2>1, CountRuns, Zenon
  <2> DEFINE S == {j \in 0 .. k : run[j] = sum[j]}
  <2>3. 0 \in S
    BY <1>2, <2>1, <2>2 DEF CountRun
  <2>4. ASSUME NEW j \in Nat, j < k, j \in S PROVE j + 1 \in S
    <3>1. j + 1 \in 1 .. k /\ (j + 1) - 1 = j /\ j + 1 \in 1 .. n /\ j + 1 \in 0 .. k
      BY <1>1, <2>1, <2>4
    <3>2. run[j + 1] = run[(j + 1) - 1] + Cardinality(Quotes(ls[j + 1]))
      BY <2>1, <2>2, <3>1, Zenon DEF CountRun
    <3>3. sum[j + 1] = sum[(j + 1) - 1] + Cardinality(Quotes(csvFile[j + 1]))
      BY <1>2, <3>1, Zenon DEF CountRun
    <3>4. run[j + 1] = sum[j + 1]
      BY <2>1, <2>4, <3>1, <3>2, <3>3
    <3> QED
      BY <3>1, <3>4
  <2>5. 0 .. k \subseteq S
    <3> HIDE DEF S
    <3> QED
      BY <2>1, <2>3, <2>4, CountUp
  <2>6. run[k] = sum[k]
    BY <2>1, <2>5
  <2> QED
    BY <2>1, <2>2, <2>6, Zenon DEF QuotesTo, QuotesOf, CountRun, ls
<1>4. QuotesTo(0) = 0
  BY <1>1, <1>2, <1>3 DEF CountRun
<1>5. ASSUME NEW k \in 1 .. n
      PROVE  /\ QuotesTo(k - 1) \in Nat /\ QuotesTo(k) \in Nat
             /\ QuotesTo(k) = QuotesTo(k - 1) + QuotesIn(csvFile[k], Len(csvFile[k]))
  <2>1. k - 1 \in 0 .. n /\ k \in 0 .. n /\ csvFile[k] \in CsvTexts
    BY <1>1
  <2>2. sum[k - 1] \in Nat /\ sum[k] \in Nat
    BY <1>2, <2>1 DEF CountRun
  <2>3. sum[k] = sum[k - 1] + Cardinality(Quotes(csvFile[k]))
    BY <1>2, Zenon DEF CountRun
  <2>4. Cardinality(Quotes(csvFile[k])) = QuotesIn(csvFile[k], Len(csvFile[k]))
    BY <2>1, QuotesOfLine, Zenon
  <2> QED
    BY <1>3, <2>1, <2>2, <2>3, <2>4, Zenon
<1> QED
  BY <1>4, <1>5, Zenon

\* The lines up to which quotes come in pairs.
Paired(k) == {n \in 1 .. k : QuotesTo(n) % 2 = 0}

\* One line more among them, or not.
LEMMA PairedNext ==
  ASSUME csvFile \in Seq(CsvTexts), NEW k \in 1 .. Len(csvFile)
  PROVE  /\ Cardinality(Paired(k - 1)) \in Nat
         /\ Odd(QuotesTo(k)) => Cardinality(Paired(k)) = Cardinality(Paired(k - 1))
         /\ ~ Odd(QuotesTo(k)) => Cardinality(Paired(k)) = Cardinality(Paired(k - 1)) + 1
<1>1. k \in Nat /\ k - 1 \in Nat /\ 1 .. k = (1 .. k - 1) \cup {k} /\ k \notin 1 .. k - 1
  OBVIOUS
<1>2. IsFiniteSet(Paired(k - 1)) /\ k \notin Paired(k - 1)
  <2>1. IsFiniteSet(1 .. k - 1)
    BY <1>1, FS_Interval
  <2>2. Paired(k - 1) \subseteq 1 .. k - 1
    BY DEF Paired
  <2> QED
    BY <1>1, <2>1, <2>2, FS_Subset, Zenon
<1>3. QuotesTo(k) \in Nat
  BY QuotesToNext, Zenon
<1>4. Odd(QuotesTo(k)) => Paired(k) = Paired(k - 1)
  <2>1. Odd(QuotesTo(k)) => ~ (QuotesTo(k) % 2 = 0)
    BY <1>3 DEF Odd
  <2> QED
    BY <1>1, <2>1, Zenon DEF Paired
<1>5. ~ Odd(QuotesTo(k)) => Paired(k) = Paired(k - 1) \cup {k}
  <2>1. ~ Odd(QuotesTo(k)) => QuotesTo(k) % 2 = 0
    BY <1>3, SMT DEF Odd
  <2> HIDE DEF Odd
  <2> QED
    BY <1>1, <2>1, Zenon DEF Paired
<1>6. Cardinality(Paired(k - 1)) \in Nat
  BY <1>2, FS_CardinalityType
<1>7. Cardinality(Paired(k - 1) \cup {k}) = Cardinality(Paired(k - 1)) + 1
  BY <1>2, FS_AddElement
<1> QED
  BY <1>4, <1>5, <1>6, <1>7, Zenon

CsvTypes ==
  /\ csvFile \in Seq(CsvTexts) /\ line \in 0 .. Len(csvFile)
  /\ tokens \in Seq(CsvTexts) /\ sb \in CsvTexts /\ inQuotes \in BOOLEAN
  /\ rows \in Seq(Seq(CsvTexts)) /\ hasNext \in BOOLEAN

\* A quote is open, and as many rows are read, as the numbers of quotes say.
RowsInv ==
  /\ inQuotes <=> Odd(QuotesTo(line))
  /\ Len(rows) = Cardinality(Paired(line))

CsvInv == CsvTypes /\ (hasNext => RowsInv) /\ (~ hasNext => ~ inQuotes)

LEMMA CsvStart == CsvInit => CsvInv
<1> SUFFICES ASSUME CsvInit PROVE CsvInv
  OBVIOUS
<1>1. csvFile \in Seq(CsvTexts)
  <2>1. CASE csvTable \in Tables /\ csvFile = Written(csvTable)
    <3>1. ASSUME NEW k \in Nat, NEW row \in [1 .. k -> Fields] PROVE row \in Seq(CsvTexts)
      <4>1. Fields \subseteq CsvTexts
        BY FieldsAssumption DEF CsvTexts
      <4>2. row \in [1 .. k -> CsvTexts]
        BY <4>1
      <4> QED
        BY <4>2, SeqDef
    <3>2. UNION {[1 .. k -> Fields] : k \in 1 .. MaxFields} \subseteq Seq(CsvTexts)
      BY <3>1
    <3>3. ASSUME NEW set, set \subseteq Seq(CsvTexts), NEW k \in Nat, NEW table \in [1 .. k -> set]
          PROVE  table \in Seq(Seq(CsvTexts))
      <4>1. table \in [1 .. k -> Seq(CsvTexts)]
        BY <3>3
      <4> QED
        BY <4>1, SeqDef
    <3>4. csvTable \in Seq(Seq(CsvTexts))
      BY <2>1, <3>2, <3>3, MaxFieldsAssumption DEF Tables, SeqsTo
    <3> QED
      BY <2>1, <3>4, WrittenType, Zenon
  <2>2. CASE csvFile \in SeqsTo(Lines, MaxLines)
    <3>1. Lines \subseteq CsvTexts
      <4>1. \A l \in Seq(Chars \ {"n"}) : l \in Seq(Chars)
        <5> HIDE DEF Chars
        <5> QED
          OBVIOUS
      <4> QED
        BY <4>1, LinesAssumption DEF CsvTexts
    <3>2. PICK k \in 0 .. MaxLines : csvFile \in [1 .. k -> Lines]
      BY <2>2 DEF SeqsTo
    <3>3. k \in Nat /\ csvFile \in [1 .. k -> CsvTexts]
      BY <3>1, <3>2, LinesAssumption
    <3> QED
      BY <3>3, SeqDef
  <2> QED
    BY <2>1, <2>2 DEF CsvInit
<1>2. CsvTypes
  <2>1. << >> \in Seq(CsvTexts) /\ << >> \in CsvTexts /\ << >> \in Seq(Seq(CsvTexts))
    BY DEF CsvTexts
  <2>2. 0 \in 0 .. Len(csvFile)
    BY <1>1
  <2> QED
    BY <1>1, <2>1, <2>2 DEF CsvInit, CsvTypes
<1>3. RowsInv
  <2>1. QuotesTo(0) = 0 /\ line = 0 /\ ~ inQuotes /\ rows = << >>
    BY <1>1, QuotesToNext, Zenon DEF CsvInit
  <2>2. Paired(0) = {}
    BY DEF Paired
  <2>3. Len(<< >>) = 0 /\ Cardinality({}) = 0
    BY FS_EmptySet
  <2> QED
    BY <2>1, <2>2, <2>3, OddIs, Zenon DEF RowsInv
<1> QED
  BY <1>2, <1>3 DEF CsvInv, CsvInit

\* The file stays as it is, and so do the quotes up to a line.
LEMMA SameFile ==
  ASSUME NEW k, csvFile' = csvFile, line' = k
  PROVE  QuotesTo(line)' = QuotesTo(k) /\ Paired(line)' = Paired(k)
<1>1. ASSUME NEW n PROVE QuotesTo(n)' = QuotesTo(n)
  <2>1. QuotesTo(n)' = QuotesOf(SubSeq(csvFile', 1, n))
    BY Zenon DEF QuotesTo, QuotesOf, FoldLeft, MapThenFoldSet
  <2>2. QuotesTo(n) = QuotesOf(SubSeq(csvFile, 1, n))
    BY Zenon DEF QuotesTo, QuotesOf
  <2> QED
    BY <2>1, <2>2, Zenon
<1>2. QuotesTo(line)' = QuotesTo(k)
  <2>1. QuotesTo(line)' = QuotesOf(SubSeq(csvFile', 1, line'))
    BY Zenon DEF QuotesTo, QuotesOf, FoldLeft, MapThenFoldSet
  <2>2. QuotesTo(k) = QuotesOf(SubSeq(csvFile, 1, k))
    BY Zenon DEF QuotesTo, QuotesOf
  <2> QED
    BY <2>1, <2>2, Zenon
<1>3. Paired(line)' = Paired(k)
  BY <1>1, Zenon DEF Paired
<1> QED
  BY <1>2, <1>3, Zenon

\* A line is read, with or without a quote open before it.
LEMMA LineRead ==
  ASSUME CsvTypes, RowsInv, hasNext, NextLine, UNCHANGED <<csvFile, hasNext>>,
         NEW start \in Parses, start.next = 1, start.quotes = inQuotes,
         Parsed(ParseLine(csvFile[line'], start))
  PROVE  CsvInv'
<1> DEFINE k == line + 1
           text == csvFile[k]
           p == ParseLine(text, start)
           m == QuotesIn(text, Len(text))
<1>1. /\ line' = k /\ k \in 1 .. Len(csvFile) /\ k \in 0 .. Len(csvFile) /\ k - 1 = line
      /\ text \in CsvTexts
      /\ csvFile' = csvFile /\ hasNext' = hasNext
  BY DEF NextLine, CsvTypes
<1>2. p \in Parses /\ (p.quotes <=> ~ (inQuotes <=> Odd(m)))
  <2>1. csvFile[k] \in CsvTexts
    BY <1>1
  <2> QED
    BY <2>1, ParseParity, Zenon
<1>3. QuotesTo(line) \in Nat /\ QuotesTo(k) \in Nat /\ m \in Nat /\ QuotesTo(k) = QuotesTo(line) + m
  <2>1. m \in Nat
    BY <1>1, QuotesOfLine
  <2> QED
    BY <1>1, <2>1, QuotesToNext, Zenon DEF CsvTypes
<1>4. p.quotes <=> Odd(QuotesTo(k))
  <2>1. Odd(QuotesTo(line) + m) <=> ~ (Odd(QuotesTo(line)) <=> Odd(m))
    <3>1. \A a, b \in Nat : Odd(a + b) <=> ~ (Odd(a) <=> Odd(b))
      BY OddIs, Zenon
    <3> HIDE DEF m
    <3> QED
      BY <1>3, <3>1, Zenon
  <2>2. Odd(QuotesTo(k)) <=> ~ (inQuotes <=> Odd(m))
    BY <1>3, <2>1, Zenon DEF RowsInv
  <2> QED
    BY <1>2, <2>2, Zenon
<1>5. Parsed(p)
  BY <1>1, Zenon
<1>6. p.tokens \in Seq(CsvTexts) /\ p.sb \in CsvTexts /\ Append(p.tokens, p.sb) \in Seq(CsvTexts)
  <2>1. p.tokens \in Seq(CsvTexts) /\ p.sb \in CsvTexts
    BY <1>2 DEF Parses
  <2> QED
    BY <2>1, AppendProperties, Zenon
<1>7. QuotesTo(line)' = QuotesTo(k) /\ Paired(line)' = Paired(k)
  BY <1>1, SameFile, Zenon
<1>8. /\ Odd(QuotesTo(k)) => Cardinality(Paired(k)) = Cardinality(Paired(line))
      /\ ~ Odd(QuotesTo(k)) => Cardinality(Paired(k)) = Cardinality(Paired(line)) + 1
  BY <1>1, PairedNext, Zenon DEF CsvTypes
<1> HIDE DEF p, m, k
<1>9. CASE p.quotes
  <2>1. tokens' = p.tokens /\ sb' = p.sb /\ inQuotes' = TRUE /\ rows' = rows
    BY <1>5, <1>9 DEF Parsed
  <2>2. CsvTypes'
    BY <1>1, <1>6, <2>1 DEF CsvTypes
  <2>3. RowsInv'
    BY <1>4, <1>7, <1>8, <1>9, <2>1, Zenon DEF RowsInv, Odd
  <2> QED
    BY <1>1, <2>2, <2>3 DEF CsvInv
<1>10. CASE ~ p.quotes
  <2> DEFINE row == Append(p.tokens, p.sb)
  <2>1. tokens' = << >> /\ sb' = << >> /\ inQuotes' = FALSE /\ rows' = Append(rows, row)
    BY <1>5, <1>10 DEF Parsed
  <2>2. row \in Seq(CsvTexts) /\ rows \in Seq(Seq(CsvTexts))
    BY <1>6 DEF CsvTypes
  <2> HIDE DEF row
  <2>3. Append(rows, row) \in Seq(Seq(CsvTexts)) /\ Len(Append(rows, row)) = Len(rows) + 1
    BY <2>2, AppendProperties
  <2>4. << >> \in Seq(CsvTexts) /\ << >> \in CsvTexts
    BY DEF CsvTexts
  <2>5. CsvTypes'
    BY <1>1, <2>1, <2>3, <2>4 DEF CsvTypes
  <2>6. RowsInv'
    <3>1. Len(rows') = Cardinality(Paired(k))
      BY <1>4, <1>8, <1>10, <2>1, <2>3, Zenon DEF RowsInv
    <3> QED
      BY <1>4, <1>7, <1>10, <2>1, <3>1, Zenon DEF RowsInv, Odd
  <2> QED
    BY <1>1, <2>5, <2>6 DEF CsvInv
<1> QED
  BY <1>9, <1>10

LEMMA CsvStep == CsvInv /\ [CsvNext]_csvVars => CsvInv'
<1> SUFFICES ASSUME CsvInv, [CsvNext]_csvVars PROVE CsvInv'
  OBVIOUS
<1>1. CASE ReadNext
  <2> DEFINE start == [tokens |-> << >>, sb |-> << >>, quotes |-> FALSE, next |-> 1]
  <2>1. start \in Parses /\ start.next = 1 /\ start.quotes = FALSE
    BY DEF Parses, CsvTexts
  <2>2. CsvTypes /\ RowsInv /\ hasNext /\ inQuotes = FALSE
    BY <1>1 DEF CsvInv, CsvTypes, ReadNext
  <2>3. NextLine /\ UNCHANGED <<csvFile, hasNext>> /\ Parsed(ParseLine(csvFile[line'], start))
    BY <1>1, Zenon DEF ReadNext
  <2> HIDE DEF start
  <2> QED
    BY <2>1, <2>2, <2>3, LineRead, Zenon
<1>2. CASE ReadOn
  <2> DEFINE text == Append(sb, "n")
             start == [tokens |-> tokens, sb |-> text, quotes |-> TRUE, next |-> 1]
  <2>1. CsvTypes /\ RowsInv /\ hasNext /\ inQuotes = TRUE
    BY <1>2 DEF CsvInv, CsvTypes, ReadOn
  <2>2. text \in CsvTexts /\ tokens \in Seq(CsvTexts)
    BY <2>1, AppendProperties DEF CsvTypes, CsvTexts, Chars
  <2>3. NextLine /\ UNCHANGED <<csvFile, hasNext>> /\ Parsed(ParseLine(csvFile[line'], start))
    BY <1>2, Zenon DEF ReadOn
  <2> HIDE DEF text
  <2>4. start \in Parses /\ start.next = 1 /\ start.quotes = TRUE
    BY <2>2 DEF Parses
  <2> HIDE DEF start
  <2> QED
    BY <2>1, <2>3, <2>4, LineRead, Zenon
<1>3. CASE EndOfFile
  <2> DEFINE text == Append(sb, "n")
             row == Append(tokens, text)
  <2>1. text \in CsvTexts /\ tokens \in Seq(CsvTexts) /\ rows \in Seq(Seq(CsvTexts))
    BY AppendProperties DEF CsvInv, CsvTypes, CsvTexts, Chars
  <2> HIDE DEF text
  <2>2. row \in Seq(CsvTexts)
    BY <2>1, AppendProperties
  <2> HIDE DEF row
  <2>3. Append(rows, row) \in Seq(Seq(CsvTexts))
    BY <2>1, <2>2, AppendProperties
  <2>4. rows' \in Seq(Seq(CsvTexts))
    BY <1>3, <2>1, <2>3 DEF EndOfFile, row, text
  <2>5. << >> \in Seq(CsvTexts) /\ << >> \in CsvTexts
    BY DEF CsvTexts
  <2> QED
    BY <1>3, <2>4, <2>5 DEF EndOfFile, CsvInv, CsvTypes
<1>4. CASE UNCHANGED csvVars
  <2>1. QuotesTo(line)' = QuotesTo(line) /\ Paired(line)' = Paired(line)
    BY <1>4, SameFile, Zenon DEF csvVars
  <2> QED
    BY <1>4, <2>1 DEF csvVars, CsvInv, CsvTypes, RowsInv
<1> QED
  BY <1>1, <1>2, <1>3, <1>4 DEF CsvNext

\* RowsEndOutsideQuotes, for files of any number of lines of any length: the rows of the
\* reader end with the lines up to which the quotes come in pairs.
THEOREM RowsEndWithPairs == CsvSpec => []RowsEndOutsideQuotes
<1>1. CsvInv => RowsEndOutsideQuotes
  <2> SUFFICES ASSUME CsvInv, hasNext
               PROVE  /\ inQuotes = (QuotesTo(line) % 2 = 1)
                      /\ Len(rows) = Cardinality({n \in 1 .. line : QuotesTo(n) % 2 = 0})
    BY DEF RowsEndOutsideQuotes
  <2>1. inQuotes \in BOOLEAN /\ (inQuotes <=> QuotesTo(line) % 2 = 1)
    BY DEF CsvInv, CsvTypes, RowsInv, Odd
  <2>2. Len(rows) = Cardinality({n \in 1 .. line : QuotesTo(n) % 2 = 0})
    BY Zenon DEF CsvInv, RowsInv, Paired
  <2> QED
    BY <2>1, <2>2
<1> QED
  BY <1>1, CsvStart, CsvStep, PTL DEF CsvSpec
-----------------------------------------------------------------------------
(* A table, as another program writes it: its text, in the parts that are  *)
(* read one after the other.                                               *)

\* The characters of a line, the rows of a table.
Inner == Chars \ {"n"}

CsvRows == Seq(CsvTexts) \ {<< >>}

CharText == [c \in Chars |-> IF c = "q" THEN <<"q", "q">> ELSE <<c>>]

FieldText == [field \in CsvTexts |-> <<",">> \o Quoted(field)]

RowText == [row \in CsvRows |-> Append(Joined(row), "n")]

LineText == [l \in CsvTexts |-> Append(l, "n")]

\* The text of the lines behind the first n.
Behind(file, n) == FlatMap(LineText, SubSeq(file, n + 1, Len(file)))

\* What is behind the end of a row.
RowEnd(left) == <<"n">> \o FlatMap(RowText, left)

\* What is behind a field: the fields of its row, and what is behind the row.
FieldEnd(fields, end) == FlatMap(FieldText, fields) \o end

\* What is left of a field within quotes, and of what is behind it.
Closing(more, fields, end) == FlatMap(CharText, more) \o (<<"q">> \o FieldEnd(fields, end))

\* A row of which the reader has some fields, and of the next one sb.
OfRow(row, ts, s, more, fields) == ts \o (<<s \o more>> \o fields) = row

\* At a place in a row, rest is what is left of its text and of what is behind it: in a
\* field within quotes,
InField(row, end, ts, s, rest) ==
  \E more \in CsvTexts, fields \in Seq(CsvTexts) :
    OfRow(row, ts, s, more, fields) /\ rest = Closing(more, fields, end)

\* in one without them, or behind its quotes,
InPlain(row, end, ts, s, rest) ==
  \E more \in Seq({"x"}), fields \in Seq(CsvTexts) :
    OfRow(row, ts, s, more, fields) /\ rest = more \o FieldEnd(fields, end)

\* and before a field within quotes.
BeforeField(row, end, ts, s, rest) ==
  /\ s = << >>
  /\ \E field \in CsvTexts, fields \in Seq(CsvTexts) :
       OfRow(row, ts, s, field, fields) /\ rest = <<"q">> \o Closing(field, fields, end)

\* What is left of a line, and of what is behind it.
Ahead(text, i, behind) == SubSeq(text, i, Len(text)) \o behind

StartsField(text, i) == i = 1 \/ text[i - 1] = ","

\* parseLine is at a place in the row.  Where a field begins there is a separator before,
\* or nothing.
InRow(row, end, text, behind, p) ==
  LET rest == Ahead(text, p.next, behind)
  IN \/ p.quotes /\ InField(row, end, p.tokens, p.sb, rest)
     \/ ~ p.quotes /\ InPlain(row, end, p.tokens, p.sb, rest)
     \/ /\ ~ p.quotes /\ BeforeField(row, end, p.tokens, p.sb, rest)
        /\ StartsField(text, p.next)

\* Between lines the rows that were read and those of the text behind are the table, or a
\* row is between them of which the line was within a field.
WrittenInv ==
  csvTable # << >> =>
    /\ csvTable \in Seq(CsvRows) /\ csvFile \in Seq(Seq(Inner))
    /\ hasNext /\ ~ inQuotes =>
         \E left \in Seq(CsvRows) :
           rows \o left = csvTable /\ Behind(csvFile, line) = FlatMap(RowText, left)
    /\ hasNext /\ inQuotes =>
         \E row \in CsvRows, left \in Seq(CsvRows) :
           /\ rows \o (<<row>> \o left) = csvTable
           /\ InField(row, RowEnd(left), tokens, Append(sb, "n"), Behind(csvFile, line))
    /\ ~ hasNext => rows = csvTable

\* What the parts of a text are.
LEMMA PartTypes ==
  /\ CharText \in [Chars -> Seq(Chars)] /\ FieldText \in [CsvTexts -> Seq(Chars)]
  /\ RowText \in [CsvRows -> Seq(Chars)] /\ LineText \in [CsvTexts -> Seq(Chars)]
<1>1. {"q", ",", "n"} \subseteq Chars
  BY DEF Chars
<1>2. ASSUME NEW c \in Chars
      PROVE  (IF c = "q" THEN <<"q", "q">> ELSE <<c>>) \in Seq(Chars)
  BY <1>1, CharTexts, Zenon DEF CsvTexts
<1>3. ASSUME NEW field \in CsvTexts PROVE <<",">> \o Quoted(field) \in Seq(Chars)
  <2>1. <<",">> \in Seq(Chars) /\ Quoted(field) \in Seq(Chars)
    BY <1>1, CharTexts, QuotedType, Zenon DEF CsvTexts
  <2> QED
    BY <2>1, ConcatProperties, Zenon
<1>4. ASSUME NEW row \in CsvRows PROVE Append(Joined(row), "n") \in Seq(Chars)
  <2>1. Joined(row) \in Seq(Chars)
    BY JoinedType, Zenon DEF CsvRows, CsvTexts
  <2> QED
    BY <1>1, <2>1, AppendProperties, Zenon
<1>5. ASSUME NEW l \in CsvTexts PROVE Append(l, "n") \in Seq(Chars)
  BY <1>1, AppendProperties, Zenon DEF CsvTexts
<1>6. CharText \in [Chars -> Seq(Chars)]
  BY <1>2, Zenon DEF CharText
<1>7. FieldText \in [CsvTexts -> Seq(Chars)]
  BY <1>3, Zenon DEF FieldText
<1>8. RowText \in [CsvRows -> Seq(Chars)]
  BY <1>4, Zenon DEF RowText
<1>9. LineText \in [CsvTexts -> Seq(Chars)]
  BY <1>5, Zenon DEF LineText
<1> QED
  BY <1>6, <1>7, <1>8, <1>9

\* A field with its quotes doubled, the rest of a row, rows, and lines: their texts, and
\* what is first in them.
LEMMA TextsBegin ==
  /\ \A s \in CsvTexts :
       /\ FlatMap(CharText, s) \in CsvTexts
       /\ s # << >> => FlatMap(CharText, s) = CharText[Head(s)] \o FlatMap(CharText, Tail(s))
  /\ \A s \in Seq(CsvTexts) :
       /\ FlatMap(FieldText, s) \in CsvTexts
       /\ s # << >> => FlatMap(FieldText, s) = FieldText[Head(s)] \o FlatMap(FieldText, Tail(s))
  /\ \A s \in Seq(CsvRows) :
       /\ FlatMap(RowText, s) \in CsvTexts
       /\ s # << >> => FlatMap(RowText, s) = RowText[Head(s)] \o FlatMap(RowText, Tail(s))
  /\ \A s \in Seq(CsvTexts) :
       /\ FlatMap(LineText, s) \in CsvTexts
       /\ s # << >> => FlatMap(LineText, s) = LineText[Head(s)] \o FlatMap(LineText, Tail(s))
<1>1. ASSUME NEW X, NEW f \in [X -> Seq(Chars)], NEW s \in Seq(X)
      PROVE  /\ FlatMap(f, s) \in Seq(Chars)
             /\ s # << >> => FlatMap(f, s) = f[Head(s)] \o FlatMap(f, Tail(s))
  <2> HIDE DEF Chars
  <2> QED
    BY FlatMapIs, SMTT(40)
<1>2. \A s \in Seq(Chars) :
        /\ FlatMap(CharText, s) \in Seq(Chars)
        /\ s # << >> => FlatMap(CharText, s) = CharText[Head(s)] \o FlatMap(CharText, Tail(s))
  BY <1>1, PartTypes, Zenon
<1>3. \A s \in Seq(CsvTexts) :
        /\ FlatMap(FieldText, s) \in Seq(Chars)
        /\ s # << >> => FlatMap(FieldText, s) = FieldText[Head(s)] \o FlatMap(FieldText, Tail(s))
  BY <1>1, PartTypes, Zenon
<1>4. \A s \in Seq(CsvRows) :
        /\ FlatMap(RowText, s) \in Seq(Chars)
        /\ s # << >> => FlatMap(RowText, s) = RowText[Head(s)] \o FlatMap(RowText, Tail(s))
  BY <1>1, PartTypes, Zenon
<1>5. \A s \in Seq(CsvTexts) :
        /\ FlatMap(LineText, s) \in Seq(Chars)
        /\ s # << >> => FlatMap(LineText, s) = LineText[Head(s)] \o FlatMap(LineText, Tail(s))
  BY <1>1, PartTypes, Zenon
<1> QED
  BY <1>2, <1>3, <1>4, <1>5, Zenon DEF CsvTexts

\* A field is written as it is, or between quotes.
LEMMA QuotedIs ==
  ASSUME NEW field \in CsvTexts
  PROVE  \/ field \in Seq({"x"}) /\ Quoted(field) = field
         \/ Quoted(field) = <<"q">> \o (FlatMap(CharText, field) \o <<"q">>)
<1>1. DOMAIN field = 1 .. Len(field) /\ Len(field) \in Nat /\ \A i \in DOMAIN field : field[i] \in Chars
  BY DEF CsvTexts
<1>2. CASE \A i \in DOMAIN field : field[i] = "x"
  <2>1. field \in Seq({"x"})
    <3>1. field \in [1 .. Len(field) -> {"x"}]
      BY <1>1, <1>2 DEF CsvTexts
    <3> QED
      BY <1>1, <3>1, SeqDef
  <2> QED
    BY <1>2, <2>1, Zenon DEF Quoted
<1>3. CASE ~ \A i \in DOMAIN field : field[i] = "x"
  <2>1. Quoted(field) = (<<"q">> \o Doubled(field)) \o <<"q">>
    BY <1>3, Zenon DEF Quoted
  <2>2. Doubled(field) = FlatMap(CharText, field)
    <3>1. [i \in DOMAIN field |-> IF field[i] = "q" THEN <<"q", "q">> ELSE <<field[i]>>]
          = [i \in DOMAIN field |-> CharText[field[i]]]
      <4>1. \A i \in DOMAIN field : CharText[field[i]] = IF field[i] = "q" THEN <<"q", "q">> ELSE <<field[i]>>
        BY <1>1, Zenon DEF CharText
      <4> QED
        BY <4>1, Zenon
    <3> QED
      BY <3>1, Zenon DEF Doubled, FlatMap
  <2>3. <<"q">> \in Seq(Chars) /\ FlatMap(CharText, field) \in Seq(Chars)
    <3>1. "q" \in Chars
      BY DEF Chars
    <3> QED
      BY <3>1, CharTexts, TextsBegin, Zenon DEF CsvTexts
  <2>4. Regroups(<<"q">>, FlatMap(CharText, field), <<"q">>)
    BY <2>3, Regroup, Zenon
  <2> QED
    BY <2>1, <2>2, <2>4, Zenon DEF Regroups
<1> QED
  BY <1>2, <1>3

\* A row is its first field, and the others each behind a separator.
LEMMA JoinedIs ==
  ASSUME NEW row \in CsvRows
  PROVE  /\ Head(row) \in CsvTexts /\ Tail(row) \in Seq(CsvTexts) /\ row = <<Head(row)>> \o Tail(row)
         /\ Joined(row) = Quoted(Head(row)) \o FlatMap(FieldText, Tail(row))
<1> DEFINE pieces == [k \in DOMAIN row |-> IF k = 1 THEN Quoted(row[k]) ELSE <<",">> \o Quoted(row[k])]
<1>1. row \in Seq(CsvTexts) /\ row # << >>
  BY DEF CsvRows
<1>2. /\ Head(row) \in CsvTexts /\ Tail(row) \in Seq(CsvTexts) /\ Head(row) = row[1]
      /\ DOMAIN row = 1 .. Len(row) /\ Len(row) \in Nat /\ Len(row) # 0
      /\ Len(Tail(row)) = Len(row) - 1 /\ \A k \in 1 .. Len(Tail(row)) : Tail(row)[k] = row[k + 1]
      /\ DOMAIN Tail(row) = 1 .. Len(row) - 1
      /\ row = <<Head(row)>> \o Tail(row)
      /\ \A k \in DOMAIN row : row[k] \in CsvTexts
  <2>1. Len(row) \in Nat /\ Len(row) # 0 /\ \A k \in DOMAIN row : row[k] \in CsvTexts
    BY <1>1
  <2>2. row = <<Head(row)>> \o Tail(row)
    BY <1>1
  <2>3. DOMAIN row = 1 .. Len(row) /\ Head(row) = row[1]
    BY <1>1
  <2>4. /\ Head(row) \in CsvTexts /\ Tail(row) \in Seq(CsvTexts)
        /\ Len(Tail(row)) = Len(row) - 1 /\ \A k \in 1 .. Len(Tail(row)) : Tail(row)[k] = row[k + 1]
    BY <1>1, HeadTailProperties, Zenon
  <2>5. DOMAIN Tail(row) = 1 .. Len(row) - 1
    BY <2>4, LenProperties, Zenon
  <2> QED
    BY <2>1, <2>2, <2>3, <2>4, <2>5
<1>3. ASSUME NEW k \in DOMAIN row
      PROVE  Quoted(row[k]) \in Seq(Chars) /\ <<",">> \o Quoted(row[k]) \in Seq(Chars)
  <2>1. row[k] \in CsvTexts
    BY <1>2
  <2>2. FieldText[row[k]] = <<",">> \o Quoted(row[k]) /\ FieldText[row[k]] \in Seq(Chars)
    BY <2>1, PartTypes, Zenon DEF FieldText
  <2> QED
    BY <2>1, <2>2, QuotedType, Zenon DEF CsvTexts
<1>4. /\ pieces \in Seq(Seq(Chars)) /\ Len(pieces) = Len(row) /\ pieces[1] = Quoted(row[1])
      /\ \A k \in 1 .. Len(row) - 1 : pieces[k + 1] = <<",">> \o Quoted(row[k + 1])
  <2>1. \A k \in 1 .. Len(row) : pieces[k] \in Seq(Chars)
    BY <1>2, <1>3, Zenon
  <2>2. pieces \in [1 .. Len(row) -> Seq(Chars)]
    <3>1. pieces = [k \in 1 .. Len(row) |-> pieces[k]]
      BY <1>2, Zenon
    <3> HIDE DEF pieces
    <3> QED
      BY <2>1, <3>1
  <2>3. pieces[1] = Quoted(row[1])
    <3>1. 1 \in DOMAIN row
      BY <1>2
    <3> QED
      BY <3>1, Zenon
  <2>4. \A k \in 1 .. Len(row) - 1 : pieces[k + 1] = <<",">> \o Quoted(row[k + 1])
    <3>1. \A k \in 1 .. Len(row) - 1 : k + 1 \in DOMAIN row /\ k + 1 # 1
      BY <1>2
    <3> QED
      BY <3>1, Zenon
  <2> HIDE DEF pieces
  <2>5. pieces \in Seq(Seq(Chars))
    BY <1>2, <2>2, SeqDef
  <2>6. Len(pieces) = Len(row)
    BY <1>2, <2>2, <2>5, LenProperties
  <2> QED
    BY <2>3, <2>4, <2>5, <2>6, Zenon
<1>5. Joined(row) = FlattenSeq(pieces)
  BY Zenon DEF Joined
<1> HIDE DEF pieces
<1>6. pieces # << >> /\ Head(pieces) = Quoted(Head(row))
  <2>1. pieces # << >>
    BY <1>2, <1>4, EmptySeq
  <2>2. Head(pieces) = pieces[1]
    <3>1. ASSUME NEW S, NEW s \in Seq(S), s # << >> PROVE Head(s) = s[1]
      BY <3>1
    <3> QED
      BY <1>4, <2>1, <3>1, Zenon
  <2> QED
    BY <1>2, <1>4, <2>1, <2>2, Zenon
<1>7. Tail(pieces) = [k \in DOMAIN Tail(row) |-> FieldText[Tail(row)[k]]]
  <2>1. /\ Tail(pieces) \in Seq(Seq(Chars)) /\ Len(Tail(pieces)) = Len(row) - 1
        /\ \A k \in 1 .. Len(Tail(pieces)) : Tail(pieces)[k] = pieces[k + 1]
    BY <1>4, <1>6, HeadTailProperties
  <2>2. Tail(pieces) = [k \in 1 .. Len(row) - 1 |-> Tail(pieces)[k]]
    <3>1. Tail(pieces) \in [1 .. Len(row) - 1 -> Seq(Chars)]
      BY <2>1, LenProperties
    <3> QED
      BY <3>1
  <2>3. \A k \in 1 .. Len(row) - 1 : Tail(pieces)[k] = FieldText[Tail(row)[k]]
    <3>1. \A k \in 1 .. Len(row) - 1 : Tail(pieces)[k] = <<",">> \o Quoted(Tail(row)[k])
      BY <1>2, <1>4, <2>1, Zenon
    <3>2. \A k \in 1 .. Len(row) - 1 : Tail(row)[k] \in CsvTexts
      BY <1>2, ElementOfSeq
    <3> QED
      BY <3>1, <3>2, Zenon DEF FieldText
  <2> QED
    BY <1>2, <2>2, <2>3, Zenon
<1>8. FlattenSeq(pieces) = Head(pieces) \o FlattenSeq(Tail(pieces))
  BY <1>4, <1>6, FlattenFirst, Zenon
<1> QED
  BY <1>2, <1>5, <1>6, <1>7, <1>8, Zenon DEF FlatMap

-----------------------------------------------------------------------------
(* Where a reader of a row is.                                             *)

\* What is behind a field begins with a separator or is what is behind the row.
LEMMA FieldEndIs ==
  ASSUME NEW fields \in Seq(CsvTexts), NEW end \in CsvTexts
  PROVE  /\ FieldEnd(fields, end) \in CsvTexts
         /\ fields = << >> => FieldEnd(fields, end) = end
         /\ fields # << >> =>
              /\ Head(fields) \in CsvTexts /\ Tail(fields) \in Seq(CsvTexts)
              /\ FieldEnd(fields, end) = <<",">> \o (Quoted(Head(fields)) \o FieldEnd(Tail(fields), end))
<1>1. end \in Seq(Chars) /\ FlatMap(FieldText, fields) \in Seq(Chars)
  BY TextsBegin, Zenon DEF CsvTexts
<1>2. FieldEnd(fields, end) \in CsvTexts
  BY <1>1, ConcatProperties, Zenon DEF FieldEnd, CsvTexts
<1>3. ASSUME fields = << >> PROVE FieldEnd(fields, end) = end
  <2>1. FlatMap(FieldText, fields) = << >>
    BY <1>3, FlatMapNone, Zenon
  <2>2. << >> \o end = end
    BY <1>1, ConcatEmptySeq, Zenon
  <2> QED
    BY <2>1, <2>2, Zenon DEF FieldEnd
<1>4. ASSUME fields # << >>
      PROVE  /\ Head(fields) \in CsvTexts /\ Tail(fields) \in Seq(CsvTexts)
             /\ FieldEnd(fields, end) = <<",">> \o (Quoted(Head(fields)) \o FieldEnd(Tail(fields), end))
  <2> DEFINE field == Quoted(Head(fields))
             others == FlatMap(FieldText, Tail(fields))
  <2>1. Head(fields) \in CsvTexts /\ Tail(fields) \in Seq(CsvTexts)
    BY <1>4, HeadTailProperties, Zenon
  <2>2. FlatMap(FieldText, fields) = (<<",">> \o field) \o others
    BY <1>4, <2>1, TextsBegin, Zenon DEF FieldText
  <2>3. <<",">> \in Seq(Chars) /\ field \in Seq(Chars) /\ others \in Seq(Chars)
    <3>1. "," \in Chars
      BY DEF Chars
    <3> QED
      BY <2>1, <3>1, CharTexts, QuotedType, TextsBegin, Zenon DEF CsvTexts
  <2> HIDE DEF field, others
  <2>4. <<",">> \o field \in Seq(Chars) /\ others \o end \in Seq(Chars)
    BY <1>1, <2>3, ConcatProperties, Zenon
  <2>5. Regroups(<<",">> \o field, others, end) /\ Regroups(<<",">>, field, others \o end)
    BY <1>1, <2>3, <2>4, Regroup, Zenon
  <2>6. FieldEnd(fields, end) = <<",">> \o (field \o (others \o end))
    BY <2>2, <2>5, Zenon DEF FieldEnd, Regroups
  <2> QED
    BY <2>1, <2>6, Zenon DEF FieldEnd, field, others
<1> QED
  BY <1>2, <1>3, <1>4, Zenon

\* What is left of a field within quotes is a character of it, or the quote that closes it.
LEMMA ClosingIs ==
  ASSUME NEW more \in CsvTexts, NEW fields \in Seq(CsvTexts), NEW end \in CsvTexts
  PROVE  /\ Closing(more, fields, end) \in CsvTexts
         /\ more = << >> => Closing(more, fields, end) = <<"q">> \o FieldEnd(fields, end)
         /\ more # << >> =>
              /\ Head(more) \in Chars /\ Tail(more) \in CsvTexts
              /\ Closing(more, fields, end) = CharText[Head(more)] \o Closing(Tail(more), fields, end)
<1> DEFINE quote == <<"q">> \o FieldEnd(fields, end)
<1>1. quote \in Seq(Chars) /\ FlatMap(CharText, more) \in Seq(Chars)
  <2>1. "q" \in Chars
    BY DEF Chars
  <2> QED
    BY <2>1, CharTexts, FieldEndIs, TextsBegin, ConcatProperties, Zenon DEF CsvTexts
<1>2. Closing(more, fields, end) = FlatMap(CharText, more) \o quote
  BY Zenon DEF Closing
<1> HIDE DEF quote
<1>3. Closing(more, fields, end) \in CsvTexts
  BY <1>1, <1>2, ConcatProperties, Zenon DEF CsvTexts
<1>4. ASSUME more = << >> PROVE Closing(more, fields, end) = quote
  <2>1. FlatMap(CharText, more) = << >>
    BY <1>4, FlatMapNone, Zenon
  <2>2. << >> \o quote = quote
    BY <1>1, ConcatEmptySeq, Zenon
  <2> QED
    BY <1>2, <2>1, <2>2, Zenon
<1>5. ASSUME more # << >>
      PROVE  /\ Head(more) \in Chars /\ Tail(more) \in CsvTexts
             /\ Closing(more, fields, end) = CharText[Head(more)] \o Closing(Tail(more), fields, end)
  <2>1. Head(more) \in Chars /\ Tail(more) \in CsvTexts
    BY <1>5, HeadTailProperties, Zenon DEF CsvTexts
  <2>2. FlatMap(CharText, more) = CharText[Head(more)] \o FlatMap(CharText, Tail(more))
    BY <1>5, TextsBegin, Zenon
  <2>3. CharText[Head(more)] \in Seq(Chars) /\ FlatMap(CharText, Tail(more)) \in Seq(Chars)
    BY <2>1, PartTypes, TextsBegin, Zenon DEF CsvTexts
  <2>4. Regroups(CharText[Head(more)], FlatMap(CharText, Tail(more)), quote)
    BY <1>1, <2>3, Regroup, Zenon
  <2>5. Closing(Tail(more), fields, end) = FlatMap(CharText, Tail(more)) \o quote
    BY Zenon DEF Closing, quote
  <2> QED
    BY <1>2, <2>1, <2>2, <2>4, <2>5, Zenon DEF Regroups
<1> QED
  BY <1>3, <1>4, <1>5, Zenon DEF quote

\* A character of the field is read,
LEMMA OfRowChar ==
  ASSUME NEW row, NEW ts \in Seq(CsvTexts), NEW s \in CsvTexts, NEW more \in CsvTexts, more # << >>,
         NEW fields, OfRow(row, ts, s, more, fields)
  PROVE  OfRow(row, ts, Append(s, Head(more)), Tail(more), fields)
<1>1. s \o more = Append(s, Head(more)) \o Tail(more)
  BY MoveHead, Zenon DEF CsvTexts
<1> QED
  BY <1>1, Zenon DEF OfRow

\* or it has none left and there is another one,
LEMMA OfRowField ==
  ASSUME NEW row, NEW ts \in Seq(CsvTexts), NEW s \in CsvTexts,
         NEW fields \in Seq(CsvTexts), fields # << >>, OfRow(row, ts, s, << >>, fields)
  PROVE  OfRow(row, Append(ts, s), << >>, Head(fields), Tail(fields))
<1>1. s \o << >> = s /\ Head(fields) \in CsvTexts /\ << >> \o Head(fields) = Head(fields)
  <2>1. Head(fields) \in Seq(Chars) /\ s \in Seq(Chars)
    BY HeadTailProperties, Zenon DEF CsvTexts
  <2> QED
    BY <2>1, ConcatEmptySeq, Zenon DEF CsvTexts
<1> DEFINE d == <<s>> \o fields
<1>2. d \in Seq(CsvTexts) /\ d # << >> /\ Head(d) = s /\ Tail(d) = fields
  <2> HIDE DEF CsvTexts
  <2>1. <<s>> \in Seq(CsvTexts) /\ <<s>> # << >> /\ Head(<<s>>) = s /\ Tail(<<s>>) = << >>
    OBVIOUS
  <2>2. << >> \o fields = fields
    BY ConcatEmptySeq, Zenon
  <2>3. /\ d \in Seq(CsvTexts) /\ d # << >>
        /\ Head(d) = Head(<<s>>) /\ Tail(d) = Tail(<<s>>) \o fields
    BY <2>1, HeadOfConcat
  <2> QED
    BY <2>1, <2>2, <2>3, Zenon
<1> HIDE DEF d
<1>3. ts \o d = Append(ts, s) \o fields
  <2>1. ts \o d = Append(ts, Head(d)) \o Tail(d)
    BY <1>2, MoveHead
  <2> QED
    BY <1>2, <2>1, Zenon
<1>4. fields = <<Head(fields)>> \o Tail(fields)
  <2> HIDE DEF CsvTexts
  <2> QED
    BY HeadOfConcat
<1> QED
  BY <1>1, <1>3, <1>4, Zenon DEF OfRow, d

\* or there is no other.
LEMMA OfRowEnd ==
  ASSUME NEW row, NEW ts \in Seq(CsvTexts), NEW s \in CsvTexts, OfRow(row, ts, s, << >>, << >>)
  PROVE  Append(ts, s) = row
<1>1. s \o << >> = s
  BY ConcatEmptySeq, Zenon DEF CsvTexts
<1>2. ts \o (<<s>> \o << >>) = Append(ts, s)
  <2> HIDE DEF CsvTexts
  <2> QED
    OBVIOUS
<1> QED
  BY <1>1, <1>2, Zenon DEF OfRow

\* Where a field begins, its text is that of a field within quotes or without them.
LEMMA FieldBegins ==
  ASSUME NEW row, NEW ts, NEW field \in CsvTexts, NEW fields \in Seq(CsvTexts), NEW end \in CsvTexts,
         OfRow(row, ts, << >>, field, fields)
  PROVE  LET rest == Quoted(field) \o FieldEnd(fields, end)
         IN InPlain(row, end, ts, << >>, rest) \/ BeforeField(row, end, ts, << >>, rest)
<1> DEFINE rest == Quoted(field) \o FieldEnd(fields, end)
           doubled == FlatMap(CharText, field)
           after == FieldEnd(fields, end)
<1>1. CASE field \in Seq({"x"}) /\ Quoted(field) = field
  <2>1. rest = field \o FieldEnd(fields, end)
    BY <1>1, Zenon
  <2> HIDE DEF rest
  <2>2. InPlain(row, end, ts, << >>, rest)
    BY <1>1, <2>1, Zenon DEF InPlain
  <2> QED
    BY <2>2, Zenon DEF rest
<1>2. CASE Quoted(field) = <<"q">> \o (FlatMap(CharText, field) \o <<"q">>)
  <2>1. <<"q">> \in Seq(Chars) /\ doubled \in Seq(Chars) /\ after \in Seq(Chars)
    <3>1. "q" \in Chars
      BY DEF Chars
    <3> QED
      BY <3>1, CharTexts, TextsBegin, FieldEndIs, Zenon DEF CsvTexts
  <2>2. rest = (<<"q">> \o (doubled \o <<"q">>)) \o after
    BY <1>2, Zenon
  <2> HIDE DEF rest, doubled, after
  <2>3. doubled \o <<"q">> \in Seq(Chars)
    BY <2>1, ConcatProperties, Zenon
  <2>4. Regroups(<<"q">>, doubled \o <<"q">>, after) /\ Regroups(doubled, <<"q">>, after)
    BY <2>1, <2>3, Regroup, Zenon
  <2>5. rest = <<"q">> \o Closing(field, fields, end)
    BY <2>2, <2>4, Zenon DEF Regroups, Closing, doubled, after
  <2>6. BeforeField(row, end, ts, << >>, rest)
    BY <2>5, Zenon DEF BeforeField
  <2> QED
    BY <2>6, Zenon DEF rest
<1> QED
  BY <1>1, <1>2, QuotedIs, Zenon

-----------------------------------------------------------------------------
(* parseLine in a row that was written.                                    *)

\* A text with one more character before it.
LEMMA OneMore ==
  ASSUME NEW c \in Chars, NEW s \in CsvTexts
  PROVE  <<c>> \o s \in CsvTexts /\ <<c>> \o s # << >> /\ Head(<<c>> \o s) = c /\ Tail(<<c>> \o s) = s
<1>1. <<c>> \in Seq(Chars) /\ <<c>> # << >> /\ Head(<<c>>) = c /\ Tail(<<c>>) = << >>
  <2> HIDE DEF Chars
  <2> QED
    OBVIOUS
<1>2. << >> \o s = s
  BY ConcatEmptySeq, Zenon DEF CsvTexts
<1> HIDE DEF Chars
<1> QED
  BY <1>1, <1>2, HeadOfConcat DEF CsvTexts

\* What is behind a row: the end of its line.
Ended(s) == s \in CsvTexts /\ s # << >> /\ Head(s) = "n"

\* The characters of a line, and then its end.
LEMMA AheadIs ==
  ASSUME NEW text \in Seq(Inner), NEW behind, Ended(behind)
  PROVE  /\ text \in CsvTexts
         /\ Ahead(text, Len(text) + 1, behind) = behind
         /\ \A i \in 1 .. Len(text) : /\ text[i] \in Inner
                                      /\ Head(Ahead(text, i, behind)) = text[i]
                                      /\ Tail(Ahead(text, i, behind)) = Ahead(text, i + 1, behind)
<1>1. text \in CsvTexts /\ Len(text) \in Nat /\ behind \in Seq(Chars)
  <2>1. Inner \subseteq Chars
    BY DEF Inner
  <2> HIDE DEF Inner, Chars
  <2> QED
    BY <2>1 DEF CsvTexts, Ended
<1>2. SubSeq(text, Len(text) + 1, Len(text)) = << >> /\ << >> \o behind = behind
  <2>1. Len(text) < Len(text) + 1
    BY <1>1
  <2> QED
    BY <1>1, <2>1, SubSeqEmpty, ConcatEmptySeq
<1>3. ASSUME NEW i \in 1 .. Len(text)
      PROVE  /\ text[i] \in Inner
             /\ Head(Ahead(text, i, behind)) = text[i]
             /\ Tail(Ahead(text, i, behind)) = Ahead(text, i + 1, behind)
  <2> DEFINE part == SubSeq(text, i, Len(text))
  <2>1. text[i] \in Inner
    <3> HIDE DEF Inner
    <3> QED
      BY ElementOfSeq
  <2>2. /\ part \in Seq(Chars) /\ part # << >>
        /\ Head(part) = text[i] /\ Tail(part) = SubSeq(text, i + 1, Len(text))
    <3>1. Head(part) = text[i] /\ Tail(part) = SubSeq(text, i + 1, Len(text))
      <4>1. text \in Seq(Chars) /\ Len(text) \in i .. Len(text)
        BY <1>1 DEF CsvTexts
      <4> QED
        BY <4>1, HeadTailOfSubSeq, Zenon
    <3>2. part \in Seq(Chars) /\ Len(part) # 0
      <4>1. \A k \in i .. Len(text) : text[k] \in Chars
        BY <1>1 DEF CsvTexts
      <4>2. i <= Len(text) /\ Len(text) - i + 1 # 0 /\ i \in Int /\ Len(text) \in Int
        BY <1>1
      <4> QED
        BY <4>1, <4>2, SubSeqProperties
    <3> HIDE DEF part
    <3>3. part # << >>
      BY <3>2, EmptySeq
    <3> QED
      BY <3>1, <3>2, <3>3
  <2> HIDE DEF part
  <2>3. Head(part \o behind) = Head(part) /\ Tail(part \o behind) = Tail(part) \o behind
    BY <1>1, <2>2, HeadOfConcat
  <2> QED
    BY <2>1, <2>2, <2>3, Zenon DEF Ahead, part
<1> QED
  BY <1>1, <1>2, <1>3, Zenon DEF Ahead

\* parseLine has gone on, and is in the row.
LEMMA InRowIs ==
  ASSUME NEW row, NEW end, NEW text, NEW behind, NEW r, NEW t, NEW s, NEW q \in BOOLEAN, NEW n,
         Gives(r, t, s, q, n)
  PROVE  /\ q /\ InField(row, end, t, s, Ahead(text, n, behind)) => InRow(row, end, text, behind, r)
         /\ ~ q /\ InPlain(row, end, t, s, Ahead(text, n, behind)) => InRow(row, end, text, behind, r)
         /\ ~ q /\ BeforeField(row, end, t, s, Ahead(text, n, behind)) /\ StartsField(text, n) =>
              InRow(row, end, text, behind, r)
<1>1. r.tokens = t /\ r.sb = s /\ r.quotes = q /\ r.next = n
  BY Zenon DEF Gives
<1> QED
  BY <1>1, Zenon DEF InRow

\* What is fixed while a line of a row is parsed.
LineOf(end, text, behind) == Ended(end) /\ Ended(behind) /\ text \in Seq(Inner)

\* Within quotes: a quote of the field is two, and the one that is not closes it.
LEMMA FieldRead ==
  ASSUME NEW row, NEW end, NEW text, NEW behind, LineOf(end, text, behind),
         NEW p \in Parses, NEW i \in 1 .. Len(text), i = p.next,
         p.quotes, InField(row, end, p.tokens, p.sb, Ahead(text, i, behind))
  PROVE  InRow(row, end, text, behind, ParseChar(text, p))
<1> DEFINE r == ParseChar(text, p)
           rest == Ahead(text, i, behind)
<1>1. PICK more \in CsvTexts, fields \in Seq(CsvTexts) :
        OfRow(row, p.tokens, p.sb, more, fields) /\ rest = Closing(more, fields, end)
  BY Zenon DEF InField
<1>2. /\ text \in CsvTexts /\ end \in CsvTexts /\ Ended(end) /\ Ended(behind) /\ text \in Seq(Inner)
      /\ p.tokens \in Seq(CsvTexts) /\ p.sb \in CsvTexts /\ p.quotes = TRUE /\ Len(text) \in Nat
      /\ text[i] \in Inner /\ Head(rest) = text[i] /\ Tail(rest) = Ahead(text, i + 1, behind)
  <2>1. Ended(end) /\ Ended(behind) /\ text \in Seq(Inner) /\ end \in CsvTexts
    BY DEF LineOf, Ended
  <2>2. p.tokens \in Seq(CsvTexts) /\ p.sb \in CsvTexts /\ p.quotes = TRUE /\ Len(text) \in Nat
    BY DEF Parses
  <2>3. /\ text \in CsvTexts
        /\ text[i] \in Inner /\ Head(Ahead(text, i, behind)) = text[i]
        /\ Tail(Ahead(text, i, behind)) = Ahead(text, i + 1, behind)
    BY <2>1, AheadIs
  <2> QED
    BY <2>1, <2>2, <2>3, Zenon
<1>3. i < Len(text) => /\ i + 1 \in 1 .. Len(text) /\ text[i + 1] \in Inner
                       /\ text[i + 1] = Head(Ahead(text, i + 1, behind))
                       /\ Tail(Ahead(text, i + 1, behind)) = Ahead(text, i + 2, behind)
  <2>1. i < Len(text) => i + 1 \in 1 .. Len(text) /\ (i + 1) + 1 = i + 2
    BY <1>2
  <2> QED
    BY <1>2, <2>1, AheadIs, SMTT(40)
<1>4. i >= Len(text) => Head(Ahead(text, i + 1, behind)) = "n"
  <2>1. i >= Len(text) => i = Len(text)
    BY <1>2
  <2> QED
    BY <1>2, <2>1, AheadIs, Zenon DEF Ended
<1> HIDE DEF rest, r
<1>5. ASSUME more # << >>, Head(more) = "q" PROVE InRow(row, end, text, behind, r)
  <2> DEFINE z == Closing(Tail(more), fields, end)
  <2>1. z \in CsvTexts /\ rest = <<"q", "q">> \o z /\ "q" \in Chars /\ Tail(more) \in CsvTexts
    BY <1>1, <1>2, <1>5, ClosingIs, Zenon DEF CharText
  <2> HIDE DEF z
  <2>2. Head(rest) = "q" /\ Tail(rest) = <<"q">> \o z
    BY <2>1, HeadOfConcat DEF CsvTexts
  <2>3. Head(Tail(rest)) = "q" /\ Tail(Tail(rest)) = z
    BY <2>1, <2>2, OneMore, Zenon
  <2>4. i < Len(text) /\ text[i] = "q" /\ text[i + 1] = "q" /\ Ahead(text, i + 2, behind) = z
    <3>1. Head(Ahead(text, i + 1, behind)) = "q" /\ "q" # "n"
      BY <1>2, <2>3
    <3>2. i < Len(text)
      BY <1>2, <1>4, <3>1
    <3> QED
      BY <1>2, <1>3, <2>2, <2>3, <3>2, Zenon
  <2>5. Gives(r, p.tokens, Append(p.sb, "q"), TRUE, i + 2)
    <3>1. EscapedAt(text, i, p)
      BY <2>4, Zenon DEF EscapedAt
    <3> QED
      BY <1>2, <3>1, ParseCharIs, Zenon DEF r
  <2>6. OfRow(row, p.tokens, Append(p.sb, "q"), Tail(more), fields)
    BY <1>1, <1>2, <1>5, OfRowChar, Zenon
  <2>7. InField(row, end, p.tokens, Append(p.sb, "q"), Ahead(text, i + 2, behind))
    BY <2>1, <2>4, <2>6, Zenon DEF InField, z
  <2> QED
    BY <2>5, <2>7, InRowIs, Zenon
<1>6. ASSUME more # << >>, Head(more) # "q" PROVE InRow(row, end, text, behind, r)
  <2> DEFINE z == Closing(Tail(more), fields, end)
             c == Head(more)
  <2>1. z \in CsvTexts /\ rest = <<c>> \o z /\ c \in Chars /\ Tail(more) \in CsvTexts
    BY <1>1, <1>2, <1>6, ClosingIs, Zenon DEF CharText
  <2> HIDE DEF z
  <2>2. text[i] = c /\ Ahead(text, i + 1, behind) = z
    BY <1>2, <2>1, OneMore, Zenon
  <2>5. Gives(r, p.tokens, Append(p.sb, c), TRUE, i + 1)
    BY <1>2, <1>6, <2>2, ParseCharIs, Zenon DEF r
  <2>6. OfRow(row, p.tokens, Append(p.sb, c), Tail(more), fields)
    BY <1>1, <1>2, <1>6, OfRowChar, Zenon
  <2>7. InField(row, end, p.tokens, Append(p.sb, c), Ahead(text, i + 1, behind))
    BY <2>1, <2>2, <2>6, Zenon DEF InField, z
  <2> QED
    BY <2>5, <2>7, InRowIs, Zenon
<1>7. ASSUME more = << >> PROVE InRow(row, end, text, behind, r)
  <2> DEFINE after == FieldEnd(fields, end)
  <2>1. after \in CsvTexts /\ rest = <<"q">> \o after
    <3>1. FieldEnd(fields, end) \in CsvTexts
      BY <1>1, <1>2, FieldEndIs, Zenon
    <3>2. Closing(more, fields, end) = <<"q">> \o FieldEnd(fields, end)
      BY <1>1, <1>2, <1>7, ClosingIs, Zenon
    <3> QED
      BY <1>1, <3>1, <3>2, Zenon
  <2>2. Head(after) \in {",", "n"}
    <3>1. CASE fields = << >>
      BY <1>2, <3>1, FieldEndIs, Zenon DEF Ended
    <3>2. CASE fields # << >>
      <4> DEFINE others == Quoted(Head(fields)) \o FieldEnd(Tail(fields), end)
      <4>1. after = <<",">> \o others /\ others \in CsvTexts /\ "," \in Chars
        <5>1. /\ after = <<",">> \o others
              /\ Quoted(Head(fields)) \in Seq(Chars) /\ FieldEnd(Tail(fields), end) \in Seq(Chars)
          BY <1>2, <3>2, FieldEndIs, QuotedType, Zenon DEF CsvTexts
        <5>2. "," \in Chars
          BY DEF Chars
        <5> QED
          BY <5>1, <5>2, ConcatProperties, Zenon DEF CsvTexts
      <4> HIDE DEF others, after
      <4>2. Head(after) = ","
        BY <4>1, OneMore, Zenon
      <4> QED
        BY <4>2
    <3> QED
      BY <3>1, <3>2, Zenon
  <2> HIDE DEF after
  <2>3. text[i] = "q" /\ Ahead(text, i + 1, behind) = after
    <3>1. "q" \in Chars
      BY DEF Chars
    <3> QED
      BY <1>2, <2>1, <3>1, OneMore, Zenon
  <2>4. i < Len(text) => text[i + 1] = ","
    <3>1. i < Len(text) => text[i + 1] # "n" /\ text[i + 1] \in {",", "n"}
      BY <1>3, <2>2, <2>3 DEF Inner
    <3> QED
      BY <3>1
  <2>5. ~ EscapedAt(text, i, p) /\ ~ KeptAt(text, i)
    <3>1. "q" # ","
      OBVIOUS
    <3> QED
      BY <2>4, <3>1, Zenon DEF EscapedAt, KeptAt
  <2>6. Gives(r, p.tokens, p.sb, FALSE, i + 1)
    <3>1. Gives(r, p.tokens, IF KeptAt(text, i) THEN Append(p.sb, "q") ELSE p.sb, ~ p.quotes, i + 1)
      BY <1>2, <2>3, <2>5, ParseCharIs, Zenon DEF r
    <3>2. (~ p.quotes) = FALSE
      BY <1>2
    <3> QED
      BY <2>5, <3>1, <3>2, Zenon
  <2>7. InPlain(row, end, p.tokens, p.sb, Ahead(text, i + 1, behind))
    <3>1. << >> \o after = after
      BY <2>1, ConcatEmptySeq, Zenon DEF CsvTexts
    <3>2. << >> \in Seq({"x"})
      OBVIOUS
    <3> QED
      BY <1>1, <1>7, <2>3, <3>1, <3>2, Zenon DEF InPlain, after
  <2> QED
    BY <2>6, <2>7, InRowIs, Zenon
<1> QED
  BY <1>5, <1>6, <1>7, Zenon DEF r

\* What is at hand at a character of a line.
LEMMA AtChar ==
  ASSUME NEW end, NEW text, NEW behind, LineOf(end, text, behind),
         NEW p \in Parses, NEW i \in 1 .. Len(text)
  PROVE  /\ text \in CsvTexts /\ end \in CsvTexts /\ Ended(end)
         /\ p.tokens \in Seq(CsvTexts) /\ p.sb \in CsvTexts /\ p.quotes \in BOOLEAN
         /\ text[i] \in Chars /\ text[i] # "n"
         /\ Head(Ahead(text, i, behind)) = text[i]
         /\ Tail(Ahead(text, i, behind)) = Ahead(text, i + 1, behind)
         /\ (i + 1) - 1 = i
<1>1. Ended(end) /\ Ended(behind) /\ text \in Seq(Inner) /\ end \in CsvTexts
  BY DEF LineOf, Ended
<1>2. p.tokens \in Seq(CsvTexts) /\ p.sb \in CsvTexts /\ p.quotes \in BOOLEAN
  BY DEF Parses
<1>3. /\ text \in CsvTexts /\ text[i] \in Inner
      /\ Head(Ahead(text, i, behind)) = text[i]
      /\ Tail(Ahead(text, i, behind)) = Ahead(text, i + 1, behind)
  BY <1>1, AheadIs
<1>4. (i + 1) - 1 = i
  OBVIOUS
<1> QED
  BY <1>1, <1>2, <1>3, <1>4 DEF Inner

\* In a field without quotes, or behind its quotes, where a separator begins another field.
LEMMA PlainRead ==
  ASSUME NEW row, NEW end, NEW text, NEW behind, LineOf(end, text, behind),
         NEW p \in Parses, NEW i \in 1 .. Len(text), i = p.next,
         ~ p.quotes, InPlain(row, end, p.tokens, p.sb, Ahead(text, i, behind))
  PROVE  InRow(row, end, text, behind, ParseChar(text, p))
<1> DEFINE r == ParseChar(text, p)
           rest == Ahead(text, i, behind)
<1>1. PICK more \in Seq({"x"}), fields \in Seq(CsvTexts) :
        OfRow(row, p.tokens, p.sb, more, fields) /\ rest = more \o FieldEnd(fields, end)
  BY Zenon DEF InPlain
<1>2. /\ text \in CsvTexts /\ end \in CsvTexts /\ Ended(end)
      /\ p.tokens \in Seq(CsvTexts) /\ p.sb \in CsvTexts /\ p.quotes = FALSE
      /\ text[i] \in Chars /\ text[i] # "n"
      /\ Head(rest) = text[i] /\ Tail(rest) = Ahead(text, i + 1, behind) /\ (i + 1) - 1 = i
  <2>1. p.quotes \in BOOLEAN => p.quotes = FALSE
    OBVIOUS
  <2> QED
    BY <2>1, AtChar
<1>3. more \in CsvTexts /\ FieldEnd(fields, end) \in CsvTexts
  <2>1. more \in CsvTexts
    <3>1. {"x"} \subseteq Chars
      BY DEF Chars
    <3> HIDE DEF Chars
    <3> QED
      BY <3>1 DEF CsvTexts
  <2> QED
    BY <1>2, <2>1, FieldEndIs, Zenon
<1> HIDE DEF rest, r
<1>4. ASSUME more # << >> PROVE InRow(row, end, text, behind, r)
  <2>1. Head(more) = "x" /\ Tail(more) \in Seq({"x"})
    <3>1. Head(more) \in {"x"} /\ Tail(more) \in Seq({"x"})
      BY <1>4, HeadTailProperties, Zenon
    <3> QED
      BY <3>1
  <2>2. Head(rest) = Head(more) /\ Tail(rest) = Tail(more) \o FieldEnd(fields, end)
    BY <1>1, <1>3, <1>4, HeadOfConcat, SMTT(40) DEF CsvTexts
  <2>3. Gives(r, p.tokens, Append(p.sb, "x"), FALSE, i + 1)
    <3>1. text[i] = "x" /\ text[i] # "q" /\ text[i] # ","
      BY <1>2, <2>1, <2>2
    <3>2. Gives(r, p.tokens, Append(p.sb, text[i]), p.quotes, i + 1)
      BY <1>2, <3>1, ParseCharIs, Zenon DEF r
    <3> QED
      BY <1>2, <3>1, <3>2, Zenon
  <2>4. OfRow(row, p.tokens, Append(p.sb, "x"), Tail(more), fields)
    BY <1>1, <1>2, <1>3, <1>4, <2>1, OfRowChar, Zenon
  <2>5. InPlain(row, end, p.tokens, Append(p.sb, "x"), Ahead(text, i + 1, behind))
    BY <1>2, <2>1, <2>2, <2>4, Zenon DEF InPlain
  <2> QED
    BY <2>3, <2>5, InRowIs, Zenon
<1>5. ASSUME more = << >> PROVE InRow(row, end, text, behind, r)
  <2>1. rest = FieldEnd(fields, end)
    <3>1. << >> \o FieldEnd(fields, end) = FieldEnd(fields, end)
      BY <1>3, ConcatEmptySeq, Zenon DEF CsvTexts
    <3> QED
      BY <1>1, <1>5, <3>1, Zenon
  <2>2. fields # << >>
    <3>1. ASSUME fields = << >> PROVE FALSE
      <4>1. rest = end
        BY <1>2, <2>1, <3>1, FieldEndIs, Zenon
      <4> QED
        BY <1>2, <4>1, Zenon DEF Ended
    <3> QED
      BY <3>1, Zenon
  <2> DEFINE field == Head(fields)
             z == Quoted(field) \o FieldEnd(Tail(fields), end)
  <2>3. field \in CsvTexts /\ Tail(fields) \in Seq(CsvTexts) /\ rest = <<",">> \o z
    BY <1>2, <2>1, <2>2, FieldEndIs, Zenon
  <2>4. z \in CsvTexts /\ "," \in Chars
    <3>1. Quoted(field) \in Seq(Chars) /\ FieldEnd(Tail(fields), end) \in Seq(Chars)
      BY <1>2, <2>3, QuotedType, FieldEndIs, Zenon DEF CsvTexts
    <3>2. "," \in Chars
      BY DEF Chars
    <3> QED
      BY <3>1, <3>2, ConcatProperties, Zenon DEF CsvTexts
  <2>5. OfRow(row, Append(p.tokens, p.sb), << >>, field, Tail(fields))
    BY <1>1, <1>2, <1>5, <2>2, OfRowField, Zenon
  <2>6. \/ InPlain(row, end, Append(p.tokens, p.sb), << >>, z)
        \/ BeforeField(row, end, Append(p.tokens, p.sb), << >>, z)
    BY <1>2, <2>3, <2>5, FieldBegins, Zenon
  <2> HIDE DEF z, field
  <2>7. text[i] = "," /\ Ahead(text, i + 1, behind) = z
    BY <1>2, <2>3, <2>4, OneMore, Zenon
  <2>8. Gives(r, Append(p.tokens, p.sb), << >>, FALSE, i + 1)
    BY <1>2, <2>7, ParseCharIs, Zenon DEF r
  <2>9. StartsField(text, i + 1)
    BY <1>2, <2>7, Zenon DEF StartsField
  <2> QED
    BY <2>6, <2>7, <2>8, <2>9, InRowIs, Zenon
<1> QED
  BY <1>4, <1>5, Zenon DEF r

\* Before a field within quotes: the quote opens it and is none of its characters, for it is
\* at the beginning of the line or behind a separator.
LEMMA QuoteRead ==
  ASSUME NEW row, NEW end, NEW text, NEW behind, LineOf(end, text, behind),
         NEW p \in Parses, NEW i \in 1 .. Len(text), i = p.next,
         ~ p.quotes, BeforeField(row, end, p.tokens, p.sb, Ahead(text, i, behind)),
         StartsField(text, i)
  PROVE  InRow(row, end, text, behind, ParseChar(text, p))
<1> DEFINE r == ParseChar(text, p)
           rest == Ahead(text, i, behind)
<1>1. PICK field \in CsvTexts, fields \in Seq(CsvTexts) :
        OfRow(row, p.tokens, p.sb, field, fields) /\ rest = <<"q">> \o Closing(field, fields, end)
  BY Zenon DEF BeforeField
<1>2. /\ text \in CsvTexts /\ end \in CsvTexts /\ p.quotes = FALSE
      /\ Head(rest) = text[i] /\ Tail(rest) = Ahead(text, i + 1, behind)
  <2>1. p.quotes \in BOOLEAN => p.quotes = FALSE
    OBVIOUS
  <2> QED
    BY <2>1, AtChar
<1>3. Closing(field, fields, end) \in CsvTexts /\ "q" \in Chars
  <2>1. "q" \in Chars
    BY DEF Chars
  <2> QED
    BY <1>2, <2>1, ClosingIs, Zenon
<1> HIDE DEF rest, r
<1>4. text[i] = "q" /\ Ahead(text, i + 1, behind) = Closing(field, fields, end)
  BY <1>1, <1>2, <1>3, OneMore, Zenon
<1>5. ~ KeptAt(text, i)
  <2>1. i > 3 => i # 1
    OBVIOUS
  <2> QED
    BY <2>1, Zenon DEF KeptAt, StartsField
<1>6. Gives(r, p.tokens, p.sb, TRUE, i + 1)
  <2>1. ~ EscapedAt(text, i, p)
    BY Zenon DEF EscapedAt
  <2>2. Gives(r, p.tokens, IF KeptAt(text, i) THEN Append(p.sb, "q") ELSE p.sb, ~ p.quotes, i + 1)
    BY <1>2, <1>4, <2>1, ParseCharIs, Zenon DEF r
  <2>3. (~ p.quotes) = TRUE
    BY <1>2
  <2> QED
    BY <1>5, <2>2, <2>3, Zenon
<1>7. InField(row, end, p.tokens, p.sb, Ahead(text, i + 1, behind))
  BY <1>1, <1>4, Zenon DEF InField
<1> QED
  BY <1>6, <1>7, InRowIs, Zenon DEF r

\* A round of parseLine stays in the row.
LEMMA CharRead ==
  ASSUME NEW row, NEW end, NEW text, NEW behind, LineOf(end, text, behind),
         NEW p \in Parses, NEW i \in 1 .. Len(text), i = p.next, InRow(row, end, text, behind, p)
  PROVE  InRow(row, end, text, behind, ParseChar(text, p))
BY FieldRead, PlainRead, QuoteRead, Zenon DEF InRow

\* And so does a line.
LEMMA LineParsed ==
  ASSUME NEW row, NEW end, NEW text, NEW behind, LineOf(end, text, behind),
         NEW start \in Parses, start.next = 1, InRow(row, end, text, behind, start)
  PROVE  /\ ParseLine(text, start) \in Parses
         /\ ParseLine(text, start).next = Len(text) + 1
         /\ InRow(row, end, text, behind, ParseLine(text, start))
<1> DEFINE n == Len(text)
           In(p) == InRow(row, end, text, behind, p)
<1>1. n \in Nat /\ text \in CsvTexts
  <2>1. text \in Seq(Inner) /\ Ended(behind)
    BY Zenon DEF LineOf
  <2>2. text \in CsvTexts
    BY <2>1, AheadIs, Zenon
  <2> QED
    BY <2>1, <2>2, LenProperties, Zenon
<1>2. PICK run : ParseRun(run, text, start)
  BY <1>1, ParseRuns, Zenon
<1>3. \A k \in 0 .. n : run[k] \in Parses
  BY <1>2 DEF ParseRun
<1> DEFINE S == {k \in 0 .. n : run[k].next \in {k + 1, k + 2} /\ run[k].next <= n + 1 /\ In(run[k])}
<1>4. 0 \in S
  <2>1. run[0] = start
    BY <1>2 DEF ParseRun
  <2> HIDE DEF In
  <2>2. In(start)
    BY DEF In
  <2> QED
    BY <1>1, <2>1, <2>2
<1>5. ASSUME NEW k \in Nat, k < n, k \in S PROVE k + 1 \in S
  <2> DEFINE p == run[k]
             r == run[k + 1]
             i == k + 1
  <2>1. p \in Parses /\ i \in 1 .. n /\ i \in 0 .. n /\ i - 1 = k
    BY <1>1, <1>3, <1>5
  <2>2. r = IF i = p.next THEN ParseChar(text, p) ELSE p
    BY <1>2, <2>1, ZenonT(40) DEF ParseRun
  <2>3. p.next \in {i, i + 1} /\ p.next <= n + 1 /\ In(p)
    <3>1. k + 2 = i + 1
      BY <1>5
    <3> HIDE DEF In
    <3> QED
      BY <1>5, <3>1
  <2>4. CASE i # p.next
    <3>1. r = p /\ p.next = i + 1
      BY <2>2, <2>3, <2>4
    <3> HIDE DEF In
    <3> QED
      BY <2>1, <2>3, <3>1
  <2>5. CASE i = p.next
    <3>1. r = ParseChar(text, p)
      BY <2>2, <2>5
    <3>2. In(r)
      <4> HIDE DEF p, r, i
      <4> QED
        BY <2>1, <2>3, <2>5, <3>1, CharRead, Zenon
    <3>3. r.next \in {i + 1, i + 2} /\ r.next <= n + 1
      <4>1. start.quotes \in BOOLEAN /\ \E before \in BOOLEAN : Kept(text, before, p)
        <5>1. p.quotes \in BOOLEAN /\ start.quotes \in BOOLEAN
          BY <2>1 DEF Parses
        <5> HIDE DEF p
        <5> DEFINE odd == Odd(QuotesIn(text, p.next - 1))
                   before == ~ (p.quotes <=> odd)
        <5>2. odd \in BOOLEAN
          BY Zenon DEF Odd
        <5>3. p.quotes <=> ~ (before <=> odd)
          BY <5>1, <5>2, Zenon
        <5>4. before \in BOOLEAN /\ Kept(text, before, p)
          BY <5>3, Zenon DEF Kept
        <5> QED
          BY <5>1, <5>4, Zenon
      <4> HIDE DEF p, r, i
      <4> QED
        BY <1>1, <2>1, <2>5, <3>1, <4>1, ParityKept, Zenon
    <3> HIDE DEF In, r
    <3> QED
      BY <2>1, <3>2, <3>3 DEF r
  <2> QED
    BY <2>4, <2>5
<1>6. 0 .. n \subseteq S
  <2> HIDE DEF S
  <2> QED
    BY <1>1, <1>4, <1>5, CountUp
<1>7. run[n] \in Parses /\ run[n].next = n + 1 /\ In(run[n])
  <2>1. n \in S
    BY <1>1, <1>6
  <2> HIDE DEF In
  <2> QED
    BY <1>1, <1>3, <2>1
<1>8. run[n] = ParseLine(text, start)
  BY <1>2 DEF ParseRun
<1> QED
  BY <1>7, <1>8, Zenon

-----------------------------------------------------------------------------
(* The ends and the beginnings of lines.                                   *)

\* A line ends in a field that goes on with the next, or it ends the row.
LEMMA LineEnds ==
  ASSUME NEW row, NEW text, NEW next \in CsvTexts, NEW others \in CsvTexts,
         LineOf(<<"n">> \o others, text, <<"n">> \o next),
         NEW p \in Parses, p.next = Len(text) + 1,
         InRow(row, <<"n">> \o others, text, <<"n">> \o next, p)
  PROVE  /\ p.quotes => InField(row, <<"n">> \o others, p.tokens, Append(p.sb, "n"), next)
         /\ ~ p.quotes => Append(p.tokens, p.sb) = row /\ next = others
<1> DEFINE end == <<"n">> \o others
           rest == <<"n">> \o next
<1>1. /\ end \in CsvTexts /\ Head(end) = "n" /\ Tail(end) = others
      /\ Head(rest) = "n" /\ Tail(rest) = next
      /\ p.tokens \in Seq(CsvTexts) /\ p.sb \in CsvTexts
  <2>1. "n" \in Chars
    BY DEF Chars
  <2>2. p.tokens \in Seq(CsvTexts) /\ p.sb \in CsvTexts
    BY DEF Parses
  <2> QED
    BY <2>1, <2>2, OneMore, Zenon
<1>2. Ahead(text, p.next, rest) = rest
  <2>1. text \in Seq(Inner) /\ Ended(rest)
    BY Zenon DEF LineOf
  <2> HIDE DEF rest
  <2> QED
    BY <2>1, AheadIs, Zenon
<1>3. InRow(row, end, text, rest, p)
  BY Zenon
<1> HIDE DEF end, rest
<1>4. ASSUME p.quotes, InField(row, end, p.tokens, p.sb, rest)
      PROVE  InField(row, end, p.tokens, Append(p.sb, "n"), next)
  <2>1. PICK more \in CsvTexts, fields \in Seq(CsvTexts) :
          OfRow(row, p.tokens, p.sb, more, fields) /\ rest = Closing(more, fields, end)
    BY <1>4, Zenon DEF InField
  <2>0. end \in CsvTexts
    BY <1>1
  <2>2. more # << >>
    <3>1. ASSUME more = << >> PROVE FALSE
      <4>1. rest = <<"q">> \o FieldEnd(fields, end) /\ FieldEnd(fields, end) \in CsvTexts /\ "q" \in Chars
        <5>1. "q" \in Chars
          BY DEF Chars
        <5>2. Closing(more, fields, end) = <<"q">> \o FieldEnd(fields, end)
          BY <2>0, <3>1, ClosingIs, ZenonT(40)
        <5> QED
          BY <1>1, <2>1, <5>1, <5>2, FieldEndIs, Zenon
      <4>2. Head(rest) = "q"
        BY <4>1, OneMore, Zenon
      <4> QED
        BY <1>1, <4>2
    <3> QED
      BY <3>1, Zenon
  <2> DEFINE c == Head(more)
             z == Closing(Tail(more), fields, end)
  <2>3. c \in Chars /\ Tail(more) \in CsvTexts /\ rest = CharText[c] \o z /\ z \in CsvTexts
    <3>1. /\ Head(more) \in Chars /\ Tail(more) \in CsvTexts
          /\ Closing(more, fields, end) = CharText[Head(more)] \o Closing(Tail(more), fields, end)
      BY <2>0, <2>2, ClosingIs, Zenon
    <3>2. Closing(Tail(more), fields, end) \in CsvTexts
      BY <2>0, <3>1, ClosingIs, Zenon
    <3> QED
      BY <2>1, <3>1, <3>2, Zenon
  <2> HIDE DEF c, z
  <2>4. c # "q"
    <3>1. ASSUME c = "q" PROVE FALSE
      <4>1. rest = <<"q", "q">> \o z
        BY <2>3, <3>1, Zenon DEF CharText
      <4>2. Head(rest) = "q"
        BY <2>3, <3>1, <4>1, HeadOfConcat DEF CsvTexts
      <4> QED
        BY <1>1, <4>2
    <3> QED
      BY <3>1, Zenon
  <2>5. rest = <<c>> \o z
    BY <2>3, <2>4, Zenon DEF CharText
  <2>6. c = "n" /\ next = z
    BY <1>1, <2>3, <2>5, OneMore, Zenon
  <2>7. OfRow(row, p.tokens, Append(p.sb, "n"), Tail(more), fields)
    BY <1>1, <2>1, <2>2, <2>6, OfRowChar, Zenon DEF c
  <2> QED
    BY <2>3, <2>6, <2>7, Zenon DEF InField, z
<1>5. ASSUME ~ p.quotes, InPlain(row, end, p.tokens, p.sb, rest)
      PROVE  Append(p.tokens, p.sb) = row /\ next = others
  <2>1. PICK more \in Seq({"x"}), fields \in Seq(CsvTexts) :
          OfRow(row, p.tokens, p.sb, more, fields) /\ rest = more \o FieldEnd(fields, end)
    BY <1>5, Zenon DEF InPlain
  <2>2. more \in CsvTexts /\ FieldEnd(fields, end) \in CsvTexts
    <3>1. more \in CsvTexts
      <4>1. {"x"} \subseteq Chars
        BY DEF Chars
      <4> HIDE DEF Chars
      <4> QED
        BY <4>1 DEF CsvTexts
    <3> QED
      BY <1>1, <3>1, FieldEndIs, Zenon
  <2>3. more = << >>
    <3>1. ASSUME more # << >> PROVE FALSE
      <4>1. Head(more) = "x"
        <5>1. Head(more) \in {"x"}
          BY <3>1, HeadTailProperties, Zenon
        <5> QED
          BY <5>1
      <4>2. Head(rest) = Head(more)
        BY <2>1, <2>2, <3>1, HeadOfConcat DEF CsvTexts
      <4> QED
        BY <1>1, <4>1, <4>2
    <3> QED
      BY <3>1, Zenon
  <2>4. rest = FieldEnd(fields, end)
    <3>1. << >> \o FieldEnd(fields, end) = FieldEnd(fields, end)
      BY <2>2, ConcatEmptySeq, Zenon DEF CsvTexts
    <3> QED
      BY <2>1, <2>3, <3>1, Zenon
  <2>5. fields = << >>
    <3>1. ASSUME fields # << >> PROVE FALSE
      <4> DEFINE z == Quoted(Head(fields)) \o FieldEnd(Tail(fields), end)
      <4>1. /\ rest = <<",">> \o z
            /\ Quoted(Head(fields)) \in Seq(Chars) /\ FieldEnd(Tail(fields), end) \in Seq(Chars)
        BY <1>1, <2>4, <3>1, FieldEndIs, QuotedType, Zenon DEF CsvTexts
      <4>2. z \in CsvTexts /\ "," \in Chars
        <5>1. "," \in Chars
          BY DEF Chars
        <5> QED
          BY <4>1, <5>1, ConcatProperties, Zenon DEF CsvTexts
      <4> HIDE DEF z
      <4>3. Head(rest) = ","
        BY <4>1, <4>2, OneMore, Zenon
      <4> QED
        BY <1>1, <4>3
    <3> QED
      BY <3>1, Zenon
  <2>6. rest = end
    BY <1>1, <2>4, <2>5, FieldEndIs, Zenon
  <2>7. Append(p.tokens, p.sb) = row
    BY <1>1, <2>1, <2>3, <2>5, OfRowEnd, Zenon
  <2> QED
    BY <1>1, <2>6, <2>7, Zenon
<1>6. ~ BeforeField(row, end, p.tokens, p.sb, rest)
  <2> SUFFICES ASSUME BeforeField(row, end, p.tokens, p.sb, rest) PROVE FALSE
    OBVIOUS
  <2>1. PICK field \in CsvTexts, fields \in Seq(CsvTexts) : rest = <<"q">> \o Closing(field, fields, end)
    BY Zenon DEF BeforeField
  <2>2. "q" \in Chars /\ Closing(field, fields, end) \in CsvTexts
    <3>1. "q" \in Chars
      BY DEF Chars
    <3> QED
      BY <1>1, <3>1, ClosingIs, Zenon
  <2>3. Head(rest) = "q"
    BY <2>1, <2>2, OneMore, Zenon
  <2> QED
    BY <1>1, <2>3
<1> QED
  BY <1>2, <1>3, <1>4, <1>5, <1>6, Zenon DEF InRow, end

\* The first character of a line is ahead, and the others.
LEMMA AllAhead ==
  ASSUME NEW text \in CsvTexts, NEW behind
  PROVE  Ahead(text, 1, behind) = text \o behind
<1>1. SubSeq(text, 1, Len(text)) = text
  BY SubSeqFull, Zenon DEF CsvTexts
<1> QED
  BY <1>1, Zenon DEF Ahead

\* The text of a row, and of those left behind it.
LEMMA RowIs ==
  ASSUME NEW row \in CsvRows, NEW left \in Seq(CsvRows)
  PROVE  /\ FlatMap(RowText, left) \in CsvTexts /\ RowEnd(left) \in CsvTexts /\ Ended(RowEnd(left))
         /\ RowText[row] \o FlatMap(RowText, left)
              = Quoted(Head(row)) \o FieldEnd(Tail(row), RowEnd(left))
<1> DEFINE first == Quoted(Head(row))
           fields == FlatMap(FieldText, Tail(row))
           below == FlatMap(RowText, left)
           nl == <<"n">>
<1>1. /\ first \in Seq(Chars) /\ fields \in Seq(Chars) /\ below \in Seq(Chars) /\ nl \in Seq(Chars)
      /\ Joined(row) = first \o fields
  <2>1. "n" \in Chars
    BY DEF Chars
  <2> QED
    BY <2>1, CharTexts, JoinedIs, QuotedType, TextsBegin, Zenon DEF CsvTexts
<1>2. RowText[row] = (first \o fields) \o nl
  <2>1. RowText[row] = Append(first \o fields, "n")
    BY <1>1, Zenon DEF RowText
  <2>2. \A s \in Seq(Chars) : Append(s, "n") = s \o <<"n">>
    <3> HIDE DEF Chars
    <3> QED
      OBVIOUS
  <2>3. first \o fields \in Seq(Chars)
    BY <1>1, ConcatProperties, Zenon
  <2> QED
    BY <2>1, <2>2, <2>3, Zenon
<1>3. RowEnd(left) = nl \o below
  BY Zenon DEF RowEnd
<1>4. RowEnd(left) \in CsvTexts /\ Ended(RowEnd(left)) /\ below \in CsvTexts
  <2>1. "n" \in Chars /\ below \in CsvTexts
    BY <1>1 DEF Chars, CsvTexts
  <2> QED
    BY <1>3, <2>1, OneMore, Zenon DEF Ended
<1> HIDE DEF first, fields, below, nl
<1>5. ((first \o fields) \o nl) \o below = first \o (fields \o (nl \o below))
  <2>1. first \o fields \in Seq(Chars) /\ nl \o below \in Seq(Chars)
    BY <1>1, ConcatProperties, Zenon
  <2>2. Regroups(first \o fields, nl, below) /\ Regroups(first, fields, nl \o below)
    BY <1>1, <2>1, Regroup, Zenon
  <2> QED
    BY <2>2, Zenon DEF Regroups
<1> QED
  BY <1>2, <1>3, <1>4, <1>5, Zenon DEF FieldEnd, first, fields, below

\* A line begins in the row it is of.
LEMMA LineBegins ==
  ASSUME NEW row \in CsvRows, NEW left \in Seq(CsvRows), NEW text \in CsvTexts, NEW next \in CsvTexts,
         RowText[row] \o FlatMap(RowText, left) = text \o (<<"n">> \o next),
         NEW start, start.tokens = << >>, start.sb = << >>, start.quotes = FALSE, start.next = 1
  PROVE  InRow(row, RowEnd(left), text, <<"n">> \o next, start)
<1> DEFINE field == Head(row)
           fields == Tail(row)
           end == RowEnd(left)
           rest == Quoted(field) \o FieldEnd(fields, end)
<1>1. field \in CsvTexts /\ fields \in Seq(CsvTexts) /\ end \in CsvTexts /\ row = <<field>> \o fields
  BY JoinedIs, RowIs, Zenon
<1>2. Ahead(text, 1, <<"n">> \o next) = rest
  BY AllAhead, RowIs, Zenon
<1>3. OfRow(row, << >>, << >>, field, fields)
  <2>1. << >> \o field = field
    BY <1>1, ConcatEmptySeq, Zenon DEF CsvTexts
  <2>2. << >> \o row = row
    BY ConcatEmptySeq, Zenon DEF CsvRows
  <2> QED
    BY <1>1, <2>1, <2>2, Zenon DEF OfRow
<1>4. InPlain(row, end, << >>, << >>, rest) \/ BeforeField(row, end, << >>, << >>, rest)
  BY <1>1, <1>3, FieldBegins, Zenon
<1> HIDE DEF rest, end
<1>5. /\ \/ InPlain(row, end, start.tokens, start.sb, Ahead(text, start.next, <<"n">> \o next))
         \/ BeforeField(row, end, start.tokens, start.sb, Ahead(text, start.next, <<"n">> \o next))
      /\ ~ start.quotes /\ StartsField(text, start.next)
  BY <1>2, <1>4, Zenon DEF StartsField
<1> QED
  BY <1>5, Zenon DEF InRow, end

-----------------------------------------------------------------------------
(* The file of a table: its lines, each with its end, are the text of the  *)
(* rows.                                                                   *)

\* Lines are texts.
LEMMA InnerTexts == Seq(Inner) \subseteq CsvTexts /\ Seq(Seq(Inner)) \subseteq Seq(CsvTexts)
<1>1. Inner \subseteq Chars
  BY DEF Inner
<1> HIDE DEF Inner, Chars
<1>2. Seq(Inner) \subseteq Seq(Chars)
  BY <1>1, SeqMonotonic
<1>3. Seq(Seq(Inner)) \subseteq Seq(Seq(Chars))
  BY <1>2, SeqMonotonic
<1> QED
  BY <1>2, <1>3 DEF CsvTexts

\* A character more belongs to the last line, or ends it.
LEMMA CharAdded ==
  ASSUME NEW done \in Seq(Seq(Inner)), NEW last \in Seq(Inner), NEW c \in Chars
  PROVE  LET so == FlatMap(LineText, done) \o last
         IN /\ c # "n" => /\ Append(last, c) \in Seq(Inner)
                          /\ FlatMap(LineText, done) \o Append(last, c) = so \o <<c>>
            /\ c = "n" => /\ Append(done, last) \in Seq(Seq(Inner))
                          /\ FlatMap(LineText, Append(done, last)) \o << >> = so \o <<c>>
<1> DEFINE before == FlatMap(LineText, done)
<1>1. /\ done \in Seq(CsvTexts) /\ last \in Seq(Chars) /\ before \in Seq(Chars)
      /\ last \in CsvTexts /\ <<c>> \in Seq(Chars)
  BY InnerTexts, TextsBegin, CharTexts DEF CsvTexts
<1>2. Append(last, c) = last \o <<c>>
  BY <1>1, AppendIsConcat, Zenon
<1> HIDE DEF before
<1>3. before \o (last \o <<c>>) = (before \o last) \o <<c>>
  <2>1. Regroups(before, last, <<c>>)
    BY <1>1, Regroup, Zenon
  <2> QED
    BY <2>1, Zenon DEF Regroups
<1>4. c # "n" => Append(last, c) \in Seq(Inner)
  <2>1. c # "n" => c \in Inner
    BY DEF Inner
  <2> HIDE DEF Inner
  <2> QED
    BY <2>1, AppendProperties, Zenon
<1>5. Append(done, last) \in Seq(Seq(Inner))
  BY AppendProperties, Zenon
<1>6. ASSUME c = "n" PROVE FlatMap(LineText, Append(done, last)) \o << >> = before \o (last \o <<c>>)
  <2>1. FlatMap(LineText, Append(done, last)) = before \o LineText[last]
    BY <1>1, PartTypes, FlatMapLast, ZenonT(40) DEF before
  <2>2. LineText[last] = last \o <<c>>
    BY <1>1, <1>2, <1>6, Zenon DEF LineText
  <2>3. before \o (last \o <<c>>) \in Seq(Chars)
    BY <1>1, ConcatProperties, Zenon
  <2> QED
    BY <2>1, <2>2, <2>3, ConcatEmptySeq, Zenon
<1> QED
  BY <1>2, <1>3, <1>4, <1>5, <1>6, Zenon DEF before

\* LinesOf cuts a text into lines, and leaves out what has no end.
LEMMA LinesKeep ==
  ASSUME NEW text \in CsvTexts
  PROVE  /\ LinesOf(text) \in Seq(Seq(Inner))
         /\ \E last \in Seq(Inner) : FlatMap(LineText, LinesOf(text)) \o last = text
<1> DEFINE n == Len(text)
           Good(ls, k) == /\ ls.done \in Seq(Seq(Inner)) /\ ls.last \in Seq(Inner)
                          /\ FlatMap(LineText, ls.done) \o ls.last = SubSeq(text, 1, k)
<1>1. n \in Nat /\ \A k \in 1 .. n : text[k] \in Chars
  BY LenProperties, ElementOfSeq, Zenon DEF CsvTexts
<1>2. PICK run : LinesRun(run, text)
  BY LinesRuns, Zenon
<1>3. \A k \in 1 .. n : run[k] = WithChar(run[k - 1], text[k])
  BY <1>2 DEF LinesRun
<1> DEFINE S == {k \in 0 .. n : Good(run[k], k)}
<1>4. 0 \in S
  <2>1. run[0].done = << >> /\ run[0].last = << >>
    BY <1>2 DEF LinesRun, NoLines
  <2>2. SubSeq(text, 1, 0) = << >>
    BY SubSeqEmpty
  <2>3. << >> \in Seq(Seq(Inner)) /\ << >> \in Seq(Inner) /\ << >> \o << >> = << >>
    <3> HIDE DEF Inner
    <3> QED
      OBVIOUS
  <2>4. FlatMap(LineText, << >>) = << >>
    BY FlatMapNone, Zenon
  <2>5. Good(run[0], 0)
    BY <2>1, <2>2, <2>3, <2>4, Zenon
  <2> HIDE DEF Good
  <2> QED
    BY <1>1, <2>5
<1>5. ASSUME NEW k \in Nat, k < n, k \in S PROVE k + 1 \in S
  <2> DEFINE ls == run[k]
             c == text[k + 1]
             so == FlatMap(LineText, ls.done) \o ls.last
  <2>1. k + 1 \in 1 .. n /\ (k + 1) - 1 = k /\ k + 1 \in 0 .. n
    BY <1>1, <1>5
  <2>2. c \in Chars /\ run[k + 1] = WithChar(ls, c)
    BY <1>1, <1>3, <2>1, Zenon
  <2>3. ls.done \in Seq(Seq(Inner)) /\ ls.last \in Seq(Inner) /\ so = SubSeq(text, 1, k)
    BY <1>5, Zenon
  <2>4. SubSeq(text, 1, k + 1) = so \o <<c>>
    <3>1. 1 \in 1 .. n /\ k + 1 \in 1 .. n
      BY <2>1
    <3>2. SubSeq(text, 1, k + 1) = SubSeq(text, 1, (k + 1) - 1) \o <<text[k + 1]>>
      BY <3>1, SubSeqRecursiveSecond, Zenon DEF CsvTexts
    <3> QED
      BY <2>1, <2>3, <3>2, Zenon
  <2>5. ls \in LineStates
    <3>1. k \in 0 .. n
      BY <1>5
    <3> QED
      BY <1>2, <3>1 DEF LinesRun
  <2>6. /\ c # "n" => /\ Append(ls.last, c) \in Seq(Inner)
                      /\ FlatMap(LineText, ls.done) \o Append(ls.last, c) = so \o <<c>>
        /\ c = "n" => /\ Append(ls.done, ls.last) \in Seq(Seq(Inner))
                      /\ FlatMap(LineText, Append(ls.done, ls.last)) \o << >> = so \o <<c>>
    <3> HIDE DEF ls, c
    <3> QED
      BY <2>2, <2>3, CharAdded, Zenon
  <2> HIDE DEF c, so
  <2>7. Good(run[k + 1], k + 1)
    <3>1. CASE c = "n"
      <4>1. run[k + 1].done = Append(ls.done, ls.last) /\ run[k + 1].last = << >>
        <5> HIDE DEF ls
        <5> QED
          BY <2>2, <3>1 DEF WithChar
      <4>2. << >> \in Seq(Inner)
        <5> HIDE DEF Inner
        <5> QED
          OBVIOUS
      <4> QED
        BY <2>4, <2>6, <3>1, <4>1, <4>2, Zenon
    <3>2. CASE c # "n"
      <4>1. run[k + 1].done = ls.done /\ run[k + 1].last = Append(ls.last, c)
        <5> DEFINE l == Append(ls.last, c)
        <5>1. run[k + 1] = [ls EXCEPT !.last = l]
          BY <2>2, <3>2, Zenon DEF WithChar
        <5> HIDE DEF ls, l
        <5>2. run[k + 1].done = ls.done /\ run[k + 1].last = l
          BY <2>5, <5>1 DEF LineStates
        <5> QED
          BY <5>2 DEF l
      <4> QED
        BY <2>3, <2>4, <2>6, <3>2, <4>1, Zenon
    <3> QED
      BY <3>1, <3>2, Zenon
  <2> HIDE DEF Good
  <2> QED
    BY <2>1, <2>7
<1>6. 0 .. n \subseteq S
  <2> HIDE DEF S, n
  <2> QED
    BY <1>1, <1>4, <1>5, CountUp
<1>7. Good(run[n], n)
  <2>1. n \in 0 .. n
    BY <1>1
  <2>2. n \in S
    BY <1>6, <2>1, Zenon
  <2> HIDE DEF Good
  <2> QED
    BY <2>2, Zenon
<1>8. SubSeq(text, 1, n) = text
  BY SubSeqFull, Zenon DEF CsvTexts
<1>9. run[n].done = LinesOf(text)
  BY <1>2, Zenon DEF LinesRun
<1> QED
  BY <1>7, <1>8, <1>9, Zenon

\* It leaves nothing out of a text that ends with a line.
LEMMA LinesKeepAll ==
  ASSUME NEW front \in CsvTexts, NEW text, text = Append(front, "n")
  PROVE  LinesOf(text) \in Seq(Seq(Inner)) /\ FlatMap(LineText, LinesOf(text)) = text
<1> DEFINE before == FlatMap(LineText, LinesOf(text))
<1>1. "n" \in Chars /\ text \in CsvTexts
  <2>1. "n" \in Chars
    BY DEF Chars
  <2> QED
    BY <2>1, AppendProperties, Zenon DEF CsvTexts
<1>2. LinesOf(text) \in Seq(Seq(Inner)) /\ before \in CsvTexts
  BY <1>1, LinesKeep, InnerTexts, TextsBegin
<1>3. PICK last \in Seq(Inner) : before \o last = text
  BY <1>1, LinesKeep, Zenon
<1> HIDE DEF before
<1>4. last = << >>
  <2>1. ASSUME NEW l \in Seq(Inner), NEW c \in Inner, last = Append(l, c) PROVE FALSE
    <3>1. /\ l \in Seq(Chars) /\ c \in Chars /\ c # "n" /\ <<c>> \in Seq(Chars)
          /\ before \in Seq(Chars) /\ front \in Seq(Chars)
      <4>1. c \in Chars /\ c # "n"
        BY DEF Inner
      <4> QED
        BY <1>2, <4>1, InnerTexts, CharTexts DEF CsvTexts
    <3>2. last = l \o <<c>> /\ before \o l \in Seq(Chars)
      BY <2>1, <3>1, AppendIsConcat, ConcatProperties, Zenon
    <3>3. before \o (l \o <<c>>) = (before \o l) \o <<c>>
      <4>1. Regroups(before, l, <<c>>)
        BY <3>1, Regroup, Zenon
      <4> QED
        BY <4>1, Zenon DEF Regroups
    <3>4. (before \o l) \o <<c>> = Append(before \o l, c)
      BY <3>1, <3>2, AppendIsConcat, Zenon
    <3>5. Append(before \o l, c) = Append(front, "n")
      BY <1>3, <3>2, <3>3, <3>4, Zenon
    <3>6. c = "n"
      <4>1. \A a, b \in Seq(Chars), x, y \in Chars : Append(a, x) = Append(b, y) => x = y
        <5> HIDE DEF Chars
        <5> QED
          BY AppendInjective
      <4> QED
        BY <1>1, <3>1, <3>2, <3>5, <4>1, Zenon
    <3> QED
      BY <3>1, <3>6
  <2> HIDE DEF Inner
  <2> QED
    BY <2>1, SequenceEmptyOrAppend, ZenonT(40)
<1>5. before \o << >> = before
  BY <1>2, ConcatEmptySeq, Zenon DEF CsvTexts
<1> QED
  BY <1>2, <1>3, <1>4, <1>5, Zenon DEF before

\* The lines of the file of a table are the text of its rows.
LEMMA WrittenIs ==
  ASSUME NEW table \in Seq(CsvRows), table # << >>
  PROVE  /\ Written(table) \in Seq(Seq(Inner))
         /\ FlatMap(LineText, Written(table)) = FlatMap(RowText, table)
<1> DEFINE text == FlatMap(RowText, table)
<1>1. \A j \in DOMAIN table : table[j] \in CsvRows
  BY ElementOfSeq, LenProperties
<1>2. Written(table) = LinesOf(text)
  <2>1. [j \in DOMAIN table |-> Append(Joined(table[j]), "n")] = [j \in DOMAIN table |-> RowText[table[j]]]
    <3>1. \A j \in DOMAIN table : Append(Joined(table[j]), "n") = RowText[table[j]]
      BY <1>1, Zenon DEF RowText
    <3> QED
      BY <3>1, Zenon
  <2> QED
    BY <2>1, Zenon DEF Written, FlatMap
<1>3. PICK front \in CsvTexts : text = Append(front, "n")
  <2>1. PICK others \in Seq(CsvRows), row \in CsvRows : table = Append(others, row)
    BY SequenceEmptyOrAppend, Zenon
  <2> DEFINE before == FlatMap(RowText, others)
  <2>2. /\ before \in Seq(Chars) /\ Joined(row) \in Seq(Chars) /\ "n" \in Chars
        /\ <<"n">> \in Seq(Chars)
    <3>1. "n" \in Chars
      BY DEF Chars
    <3> QED
      BY <3>1, CharTexts, JoinedType, TextsBegin DEF CsvRows, CsvTexts
  <2>3. text = before \o RowText[row]
    BY <2>1, PartTypes, FlatMapLast, ZenonT(40)
  <2>4. RowText[row] = Joined(row) \o <<"n">>
    BY <2>2, AppendIsConcat, Zenon DEF RowText
  <2> HIDE DEF before, text
  <2>5. before \o (Joined(row) \o <<"n">>) = (before \o Joined(row)) \o <<"n">>
    <3>1. Regroups(before, Joined(row), <<"n">>)
      BY <2>2, Regroup, Zenon
    <3> QED
      BY <3>1, Zenon DEF Regroups
  <2>6. before \o Joined(row) \in Seq(Chars)
    BY <2>2, ConcatProperties, Zenon
  <2>7. (before \o Joined(row)) \o <<"n">> = Append(before \o Joined(row), "n")
    BY <2>2, <2>6, AppendIsConcat, Zenon
  <2> QED
    BY <2>3, <2>4, <2>5, <2>6, <2>7, Zenon DEF CsvTexts
<1> HIDE DEF text
<1>4. LinesOf(text) \in Seq(Seq(Inner)) /\ FlatMap(LineText, LinesOf(text)) = text
  BY <1>3, LinesKeepAll, Zenon
<1> QED
  BY <1>2, <1>4, Zenon DEF text

\* What is behind the first n lines: the next one, its end, and what is behind that.
LEMMA BehindIs ==
  ASSUME NEW file \in Seq(Seq(Inner)), NEW n \in 0 .. Len(file)
  PROVE  /\ Behind(file, n) \in CsvTexts
         /\ n = 0 => Behind(file, n) = FlatMap(LineText, file)
         /\ n = Len(file) => Behind(file, n) = << >>
         /\ n < Len(file) => /\ n + 1 \in 0 .. Len(file) /\ file[n + 1] \in Seq(Inner)
                             /\ Behind(file, n + 1) \in CsvTexts
                             /\ Behind(file, n) = file[n + 1] \o (<<"n">> \o Behind(file, n + 1))
<1>1. Len(file) \in Nat /\ n \in Nat /\ file \in Seq(CsvTexts)
  BY InnerTexts
<1>2. ASSUME NEW k \in 0 .. Len(file)
      PROVE  SubSeq(file, k + 1, Len(file)) \in Seq(CsvTexts) /\ Behind(file, k) \in CsvTexts
  <2>1. SubSeq(file, k + 1, Len(file)) \in Seq(CsvTexts)
    <3>1. \A i \in k + 1 .. Len(file) : file[i] \in CsvTexts
      BY <1>1
    <3> QED
      BY <1>1, <3>1, SubSeqProperties
  <2> QED
    BY <2>1, TextsBegin, Zenon DEF Behind
<1>3. n = 0 => Behind(file, n) = FlatMap(LineText, file)
  <2>1. n = 0 => n + 1 = 1
    OBVIOUS
  <2>2. SubSeq(file, 1, Len(file)) = file
    BY SubSeqFull, Zenon
  <2> QED
    BY <2>1, <2>2, Zenon DEF Behind
<1>4. n = Len(file) => Behind(file, n) = << >>
  <2>1. n = Len(file) => SubSeq(file, n + 1, Len(file)) = << >>
    BY <1>1, SubSeqEmpty
  <2> QED
    BY <2>1, FlatMapNone, Zenon DEF Behind
<1>5. ASSUME n < Len(file)
      PROVE  /\ n + 1 \in 0 .. Len(file) /\ file[n + 1] \in Seq(Inner)
             /\ Behind(file, n + 1) \in CsvTexts
             /\ Behind(file, n) = file[n + 1] \o (<<"n">> \o Behind(file, n + 1))
  <2> DEFINE part == SubSeq(file, n + 1, Len(file))
             l == file[n + 1]
             below == Behind(file, n + 1)
  <2>1. /\ n + 1 \in 0 .. Len(file) /\ n + 1 \in 1 .. Len(file) /\ Len(file) \in n + 1 .. Len(file)
        /\ l \in Seq(Inner) /\ l \in CsvTexts
    <3>1. n + 1 \in 0 .. Len(file) /\ n + 1 \in 1 .. Len(file) /\ Len(file) \in n + 1 .. Len(file)
      BY <1>1, <1>5
    <3> QED
      BY <3>1, InnerTexts, ElementOfSeq
  <2>2. part \in Seq(CsvTexts) /\ below \in CsvTexts
    BY <1>2, <2>1, Zenon
  <2>3. Head(part) = l /\ Tail(part) = SubSeq(file, (n + 1) + 1, Len(file)) /\ part # << >>
    <3>1. Head(part) = l /\ Tail(part) = SubSeq(file, (n + 1) + 1, Len(file))
      BY <2>1, HeadTailOfSubSeq, Zenon
    <3>2. Len(part) # 0
      <4>1. \A i \in n + 1 .. Len(file) : file[i] \in CsvTexts
        BY <1>1
      <4>2. n + 1 <= Len(file) /\ Len(file) - (n + 1) + 1 # 0 /\ n + 1 \in Int /\ Len(file) \in Int
        BY <1>1, <1>5
      <4> QED
        BY <4>1, <4>2, SubSeqProperties
    <3> HIDE DEF part
    <3>3. part # << >>
      BY <3>2, EmptySeq
    <3> QED
      BY <3>1, <3>3
  <2>4. Behind(file, n) = LineText[l] \o below
    BY <2>2, <2>3, TextsBegin, Zenon DEF Behind
  <2>5. <<"n">> \in Seq(Chars) /\ "n" \in Chars
    <3>1. "n" \in Chars
      BY DEF Chars
    <3> QED
      BY <3>1, CharTexts, Zenon DEF CsvTexts
  <2>6. LineText[l] = l \o <<"n">>
    BY <2>1, <2>5, AppendIsConcat, Zenon DEF LineText, CsvTexts
  <2> HIDE DEF part, l, below
  <2>7. (l \o <<"n">>) \o below = l \o (<<"n">> \o below)
    <3>1. Regroups(l, <<"n">>, below)
      BY <2>1, <2>2, <2>5, Regroup, Zenon DEF CsvTexts
    <3> QED
      BY <3>1, Zenon DEF Regroups
  <2>8. Behind(file, n) = l \o (<<"n">> \o below)
    BY <2>4, <2>6, <2>7, Zenon
  <2> QED
    BY <2>1, <2>2, <2>8, Zenon DEF l, below
<1> QED
  BY <1>2, <1>3, <1>4, <1>5, Zenon

-----------------------------------------------------------------------------
(* The reader of a file that was written from a table.                     *)

\* A line of a row is read: the row goes on with the next line, or it is read.
LEMMA RowRead ==
  ASSUME NEW row, NEW left \in Seq(CsvRows), NEW text \in Seq(Inner), NEW next \in CsvTexts,
         NEW start \in Parses, start.next = 1,
         InRow(row, RowEnd(left), text, <<"n">> \o next, start)
  PROVE  LET p == ParseLine(text, start)
         IN /\ p \in Parses
            /\ p.quotes => InField(row, RowEnd(left), p.tokens, Append(p.sb, "n"), next)
            /\ ~ p.quotes => Append(p.tokens, p.sb) = row /\ next = FlatMap(RowText, left)
<1> DEFINE others == FlatMap(RowText, left)
           end == <<"n">> \o others
           behind == <<"n">> \o next
           p == ParseLine(text, start)
<1>1. others \in CsvTexts /\ RowEnd(left) = end /\ Ended(end) /\ Ended(behind)
  <2>1. "n" \in Chars
    BY DEF Chars
  <2>2. others \in CsvTexts
    BY TextsBegin, Zenon
  <2>3. RowEnd(left) = end
    BY Zenon DEF RowEnd
  <2> HIDE DEF others
  <2>4. Ended(end) /\ Ended(behind)
    BY <2>1, <2>2, OneMore, Zenon DEF Ended
  <2> QED
    BY <2>2, <2>3, <2>4
<1>2. LineOf(end, text, behind) /\ InRow(row, end, text, behind, start)
  <2>1. InRow(row, RowEnd(left), text, behind, start)
    OBVIOUS
  <2> QED
    BY <1>1, <2>1, Zenon DEF LineOf
<1>3. p \in Parses /\ p.next = Len(text) + 1 /\ InRow(row, end, text, behind, p)
  <2> HIDE DEF end, behind
  <2> QED
    BY <1>2, LineParsed, Zenon
<1> HIDE DEF others, p
<1>4. /\ p.quotes => InField(row, end, p.tokens, Append(p.sb, "n"), next)
      /\ ~ p.quotes => Append(p.tokens, p.sb) = row /\ next = others
  BY <1>1, <1>2, <1>3, LineEnds
<1> QED
  BY <1>1, <1>3, <1>4, Zenon DEF others, p

\* A field within quotes is not at its end.
LEMMA NotClosed ==
  ASSUME NEW row, NEW end \in CsvTexts, NEW ts, NEW s, NEW rest, InField(row, end, ts, s, rest)
  PROVE  rest # << >>
<1>1. PICK more \in CsvTexts, fields \in Seq(CsvTexts) : rest = Closing(more, fields, end)
  BY Zenon DEF InField
<1>2. "q" \in Chars /\ FieldEnd(fields, end) \in CsvTexts
  <2>1. "q" \in Chars
    BY DEF Chars
  <2> QED
    BY <2>1, FieldEndIs, Zenon
<1>3. CASE more = << >>
  <2>1. rest = <<"q">> \o FieldEnd(fields, end)
    BY <1>1, <1>3, ClosingIs, Zenon
  <2> QED
    BY <1>2, <2>1, OneMore, Zenon
<1>4. CASE more # << >>
  <2> DEFINE z == Closing(Tail(more), fields, end)
             c == Head(more)
  <2>1. c \in Chars /\ z \in CsvTexts /\ rest = CharText[c] \o z
    <3>1. c \in Chars /\ Tail(more) \in CsvTexts /\ Closing(more, fields, end) = CharText[c] \o z
      BY <1>4, ClosingIs, Zenon
    <3>2. z \in CsvTexts
      BY <3>1, ClosingIs, Zenon
    <3> QED
      BY <1>1, <3>1, <3>2, Zenon
  <2> HIDE DEF c, z
  <2>2. CharText[c] \in Seq(Chars) /\ CharText[c] # << >>
    <3>1. <<c>> # << >> /\ <<"q", "q">> # << >>
      OBVIOUS
    <3> QED
      BY <2>1, <3>1, PartTypes, Zenon DEF CharText
  <2>3. CharText[c] \o z # << >>
    BY <2>1, <2>2, HeadOfConcat DEF CsvTexts
  <2> QED
    BY <2>1, <2>3, Zenon
<1> QED
  BY <1>3, <1>4

\* No text is that of no rows.
LEMMA NoRowsLeft ==
  ASSUME NEW left \in Seq(CsvRows)
  PROVE  FlatMap(RowText, left) = << >> <=> left = << >>
<1>1. ASSUME left # << >> PROVE FlatMap(RowText, left) # << >>
  <2> DEFINE first == RowText[Head(left)]
             below == FlatMap(RowText, Tail(left))
  <2>1. Head(left) \in CsvRows /\ Tail(left) \in Seq(CsvRows)
    BY <1>1, HeadTailProperties, Zenon
  <2>2. first \in Seq(Chars) /\ below \in Seq(Chars) /\ FlatMap(RowText, left) = first \o below
    BY <1>1, <2>1, PartTypes, TextsBegin, Zenon DEF CsvTexts
  <2>3. first # << >>
    <3>1. "n" \in Chars /\ Joined(Head(left)) \in Seq(Chars)
      BY <2>1, JoinedType DEF CsvRows, CsvTexts, Chars
    <3>2. Append(Joined(Head(left)), "n") # << >>
      BY <3>1, AppendProperties, ZenonT(40)
    <3> QED
      BY <2>1, <3>2, Zenon DEF RowText
  <2> HIDE DEF first, below
  <2>4. first \o below # << >>
    BY <2>2, <2>3, HeadOfConcat
  <2> QED
    BY <2>2, <2>4, Zenon
<1>2. FlatMap(RowText, << >>) = << >>
  BY FlatMapNone, Zenon
<1> QED
  BY <1>1, <1>2, Zenon

\* Rows that were read, one more, and those that are left.
LEMMA RowsMove ==
  ASSUME NEW done \in Seq(Seq(CsvTexts)), NEW row \in CsvRows, NEW left \in Seq(CsvRows)
  PROVE  Append(done, row) \o left = done \o (<<row>> \o left)
<1>1. CsvRows \subseteq Seq(CsvTexts)
  BY DEF CsvRows
<1> HIDE DEF CsvRows
<1>2. row \in Seq(CsvTexts) /\ left \in Seq(Seq(CsvTexts))
  BY <1>1, SeqMonotonic
<1> HIDE DEF CsvTexts
<1>3. <<row>> \in Seq(Seq(CsvTexts))
  BY <1>2
<1>4. Append(done, row) = done \o <<row>>
  BY <1>2, AppendIsConcat, Zenon
<1>5. Regroups(done, <<row>>, left)
  BY <1>2, <1>3, Regroup, Zenon
<1> QED
  BY <1>4, <1>5, Zenon DEF Regroups

\* The file of a table.
LEMMA WrittenStart == CsvInit => WrittenInv
<1> SUFFICES ASSUME CsvInit, csvTable # << >> PROVE WrittenInv
  BY DEF WrittenInv
<1>1. csvTable \in Tables /\ csvFile = Written(csvTable)
  BY DEF CsvInit
<1>2. csvTable \in Seq(CsvRows)
  <2>1. ASSUME NEW k \in 1 .. MaxFields, NEW row \in [1 .. k -> Fields] PROVE row \in CsvRows
    <3>1. Fields \subseteq CsvTexts
      BY FieldsAssumption DEF CsvTexts
    <3>2. k \in Nat /\ 1 \in 1 .. k /\ row \in [1 .. k -> CsvTexts]
      BY <3>1, MaxFieldsAssumption
    <3>3. row \in Seq(CsvTexts) /\ Len(row) = k /\ k # 0
      BY <3>2
    <3>4. row # << >>
      BY <3>3, EmptySeq
    <3> QED
      BY <3>3, <3>4 DEF CsvRows
  <2>2. UNION {[1 .. k -> Fields] : k \in 1 .. MaxFields} \subseteq CsvRows
    BY <2>1
  <2>3. PICK k \in 0 .. MaxRows : csvTable \in [1 .. k -> CsvRows]
    BY <1>1, <2>2 DEF Tables, SeqsTo
  <2>4. k \in Nat
    BY <2>3, MaxFieldsAssumption
  <2> QED
    BY <2>3, <2>4, SeqDef
<1>3. csvFile \in Seq(Seq(Inner)) /\ FlatMap(LineText, csvFile) = FlatMap(RowText, csvTable)
  BY <1>1, <1>2, WrittenIs, Zenon
<1>4. Behind(csvFile, 0) = FlatMap(RowText, csvTable)
  <2>1. 0 \in 0 .. Len(csvFile)
    BY <1>3
  <2> QED
    BY <1>3, <2>1, BehindIs, Zenon
<1>5. << >> \o csvTable = csvTable
  BY <1>2, ConcatEmptySeq, Zenon
<1>6. rows \o csvTable = csvTable /\ Behind(csvFile, line) = FlatMap(RowText, csvTable)
  BY <1>4, <1>5, Zenon DEF CsvInit
<1> QED
  BY <1>2, <1>3, <1>6, Zenon DEF WrittenInv, CsvInit

\* Reading a line keeps the invariant, whether it begins a row or goes on with one.
LEMMA RowKept ==
  ASSUME CsvTypes, csvTable \in Seq(CsvRows), csvFile \in Seq(Seq(Inner)), hasNext,
         NextLine, UNCHANGED <<csvTable, csvFile, hasNext>>,
         NEW row \in CsvRows, NEW left \in Seq(CsvRows), rows \o (<<row>> \o left) = csvTable,
         NEW start \in Parses, start.next = 1,
         InRow(row, RowEnd(left), csvFile[line'], <<"n">> \o Behind(csvFile, line'), start),
         Parsed(ParseLine(csvFile[line'], start))
  PROVE  WrittenInv'
<1> DEFINE text == csvFile[line']
           next == Behind(csvFile, line')
           p == ParseLine(text, start)
<1>1. text \in Seq(Inner) /\ next \in CsvTexts
  <2>1. line' = line + 1 /\ line \in 0 .. Len(csvFile) /\ line < Len(csvFile)
    BY DEF NextLine, CsvTypes
  <2> QED
    BY <2>1, BehindIs, Zenon
<1>2. /\ csvTable' = csvTable /\ csvFile' = csvFile /\ rows \in Seq(Seq(CsvTexts))
      /\ csvTable' \in Seq(CsvRows) /\ csvFile' \in Seq(Seq(Inner)) /\ hasNext'
  BY DEF CsvTypes
<1>3. Behind(csvFile, line)' = next
  BY <1>2, Zenon
<1>4. /\ p \in Parses
      /\ p.quotes => InField(row, RowEnd(left), p.tokens, Append(p.sb, "n"), next)
      /\ ~ p.quotes => Append(p.tokens, p.sb) = row /\ next = FlatMap(RowText, left)
  <2>1. InRow(row, RowEnd(left), text, <<"n">> \o next, start)
    BY Zenon
  <2> HIDE DEF text, next
  <2> QED
    BY <1>1, <2>1, RowRead, Zenon
<1>5. p.quotes \in BOOLEAN
  BY <1>4 DEF Parses
<1>6. Parsed(p)
  BY Zenon
<1> HIDE DEF p, next, text
<1>7. CASE p.quotes
  <2>1. tokens' = p.tokens /\ sb' = p.sb /\ inQuotes' = TRUE /\ rows' = rows
    BY <1>6, <1>7 DEF Parsed
  <2>2. rows' \o (<<row>> \o left) = csvTable'
    BY <1>2, <2>1, Zenon
  <2>3. InField(row, RowEnd(left), tokens', Append(sb', "n"), Behind(csvFile, line)')
    BY <1>3, <1>4, <1>7, <2>1, Zenon
  <2>4. hasNext' /\ inQuotes'
    BY <1>2, <2>1
  <2> QED
    BY <1>2, <2>2, <2>3, <2>4, Zenon DEF WrittenInv
<1>8. CASE ~ p.quotes
  <2>1. inQuotes' = FALSE /\ rows' = Append(rows, row)
    BY <1>4, <1>6, <1>8, Zenon DEF Parsed
  <2>2. rows' \o left = csvTable'
    BY <1>2, <2>1, RowsMove, Zenon
  <2>3. Behind(csvFile, line)' = FlatMap(RowText, left)
    BY <1>3, <1>4, <1>8, Zenon
  <2>4. hasNext' /\ ~ inQuotes'
    BY <1>2, <2>1
  <2> QED
    BY <1>2, <2>2, <2>3, <2>4, Zenon DEF WrittenInv
<1> QED
  BY <1>5, <1>7, <1>8

\* And so does every step: at the end of the file no row is left.
LEMMA WrittenStep == CsvInv /\ WrittenInv /\ [CsvNext]_csvVars => WrittenInv'
<1> SUFFICES ASSUME CsvInv, WrittenInv, [CsvNext]_csvVars, csvTable # << >>, csvTable' = csvTable
             PROVE  WrittenInv'
  <2>1. [CsvNext]_csvVars => csvTable' = csvTable
    BY DEF CsvNext, ReadNext, ReadOn, EndOfFile, csvVars
  <2>2. csvTable' = << >> => WrittenInv'
    BY Zenon DEF WrittenInv
  <2> QED
    BY <2>1, <2>2, Zenon
<1>0. /\ CsvTypes /\ csvTable \in Seq(CsvRows) /\ csvFile \in Seq(Seq(Inner))
      /\ line \in 0 .. Len(csvFile) /\ rows \in Seq(Seq(CsvTexts))
  BY DEF CsvInv, CsvTypes, WrittenInv
<1> DEFINE text == csvFile[line']
           next == Behind(csvFile, line')
<1>1. ASSUME NextLine
      PROVE  /\ text \in CsvTexts /\ next \in CsvTexts
             /\ Behind(csvFile, line) = text \o (<<"n">> \o next)
  <2>1. line' = line + 1 /\ line < Len(csvFile)
    BY <1>1 DEF NextLine
  <2>2. csvFile[line + 1] \in CsvTexts
    BY <1>0, <2>1, BehindIs, InnerTexts
  <2> QED
    BY <1>0, <2>1, <2>2, BehindIs, Zenon
<1>2. CASE ReadNext
  <2> DEFINE start == [tokens |-> << >>, sb |-> << >>, quotes |-> FALSE, next |-> 1]
  <2>1. start \in Parses
    BY DEF Parses, CsvTexts
  <2>2. start.tokens = << >> /\ start.sb = << >> /\ start.quotes = FALSE /\ start.next = 1
    OBVIOUS
  <2>3. /\ hasNext /\ ~ inQuotes /\ NextLine /\ UNCHANGED <<csvTable, csvFile, hasNext>>
        /\ Parsed(ParseLine(text, start))
    BY <1>2, Zenon DEF ReadNext
  <2>4. PICK left \in Seq(CsvRows) :
          rows \o left = csvTable /\ Behind(csvFile, line) = FlatMap(RowText, left)
    BY <2>3, Zenon DEF WrittenInv
  <2> HIDE DEF start, text, next
  <2>5. left # << >>
    <3>1. text \o (<<"n">> \o next) # << >>
      <4>1. <<"n">> \o next \in CsvTexts /\ <<"n">> \o next # << >>
        <5>1. "n" \in Chars
          BY DEF Chars
        <5> QED
          BY <1>1, <2>3, <5>1, OneMore, Zenon
      <4> QED
        BY <1>1, <2>3, <4>1, ConcatEqualIffEmpty DEF CsvTexts
    <3> QED
      BY <1>1, <2>3, <2>4, <3>1, NoRowsLeft, Zenon
  <2> DEFINE row == Head(left)
             below == Tail(left)
  <2>6. row \in CsvRows /\ below \in Seq(CsvRows) /\ left = <<row>> \o below
    <3>1. << >> \in Seq(CsvRows)
      <4> HIDE DEF CsvRows
      <4> QED
        OBVIOUS
    <3> QED
      BY <2>5, <3>1, HeadOfConcat, Zenon
  <2>7. RowText[row] \o FlatMap(RowText, below) = text \o (<<"n">> \o next)
    BY <1>1, <2>3, <2>4, <2>5, TextsBegin, Zenon
  <2> HIDE DEF row, below
  <2>8. InRow(row, RowEnd(below), text, <<"n">> \o next, start)
    BY <1>1, <2>2, <2>3, <2>6, <2>7, LineBegins, Zenon
  <2>9. rows \o (<<row>> \o below) = csvTable
    BY <2>4, <2>6, Zenon
  <2> QED
    BY <1>0, <2>1, <2>2, <2>3, <2>6, <2>8, <2>9, RowKept, Zenon DEF text, next
<1>3. CASE ReadOn
  <2> DEFINE s == Append(sb, "n")
             start == [tokens |-> tokens, sb |-> s, quotes |-> TRUE, next |-> 1]
  <2>1. tokens \in Seq(CsvTexts) /\ s \in CsvTexts
    BY <1>0, AppendProperties DEF CsvTypes, CsvTexts, Chars
  <2>3. /\ inQuotes /\ hasNext /\ NextLine /\ UNCHANGED <<csvTable, csvFile, hasNext>>
        /\ Parsed(ParseLine(text, start))
    BY <1>3, Zenon DEF ReadOn, CsvInv
  <2>4. PICK row \in CsvRows, left \in Seq(CsvRows) :
          /\ rows \o (<<row>> \o left) = csvTable
          /\ InField(row, RowEnd(left), tokens, s, Behind(csvFile, line))
    BY <2>3, Zenon DEF WrittenInv
  <2> HIDE DEF s
  <2>5. start \in Parses
    BY <2>1 DEF Parses
  <2>6. start.tokens = tokens /\ start.sb = s /\ start.quotes = TRUE /\ start.next = 1
    OBVIOUS
  <2> HIDE DEF start, text, next
  <2>7. Ahead(text, start.next, <<"n">> \o next) = Behind(csvFile, line)
    BY <1>1, <2>3, <2>6, AllAhead, Zenon
  <2>8. InRow(row, RowEnd(left), text, <<"n">> \o next, start)
    BY <2>4, <2>6, <2>7, Zenon DEF InRow
  <2> QED
    BY <1>0, <2>3, <2>4, <2>5, <2>6, <2>8, RowKept, Zenon DEF text, next
<1>4. CASE EndOfFile
  <2>1. hasNext /\ line = Len(csvFile) /\ hasNext' = FALSE /\ csvFile' = csvFile
    BY <1>4 DEF EndOfFile
  <2>2. Behind(csvFile, line) = << >>
    BY <1>0, <2>1, BehindIs, Zenon
  <2>3. ~ inQuotes
    <3> SUFFICES ASSUME inQuotes PROVE FALSE
      OBVIOUS
    <3>1. PICK row \in CsvRows, left \in Seq(CsvRows) :
            InField(row, RowEnd(left), tokens, Append(sb, "n"), Behind(csvFile, line))
      BY <2>1, Zenon DEF WrittenInv
    <3>2. RowEnd(left) \in CsvTexts
      BY RowIs, Zenon
    <3> QED
      BY <2>2, <3>1, <3>2, NotClosed, Zenon
  <2>4. PICK left \in Seq(CsvRows) :
          rows \o left = csvTable /\ Behind(csvFile, line) = FlatMap(RowText, left)
    BY <2>1, <2>3, Zenon DEF WrittenInv
  <2>5. left = << >>
    BY <2>2, <2>4, NoRowsLeft, Zenon
  <2>6. rows = csvTable
    BY <1>0, <2>4, <2>5, ConcatEmptySeq, Zenon
  <2>7. rows' = csvTable'
    BY <1>4, <2>3, <2>6, Zenon DEF EndOfFile
  <2> QED
    BY <1>0, <2>1, <2>7, Zenon DEF WrittenInv
<1>5. CASE UNCHANGED csvVars
  BY <1>5, Zenon DEF csvVars, WrittenInv
<1> QED
  BY <1>2, <1>3, <1>4, <1>5 DEF CsvNext

\* WrittenRowsRead, for tables of any size and whatever is in their fields: what another
\* program writes, with fields in quotes and quotes doubled, readNext reads back row by row,
\* and at the end of the file it has read all of them.
THEOREM RowsReadBack == CsvSpec => []WrittenRowsRead
<1>1. CsvInv /\ WrittenInv => WrittenRowsRead
  <2> SUFFICES ASSUME CsvInv, WrittenInv, csvTable # << >>
               PROVE  IsPrefix(rows, csvTable) /\ (~ hasNext => rows = csvTable)
    BY DEF WrittenRowsRead
  <2>1. rows \in Seq(Seq(CsvTexts)) /\ hasNext \in BOOLEAN /\ inQuotes \in BOOLEAN
    BY DEF CsvInv, CsvTypes
  <2>2. PICK more \in Seq(Seq(CsvTexts)) : rows \o more = csvTable
    <3>1. CsvRows \subseteq Seq(CsvTexts)
      BY DEF CsvRows
    <3> HIDE DEF CsvRows, CsvTexts
    <3>2. CASE hasNext /\ ~ inQuotes
      <4>1. PICK left \in Seq(CsvRows) : rows \o left = csvTable
        BY <3>2, Zenon DEF WrittenInv
      <4>2. left \in Seq(Seq(CsvTexts))
        BY <3>1, SeqMonotonic
      <4> QED
        BY <4>1, <4>2, Zenon
    <3>3. CASE hasNext /\ inQuotes
      <4>1. PICK row \in CsvRows, left \in Seq(CsvRows) : rows \o (<<row>> \o left) = csvTable
        BY <3>3, Zenon DEF WrittenInv
      <4>2. row \in Seq(CsvTexts) /\ left \in Seq(Seq(CsvTexts))
        BY <3>1, SeqMonotonic
      <4>3. <<row>> \o left \in Seq(Seq(CsvTexts))
        BY <4>2
      <4> QED
        BY <4>1, <4>3, Zenon
    <3>4. CASE ~ hasNext
      <4>1. rows \o << >> = csvTable
        BY <2>1, <3>4, ConcatEmptySeq, Zenon DEF WrittenInv
      <4>2. << >> \in Seq(Seq(CsvTexts))
        OBVIOUS
      <4> QED
        BY <4>1, <4>2, Zenon
    <3> QED
      BY <2>1, <3>2, <3>3, <3>4
  <2>3. IsPrefix(rows, csvTable)
    BY <2>1, <2>2, IsPrefixOf, Zenon
  <2>4. ~ hasNext => rows = csvTable
    BY Zenon DEF WrittenInv
  <2> QED
    BY <2>3, <2>4
<1> QED
  BY <1>1, CsvStart, CsvStep, WrittenStart, WrittenStep, PTL DEF CsvSpec
=============================================================================
