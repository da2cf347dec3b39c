------------------------------ MODULE UrlCode ------------------------------
(***************************************************************************)
(* urlcode.c, and the body adsense_login makes with it: the fields of the  *)
(* form are joined first and the whole is encoded afterwards, so that '&'  *)
(* and '=' have to be left as they are.                                    *)
(***************************************************************************)
EXTENDS Naturals, SequencesExt

CONSTANTS UrlBytes,     \* the bytes a typed text is made of
          MaxEmail,     \* bytes of an e-mail address (a bound)
          MaxPassword   \* bytes of a password (a bound)

\* A C string holds no byte 0.
ASSUME UrlBytesAssumption == UrlBytes \subseteq 1 .. 255
ASSUME MaxTypedAssumption == MaxEmail \in Nat /\ MaxPassword \in Nat

VARIABLES email,      \* nativeUserName
          password,   \* nativePassWord
          pstr,       \* what url_encode has still to read of params
          pbuf        \* what it has written

urlVars == <<email, password, pstr, pbuf>>

Amp == 38
Plus == 43
Percent == 37
Equals == 61
Space == 32

\* isalnum and isdigit in the C locale.
IsDigit(c) == c \in 48 .. 57
IsAlnum(c) == IsDigit(c) \/ c \in 65 .. 90 \/ c \in 97 .. 122

\* Mutant: '+' is left as it is.
KeptWithPlus(c) == IsAlnum(c) \/ c \in {45, 95, 46, 126, Equals, Amp, Plus}

\* Letters, digits, '-', '_', '.', '~', '=' and '&'.
Kept(c) == IsAlnum(c) \/ c \in {45, 95, 46, 126, Equals, Amp}

\* Mutant: the code is not masked.
ToHexUnmasked(n) == IF n < 10 THEN 48 + n ELSE 97 + (n - 10)

\* Mutant: the letters are counted from 'b'.
ToHexFromB(n) == IF n % 16 < 10 THEN 48 + (n % 16) ELSE 98 + ((n % 16) - 10)

\* to_hex masks with 15, so that the sign a char may have does not matter.
ToHex(n) == IF n % 16 < 10 THEN 48 + (n % 16) ELSE 97 + ((n % 16) - 10)

ToLower(c) == IF c \in 65 .. 90 THEN c + 32 ELSE c

FromHex(c) == IF IsDigit(c) THEN c - 48 ELSE ToLower(c) - 97 + 10

EncodeByte(c) ==
  IF Kept(c) THEN <<c>>
  ELSE IF c = Space THEN <<Plus>>
  ELSE <<Percent, ToHex(c \div 16), ToHex(c)>>

\* url_decode: a '%' without two more bytes is dropped.
UrlDecode(str) ==
  LET decoded[i \in 1 .. Len(str) + 1] ==
        CASE i > Len(str) -> << >>
          [] i <= Len(str) /\ str[i] = Percent /\ i + 2 <= Len(str) ->
               <<16 * FromHex(str[i + 1]) + FromHex(str[i + 2])>> \o decoded[i + 3]
          [] i <= Len(str) /\ str[i] = Percent /\ i + 2 > Len(str) -> decoded[i + 1]
          [] i <= Len(str) /\ str[i] = Plus -> <<Space>> \o decoded[i + 1]
          [] OTHER -> <<str[i]>> \o decoded[i + 1]
  IN decoded[1]
-----------------------------------------------------------------------------
(* adsense_login. *)

\* The names of the fields, by one letter each: the fixed ones, then Email and
\* Passwd.
FixedField == <<70, Equals, 49>>
EmailField == <<69, Equals>>
PasswdField == <<80, Equals>>

Params == FixedField \o <<Amp>> \o EmailField \o email \o <<Amp>> \o PasswdField \o password

Texts(n) == UNION {[1 .. k -> UrlBytes] : k \in 0 .. n}

UrlInit ==
  /\ email \in Texts(MaxEmail) /\ password \in Texts(MaxPassword)
  /\ pstr = Params /\ pbuf = << >>

\* One round of the loop.
EncodeNext ==
  /\ pstr # << >>
  /\ pbuf' = pbuf \o EncodeByte(Head(pstr))
  /\ pstr' = Tail(pstr)
  /\ UNCHANGED <<email, password>>

UrlNext == EncodeNext

UrlSpec == UrlInit /\ [][UrlNext]_urlVars
-----------------------------------------------------------------------------
(* What a server reads: fields end at '&', a name at the first '='. *)

UpTo(c, str) == IF \E i \in DOMAIN str : str[i] = c
                THEN SubSeq(str, 1, (CHOOSE i \in DOMAIN str :
                                       str[i] = c /\ \A k \in 1 .. i - 1 : str[k] # c) - 1)
                ELSE str

\* The parts between the '&' of a text: one more than there are '&'.
Borders(str) == {0, Len(str) + 1} \cup {i \in DOMAIN str : str[i] = Amp}

Neighbours(i, j, borders) == i < j /\ \A k \in borders : ~ (i < k /\ k < j)

Parts(str) == {SubSeq(str, e[1] + 1, e[2] - 1) :
                 e \in {d \in Borders(str) \X Borders(str) : Neighbours(d[1], d[2], Borders(str))}}

\* What a text has for a field, and what a server makes of it.
FieldTexts(field, str) == {SubSeq(part, Len(field) + 1, Len(part)) :
                             part \in {p \in Parts(str) : IsPrefix(field, p)}}

FieldValues(field, body) == {UrlDecode(value) : value \in FieldTexts(field, body)}
-----------------------------------------------------------------------------
(* Properties. *)

\* The encoder loses nothing, at any point of its loop: what it has written
\* decodes to what it has read.
EncodedSoFar == UrlDecode(pbuf) \o pstr = Params

\* Its buffer is long enough, and holds only what a body may hold.
EncodedFits ==
  /\ Len(pbuf) <= 3 * (Len(Params) - Len(pstr))
  /\ \A i \in DOMAIN pbuf : Kept(pbuf[i]) \/ pbuf[i] \in {Plus, Percent}

\* Encoding the joined fields gives the server the fields that were joined, no more
\* and no fewer.  A '&' is left as it is, and ends the field it is typed in: what
\* stands before it is read, and what follows is a field of its own, of whatever name.
\* So where none is typed, the server reads what was typed.
FieldsReadBack ==
  pstr = << >> =>
    /\ \A field \in {EmailField, PasswdField} : FieldValues(field, pbuf) = FieldTexts(field, Params)
    /\ UpTo(Amp, email) \in FieldValues(EmailField, pbuf)
    /\ UpTo(Amp, password) \in FieldValues(PasswdField, pbuf)
    /\ Amp \notin ToSet(email) \cup ToSet(password) =>
         FieldValues(EmailField, pbuf) = {email} /\ FieldValues(PasswdField, pbuf) = {password}
=============================================================================
