---------------------------- MODULE Texts_proofs ----------------------------
(***************************************************************************)
(* Theorems about the parts that write a text anew, byte by byte: the      *)
(* encoding of the form, and the conversion of a report.                   *)
(***************************************************************************)
EXTENDS UrlCode, ConvertUtf, Recursion, SequenceTheorems

-----------------------------------------------------------------------------
(* url_decode goes through a text.                                         *)

DecodeStep(str, i, f) ==
  CASE i > Len(str) -> << >>
    [] i <= Len(str) /\ str[i] = Percent /\ i + 2 <= Len(str) ->
         <<16 * FromHex(str[i + 1]) + FromHex(str[i + 2])>> \o f[i + 3]
    [] i <= Len(str) /\ str[i] = Percent /\ i + 2 > Len(str) -> f[i + 1]
    [] i <= Len(str) /\ str[i] = Plus -> <<Space>> \o f[i + 1]
    [] OTHER -> <<str[i]>> \o f[i + 1]

IsDecoding(dec, str) ==
  /\ UrlDecode(str) = dec[1]
  /\ \A i \in 1 .. Len(str) + 1 : dec[i] = DecodeStep(str, i, dec)

LEMMA FromHexType == ASSUME NEW c \in Int PROVE FromHex(c) \in Int
BY DEF FromHex, ToLower, IsDigit

LEMMA DecodeStepIs ==
  ASSUME NEW str \in Seq(Int), NEW i \in 1 .. Len(str) + 1, NEW f
  PROVE  /\ i = Len(str) + 1 => DecodeStep(str, i, f) = << >>
         /\ i + 2 <= Len(str) /\ str[i] = Percent =>
              DecodeStep(str, i, f) = <<16 * FromHex(str[i + 1]) + FromHex(str[i + 2])>> \o f[i + 3]
         /\ i <= Len(str) /\ i + 2 > Len(str) /\ str[i] = Percent => DecodeStep(str, i, f) = f[i + 1]
         /\ i <= Len(str) /\ str[i] = Plus => DecodeStep(str, i, f) = <<Space>> \o f[i + 1]
         /\ i <= Len(str) /\ str[i] \notin {Percent, Plus} =>
              DecodeStep(str, i, f) = <<str[i]>> \o f[i + 1]
<1>1. Len(str) \in Nat
  OBVIOUS
<1>2. CASE i = Len(str) + 1
  <2>1. i > Len(str) /\ ~ (i <= Len(str)) /\ ~ (i + 2 <= Len(str))
    BY <1>1, <1>2
  <2> QED
    BY <2>1, <1>2, Zenon DEF DecodeStep
<1>3. CASE i <= Len(str) /\ i + 2 <= Len(str) /\ str[i] = Percent
  <2>1. ~ (i > Len(str)) /\ ~ (i + 2 > Len(str)) /\ Percent # Plus /\ i # Len(str) + 1
    BY <1>1, <1>3 DEF Percent, Plus
  <2> QED
    BY <2>1, <1>3, Zenon DEF DecodeStep
<1>4. CASE i <= Len(str) /\ i + 2 > Len(str) /\ str[i] = Percent
  <2>1. ~ (i > Len(str)) /\ ~ (i + 2 <= Len(str)) /\ Percent # Plus /\ i # Len(str) + 1
    BY <1>1, <1>4 DEF Percent, Plus
  <2> QED
    BY <2>1, <1>4, Zenon DEF DecodeStep
<1>5. CASE i <= Len(str) /\ str[i] # Percent
  <2>1. ~ (i > Len(str)) /\ i # Len(str) + 1
    BY <1>1, <1>5
  <2>2. CASE str[i] = Plus
    BY <2>1, <2>2, <1>5, Zenon DEF DecodeStep
  <2>3. CASE str[i] # Plus
    BY <2>1, <2>3, <1>5, Zenon DEF DecodeStep
  <2> QED
    BY <2>2, <2>3
<1> QED
  BY <1>1, <1>2, <1>3, <1>4, <1>5, SMTT(40)

LEMMA DecodeStepType ==
  ASSUME NEW str \in Seq(Int), NEW i \in 1 .. Len(str) + 1,
         NEW f \in [1 .. Len(str) + 1 -> Seq(Int)]
  PROVE  /\ DecodeStep(str, i, f) \in Seq(Int)
         /\ \A g \in [1 .. Len(str) + 1 -> Seq(Int)] :
              (\A j \in i + 1 .. Len(str) + 1 : f[j] = g[j]) => DecodeStep(str, i, f) = DecodeStep(str, i, g)
<1>1. /\ Len(str) \in Nat
      /\ i <= Len(str) => str[i] \in Int /\ i + 1 \in i + 1 .. Len(str) + 1
      /\ i + 2 <= Len(str) => /\ i + 3 \in i + 1 .. Len(str) + 1
                              /\ str[i + 1] \in Int /\ str[i + 2] \in Int
  OBVIOUS
<1>2. ASSUME i + 2 <= Len(str) PROVE 16 * FromHex(str[i + 1]) + FromHex(str[i + 2]) \in Int
  <2>1. FromHex(str[i + 1]) \in Int /\ FromHex(str[i + 2]) \in Int
    BY <1>1, <1>2, FromHexType
  <2> QED
    BY <2>1
<1>3. ASSUME NEW x \in Int, NEW s \in Seq(Int) PROVE <<x>> \o s \in Seq(Int)
  OBVIOUS
<1>4. Space \in Int /\ << >> \in Seq(Int)
  BY DEF Space
<1>5. \A j \in i + 1 .. Len(str) + 1 : f[j] \in Seq(Int)
  OBVIOUS
<1>6. ASSUME NEW g \in [1 .. Len(str) + 1 -> Seq(Int)], \A j \in i + 1 .. Len(str) + 1 : f[j] = g[j]
      PROVE  DecodeStep(str, i, f) \in Seq(Int) /\ DecodeStep(str, i, f) = DecodeStep(str, i, g)
  <2>1. CASE i = Len(str) + 1
    BY <1>4, <2>1, DecodeStepIs, ZenonT(60)
  <2>2. CASE i + 2 <= Len(str) /\ str[i] = Percent
    <3> DEFINE x == 16 * FromHex(str[i + 1]) + FromHex(str[i + 2])
    <3>1. DecodeStep(str, i, f) = <<x>> \o f[i + 3] /\ DecodeStep(str, i, g) = <<x>> \o g[i + 3]
      BY <2>2, DecodeStepIs
    <3>2. f[i + 3] = g[i + 3] /\ f[i + 3] \in Seq(Int) /\ x \in Int
      BY <1>1, <1>2, <1>6, <2>2, SMTT(40)
    <3> HIDE DEF x
    <3> QED
      BY <1>3, <3>1, <3>2
  <2>3. CASE i <= Len(str)
    <3>1. f[i + 1] = g[i + 1] /\ f[i + 1] \in Seq(Int) /\ str[i] \in Int
      BY <1>1, <1>5, <1>6, <2>3
    <3>2. CASE i + 2 > Len(str) /\ str[i] = Percent
      <4>1. DecodeStep(str, i, f) = f[i + 1] /\ DecodeStep(str, i, g) = g[i + 1]
        BY <2>3, <3>2, DecodeStepIs
      <4> QED
        BY <3>1, <4>1
    <3>3. CASE str[i] = Plus
      <4>1. /\ DecodeStep(str, i, f) = <<Space>> \o f[i + 1]
            /\ DecodeStep(str, i, g) = <<Space>> \o g[i + 1]
        BY <2>3, <3>3, DecodeStepIs
      <4> QED
        BY <1>3, <1>4, <3>1, <4>1
    <3>4. CASE str[i] \notin {Percent, Plus}
      <4>1. /\ DecodeStep(str, i, f) = <<str[i]>> \o f[i + 1]
            /\ DecodeStep(str, i, g) = <<str[i]>> \o g[i + 1]
        BY <2>3, <3>4, DecodeStepIs
      <4> QED
        BY <1>3, <3>1, <4>1
    <3> QED
      BY <1>1, <2>2, <3>2, <3>3, <3>4
  <2> QED
    BY <1>1, <2>1, <2>3
<1> QED
  BY <1>6

LEMMA DecodingExists ==
  ASSUME NEW str \in Seq(Int)
  PROVE  \E dec : IsDecoding(dec, str)
<1> DEFINE n == Len(str) + 1
           X == Seq(Int)
           step == [i \in 1 .. n |-> [f \in [1 .. n -> X] |-> DecodeStep(str, i, f)]]
<1>1. n \in Nat /\ << >> \in X /\ 1 \in 1 .. n
  OBVIOUS
<1>2. step \in [1 .. n -> [[1 .. n -> X] -> X]]
  BY DecodeStepType
<1>3. \A i \in 1 .. n : \A f \in [1 .. n -> X] : step[i][f] = DecodeStep(str, i, f)
  OBVIOUS
<1>4. \A i \in 1 .. n : \A f, g \in [1 .. n -> X] :
        (\A j \in i + 1 .. n : f[j] = g[j]) => step[i][f] = step[i][g]
  BY <1>3, DecodeStepType
<1> HIDE DEF step
<1>5. PICK g \in [1 .. n -> X] : IsRecursion(g, n, step)
  <2> HIDE DEF n, X
  <2> QED
    BY <1>1, <1>2, <1>4, RecursionExists, Zenon
<1>6. \A i \in 1 .. n : g[i] = DecodeStep(str, i, g)
  BY <1>3, <1>5 DEF IsRecursion
<1> DEFINE Equation(f) == f = [i \in 1 .. Len(str) + 1 |->
        CASE i > Len(str) -> << >>
          [] i <= Len(str) /\ str[i] = Percent /\ i + 2 <= Len(str) ->
               <<16 * FromHex(str[i + 1]) + FromHex(str[i + 2])>> \o f[i + 3]
          [] i <= Len(str) /\ str[i] = Percent /\ i + 2 > Len(str) -> f[i + 1]
          [] i <= Len(str) /\ str[i] = Plus -> <<Space>> \o f[i + 1]
          [] OTHER -> <<str[i]>> \o f[i + 1]]
<1>7. \A f : Equation(f) <=> f = [i \in 1 .. n |-> DecodeStep(str, i, f)]
  BY Zenon DEF DecodeStep
<1>8. g = [i \in 1 .. n |-> DecodeStep(str, i, g)]
  BY <1>5, <1>6
<1>9. \E f : Equation(f)
  <2> HIDE DEF Equation
  <2> QED
    BY <1>7, <1>8
<1> DEFINE decoded[i \in 1 .. Len(str) + 1] ==
        CASE i > Len(str) -> << >>
          [] i <= Len(str) /\ str[i] = Percent /\ i + 2 <= Len(str) ->
               <<16 * FromHex(str[i + 1]) + FromHex(str[i + 2])>> \o decoded[i + 3]
          [] i <= Len(str) /\ str[i] = Percent /\ i + 2 > Len(str) -> decoded[i + 1]
          [] i <= Len(str) /\ str[i] = Plus -> <<Space>> \o decoded[i + 1]
          [] OTHER -> <<str[i]>> \o decoded[i + 1]
<1>10. Equation(decoded)
  BY <1>9, Zenon
<1>11. UrlDecode(str) = decoded[1]
  BY Zenon DEF UrlDecode
<1> HIDE DEF decoded
<1>12. decoded = [i \in 1 .. n |-> DecodeStep(str, i, decoded)]
  <2> HIDE DEF Equation
  <2> QED
    BY <1>7, <1>10
<1> QED
  BY <1>11, <1>12 DEF IsDecoding

-----------------------------------------------------------------------------
(* url_encode writes a byte as itself or as three, which are read back.    *)

\* A hexadecimal digit is read as what was written.
LEMMA HexDigits ==
  ASSUME NEW n \in Nat
  PROVE  /\ ToHex(n) \in (48 .. 57) \cup (97 .. 102) /\ FromHex(ToHex(n)) = n % 16
         /\ Kept(ToHex(n)) /\ ToHex(n) # Amp
<1>1. n % 16 \in 0 .. 15
  OBVIOUS
<1>2. CASE n % 16 < 10
  <2>1. ToHex(n) = 48 + (n % 16) /\ ToHex(n) \in 48 .. 57
    BY <1>1, <1>2 DEF ToHex
  <2> QED
    BY <1>1, <2>1 DEF FromHex, IsDigit, Kept, IsAlnum, Amp
<1>3. CASE ~ (n % 16 < 10)
  <2>1. ToHex(n) = 97 + ((n % 16) - 10) /\ ToHex(n) \in 97 .. 102
    BY <1>1, <1>3 DEF ToHex
  <2> QED
    BY <1>1, <1>3, <2>1 DEF FromHex, IsDigit, ToLower, Kept, IsAlnum, Amp
<1> QED
  BY <1>2, <1>3

Octets == 1 .. 255

BodyByte(c) == Kept(c) \/ c \in {Plus, Percent}

LEMMA EncodedByte ==
  ASSUME NEW c \in Octets
  PROVE  /\ EncodeByte(c) \in Seq(Octets) /\ Len(EncodeByte(c)) \in {1, 3}
         /\ \A j \in 1 .. Len(EncodeByte(c)) : BodyByte(EncodeByte(c)[j])
         /\ Len(EncodeByte(c)) = 1 => EncodeByte(c)[1] = (IF c = Space THEN Plus ELSE c) /\ c \notin {Plus, Percent}
         /\ Len(EncodeByte(c)) = 3 =>
              /\ EncodeByte(c)[1] = Percent
              /\ 16 * FromHex(EncodeByte(c)[2]) + FromHex(EncodeByte(c)[3]) = c
              /\ \A j \in 1 .. 3 : EncodeByte(c)[j] # Amp /\ ~ Kept(c)
<1>1. CASE Kept(c)
  <2>1. EncodeByte(c) = <<c>> /\ c \notin {Plus, Percent, Space}
    BY <1>1 DEF EncodeByte, Kept, IsAlnum, IsDigit, Plus, Percent, Space, Equals, Amp
  <2> QED
    BY <1>1, <2>1 DEF BodyByte, Octets
<1>2. CASE c = Space
  <2>1. EncodeByte(c) = <<Plus>> /\ c \notin {Plus, Percent} /\ Plus \in Octets
    BY <1>2 DEF EncodeByte, Kept, IsAlnum, IsDigit, Plus, Percent, Space, Equals, Amp, Octets
  <2> QED
    BY <1>2, <2>1 DEF BodyByte
<1>3. CASE ~ Kept(c) /\ c # Space
  <2>1. c \div 16 \in Nat /\ c \in Nat /\ 16 * ((c \div 16) % 16) + (c % 16) = c
    BY DEF Octets
  <2> DEFINE d == ToHex(c \div 16)
             e == ToHex(c)
  <2>2. EncodeByte(c) = <<Percent, d, e>>
    BY <1>3 DEF EncodeByte
  <2>3. /\ d \in (48 .. 57) \cup (97 .. 102) /\ FromHex(d) = (c \div 16) % 16 /\ Kept(d) /\ d # Amp
        /\ e \in (48 .. 57) \cup (97 .. 102) /\ FromHex(e) = c % 16 /\ Kept(e) /\ e # Amp
    BY <2>1, HexDigits
  <2> HIDE DEF d, e
  <2>4. Percent \in Octets /\ Percent # Amp /\ d \in Octets /\ e \in Octets
    BY <2>3 DEF Percent, Amp, Octets
  <2>5. EncodeByte(c) \in Seq(Octets) /\ Len(EncodeByte(c)) = 3
        /\ EncodeByte(c)[1] = Percent /\ EncodeByte(c)[2] = d /\ EncodeByte(c)[3] = e
    BY <2>2, <2>4
  <2> QED
    BY <1>3, <2>1, <2>3, <2>4, <2>5 DEF BodyByte
<1> QED
  BY <1>1, <1>2, <1>3

\* off[k] is where the encoding of the k-th byte of a text begins in a buffer, which
\* holds the encodings one after the other.
Encodes(off, buf, text) ==
  /\ off \in [1 .. Len(text) + 1 -> Nat]
  /\ off[1] = 1 /\ off[Len(text) + 1] = Len(buf) + 1
  /\ \A k \in 1 .. Len(text) :
       /\ off[k + 1] = off[k] + Len(EncodeByte(text[k]))
       /\ \A j \in 1 .. Len(EncodeByte(text[k])) : buf[off[k] + (j - 1)] = EncodeByte(text[k])[j]

LEMMA OffsetsRise ==
  ASSUME NEW text \in Seq(Octets), NEW buf, NEW off, Encodes(off, buf, text)
  PROVE  \A j, k \in 1 .. Len(text) + 1 : j < k => off[j] < off[k]
<1> DEFINE n == Len(text) + 1
<1>1. n \in Nat /\ off \in [1 .. n -> Nat]
  BY DEF Encodes
<1>2. \A k \in 1 .. n : k + 1 \in 1 .. n => off[k] < off[k + 1]
  <2> SUFFICES ASSUME NEW k \in 1 .. n, k + 1 \in 1 .. n PROVE off[k] < off[k + 1]
    OBVIOUS
  <2>1. k \in 1 .. Len(text) /\ text[k] \in Octets
    OBVIOUS
  <2> DEFINE size == Len(EncodeByte(text[k]))
  <2>2. off[k + 1] = off[k] + size /\ size \in {1, 3} /\ off[k] \in Nat
    BY <1>1, <2>1, EncodedByte DEF Encodes
  <2> HIDE DEF size
  <2> QED
    BY <2>2
<1> HIDE DEF n
<1> QED
  BY <1>1, <1>2, Rising DEF n

\* What holds the encoding of a text decodes to it.
LEMMA DecodesBack ==
  ASSUME NEW text \in Seq(Octets), NEW buf \in Seq(Octets), NEW off, Encodes(off, buf, text)
  PROVE  UrlDecode(buf) = text
<1> DEFINE n == Len(text)
<1>1. /\ n \in Nat /\ Len(buf) \in Nat /\ off \in [1 .. n + 1 -> Nat]
      /\ off[1] = 1 /\ off[n + 1] = Len(buf) + 1
  BY DEF Encodes
<1>2. buf \in Seq(Int) /\ text \in Seq(Int)
  <2>1. Octets \subseteq Int
    BY DEF Octets
  <2> QED
    BY <2>1, SeqMonotonic
<1>3. PICK dec : IsDecoding(dec, buf)
  BY <1>2, DecodingExists
<1> DEFINE S == {k \in 1 .. n + 1 : dec[off[k]] = SubSeq(text, k, n)}
<1>4. \A k \in 1 .. n + 1 : off[k] \in 1 .. Len(buf) + 1
  <2> SUFFICES ASSUME NEW k \in 1 .. n + 1 PROVE 1 <= off[k] /\ off[k] <= Len(buf) + 1
    BY <1>1
  <2>1. 1 \in 1 .. n + 1 /\ n + 1 \in 1 .. n + 1
    BY <1>1
  <2>2. /\ 1 < k => off[1] < off[k]
        /\ k < n + 1 => off[k] < off[n + 1]
    BY <2>1, OffsetsRise
  <2>3. /\ k = 1 \/ 1 < k
        /\ k = n + 1 \/ k < n + 1
    BY <1>1
  <2> QED
    BY <1>1, <2>2, <2>3
<1>5. n + 1 \in S
  <2>1. dec[Len(buf) + 1] = << >>
    <3>1. dec[Len(buf) + 1] = DecodeStep(buf, Len(buf) + 1, dec)
      BY <1>1, <1>3 DEF IsDecoding
    <3>2. Len(buf) + 1 \in 1 .. Len(buf) + 1
      BY <1>1
    <3> QED
      BY <1>2, <3>1, <3>2, DecodeStepIs, Zenon
  <2>2. SubSeq(text, n + 1, n) = << >>
    BY <1>1, SubSeqEmpty
  <2>3. n + 1 \in 1 .. n + 1
    BY <1>1
  <2> HIDE DEF n
  <2> QED
    BY <1>1, <2>1, <2>2, <2>3
<1>6. ASSUME NEW k \in 1 .. n, k + 1 \in S PROVE k \in S
  <2> DEFINE c == text[k]
             e == EncodeByte(c)
             others == SubSeq(text, k + 1, n)
  <2>1. /\ dec[off[k]] = DecodeStep(buf, off[k], dec) /\ dec[off[k + 1]] = others
        /\ off[k] \in 1 .. Len(buf) + 1 /\ off[k + 1] \in 1 .. Len(buf) + 1
    BY <1>1, <1>3, <1>4, <1>6 DEF IsDecoding
  <2>2. off[k + 1] = off[k] + Len(e) /\ \A j \in 1 .. Len(e) : buf[off[k] + (j - 1)] = e[j]
    BY DEF Encodes
  <2>3. c \in Octets /\ c \in Int
    BY <1>2
  <2>4. SubSeq(text, k, n) = <<c>> \o others
    <3>1. n \in k .. Len(text)
      BY <1>1
    <3> QED
      BY <1>2, <3>1, SubSeqRecursiveFirst
  <2>0. k \in 1 .. n + 1
    BY <1>1
  <2> SUFFICES dec[off[k]] = <<c>> \o others
    <3> HIDE DEF n, c, others
    <3> QED
      BY <2>0, <2>4
  <2> HIDE DEF others, c, e, n, S
  <2>5. CASE Len(e) = 1
    <3>1. e[1] = (IF c = Space THEN Plus ELSE c) /\ c \notin {Plus, Percent}
      BY <2>3, <2>5, EncodedByte DEF e
    <3>2. buf[off[k]] = e[1] /\ off[k + 1] = off[k] + 1 /\ off[k] <= Len(buf)
      BY <1>1, <2>1, <2>2, <2>5
    <3>3. CASE c = Space
      <4>1. buf[off[k]] = Plus
        BY <3>1, <3>2, <3>3
      <4>2. DecodeStep(buf, off[k], dec) = <<Space>> \o dec[off[k] + 1]
        BY <1>2, <2>1, <3>2, <4>1, DecodeStepIs
      <4> QED
        BY <2>1, <3>2, <3>3, <4>2, Zenon
    <3>4. CASE c # Space
      <4>1. buf[off[k]] = c
        BY <3>1, <3>2, <3>4
      <4>2. DecodeStep(buf, off[k], dec) = <<buf[off[k]]>> \o dec[off[k] + 1]
        BY <1>2, <2>1, <3>1, <3>2, <4>1, DecodeStepIs
      <4> QED
        BY <2>1, <3>2, <4>1, <4>2, Zenon
    <3> QED
      BY <3>3, <3>4
  <2>6. CASE Len(e) = 3
    <3>1. e[1] = Percent /\ 16 * FromHex(e[2]) + FromHex(e[3]) = c
      BY <2>3, <2>6, EncodedByte DEF e
    <3>2. /\ buf[off[k]] = e[1] /\ buf[off[k] + 1] = e[2] /\ buf[off[k] + 2] = e[3]
          /\ off[k + 1] = off[k] + 3 /\ off[k] + 2 <= Len(buf)
      <4>1. /\ buf[off[k] + (1 - 1)] = e[1] /\ buf[off[k] + (2 - 1)] = e[2]
            /\ buf[off[k] + (3 - 1)] = e[3]
        BY <2>2, <2>6
      <4> QED
        BY <1>1, <2>1, <2>2, <2>6, <4>1, SMTT(40)
    <3>3. DecodeStep(buf, off[k], dec) =
            <<16 * FromHex(buf[off[k] + 1]) + FromHex(buf[off[k] + 2])>> \o dec[off[k] + 3]
      BY <1>2, <2>1, <3>1, <3>2, DecodeStepIs
    <3> QED
      BY <2>1, <3>1, <3>2, <3>3, Zenon
  <2> QED
    BY <2>3, <2>5, <2>6, EncodedByte DEF e
<1>7. 1 \in S
  <2>1. \A k \in 1 .. n : k + 1 \in S => k \in S
    BY <1>6
  <2>2. 1 .. n + 1 \subseteq S
    <3> HIDE DEF S, n
    <3> QED
      BY <1>1, <1>5, <2>1, CountDown
  <2>3. 1 \in 1 .. n + 1
    BY <1>1
  <2> HIDE DEF S
  <2> QED
    BY <2>2, <2>3
<1>8. SubSeq(text, 1, n) = text
  BY SubSeqFull
<1> QED
  BY <1>1, <1>3, <1>7, <1>8 DEF IsDecoding

\* One more byte.
LEMMA EncodesOne ==
  ASSUME NEW text \in Seq(Octets), NEW buf \in Seq(Octets), NEW off, Encodes(off, buf, text),
         NEW c \in Octets
  PROVE  \E next : Encodes(next, buf \o EncodeByte(c), Append(text, c))
<1> DEFINE n == Len(text)
           e == EncodeByte(c)
           more == buf \o e
           longer == Append(text, c)
           next == [k \in 1 .. n + 2 |-> IF k <= n + 1 THEN off[k] ELSE off[n + 1] + Len(e)]
<1>1. /\ n \in Nat /\ Len(buf) \in Nat /\ off \in [1 .. n + 1 -> Nat]
      /\ off[1] = 1 /\ off[n + 1] = Len(buf) + 1
  BY DEF Encodes
<1>2. /\ Len(longer) = n + 1 /\ longer[n + 1] = c /\ \A k \in 1 .. n : longer[k] = text[k]
  OBVIOUS
<1>3. e \in Seq(Octets) /\ Len(e) \in {1, 3}
  BY EncodedByte
<1>4. /\ Len(more) = Len(buf) + Len(e)
      /\ \A i \in 1 .. Len(buf) : more[i] = buf[i]
      /\ \A j \in 1 .. Len(e) : more[Len(buf) + j] = e[j]
  <2> HIDE DEF e
  <2> QED
    BY <1>1, <1>3
<1>5. /\ next \in [1 .. Len(longer) + 1 -> Nat] /\ next[1] = 1
      /\ next[n + 2] = Len(more) + 1 /\ next[n + 1] = Len(buf) + 1
      /\ \A k \in 1 .. n + 1 : next[k] = off[k]
  <2> HIDE DEF e, longer, more, n
  <2> QED
    BY <1>1, <1>2, <1>3, <1>4
<1>6. ASSUME NEW k \in 1 .. n
      PROVE  /\ next[k + 1] = next[k] + Len(EncodeByte(longer[k]))
             /\ \A j \in 1 .. Len(EncodeByte(longer[k])) :
                  more[next[k] + (j - 1)] = EncodeByte(longer[k])[j]
  <2> DEFINE f == EncodeByte(text[k])
  <2>1. /\ off[k + 1] = off[k] + Len(f) /\ \A j \in 1 .. Len(f) : buf[off[k] + (j - 1)] = f[j]
        /\ Len(f) \in {1, 3}
    <3>1. text[k] \in Octets
      OBVIOUS
    <3> QED
      BY <3>1, EncodedByte DEF Encodes
  <2>0. k \in 1 .. n + 1 /\ k + 1 \in 1 .. n + 1 /\ 1 \in 1 .. n + 1 /\ n + 1 \in 1 .. n + 1
    BY <1>1
  <2>2. next[k + 1] = off[k + 1] /\ next[k] = off[k] /\ longer[k] = text[k] /\ off[k] \in Nat
    <3> HIDE DEF next, longer, n
    <3> QED
      BY <1>1, <1>2, <1>5, <2>0
  <2>3. 1 <= off[k] /\ off[k + 1] <= Len(buf) + 1
    <3>1. /\ 1 < k => off[1] < off[k]
          /\ k + 1 < n + 1 => off[k + 1] < off[n + 1]
      BY <2>0, OffsetsRise
    <3>2. (k = 1 \/ 1 < k) /\ (k + 1 = n + 1 \/ k + 1 < n + 1)
      BY <1>1
    <3>3. off[k + 1] \in Nat
      BY <1>1, SMTT(40)
    <3> QED
      BY <1>1, <2>2, <3>1, <3>2, <3>3
  <2> HIDE DEF f, more, next, longer
  <2>4. ASSUME NEW j \in 1 .. Len(f) PROVE more[off[k] + (j - 1)] = f[j]
    <3>1. off[k] + (j - 1) \in 1 .. Len(buf)
      BY <1>1, <2>1, <2>2, <2>3
    <3> QED
      BY <1>4, <2>1, <3>1
  <2> QED
    BY <2>1, <2>2, <2>4 DEF f
<1>7. /\ next[(n + 1) + 1] = next[n + 1] + Len(EncodeByte(longer[n + 1]))
      /\ \A j \in 1 .. Len(EncodeByte(longer[n + 1])) :
           more[next[n + 1] + (j - 1)] = EncodeByte(longer[n + 1])[j]
  <2>1. (n + 1) + 1 = n + 2 /\ EncodeByte(longer[n + 1]) = e
    BY <1>1, <1>2
  <2>2. \A j \in 1 .. Len(e) : (Len(buf) + 1) + (j - 1) = Len(buf) + j
    BY <1>1, <1>3
  <2> HIDE DEF e, longer, more, n, next
  <2> QED
    BY <1>1, <1>3, <1>4, <1>5, <2>1, <2>2, SMTT(40)
<1> HIDE DEF next, more, longer, n
<1>8. \A k \in 1 .. Len(longer) : k \in 1 .. n \/ k = n + 1
  BY <1>1, <1>2
<1>9. Len(longer) + 1 = n + 2
  BY <1>1, <1>2
<1>10. Encodes(next, more, longer)
  BY <1>2, <1>5, <1>6, <1>7, <1>8, <1>9 DEF Encodes
<1> QED
  BY <1>10 DEF more, longer

-----------------------------------------------------------------------------
(* The loop of url_encode.                                                 *)

\* What was read of the parameters is what the buffer holds the encoding of.
UrlInv ==
  /\ email \in Seq(Octets) /\ password \in Seq(Octets)
  /\ pstr \in Seq(Octets) /\ pbuf \in Seq(Octets)
  /\ \E read \in Seq(Octets) : read \o pstr = Params /\ \E off : Encodes(off, pbuf, read)

LEMMA ParamsType ==
  ASSUME email \in Seq(Octets), password \in Seq(Octets)
  PROVE  Params \in Seq(Octets)
<1>1. FixedField \in Seq(Octets) /\ <<Amp>> \in Seq(Octets)
  BY DEF FixedField, Equals, Amp, Octets
<1>2. EmailField \in Seq(Octets) /\ PasswdField \in Seq(Octets)
  BY DEF EmailField, PasswdField, Equals, Octets
<1> QED
  BY <1>1, <1>2, ConcatProperties DEF Params

LEMMA TypedType == ASSUME NEW n, NEW text \in Texts(n) PROVE text \in Seq(Octets)
<1>1. PICK k \in 0 .. n : text \in [1 .. k -> UrlBytes]
  BY DEF Texts
<1>2. UrlBytes \subseteq Octets
  BY UrlBytesAssumption DEF Octets
<1>3. text \in Seq(UrlBytes)
  BY <1>1
<1> QED
  BY <1>2, <1>3, SeqMonotonic

LEMMA UrlInitInv == UrlInit => UrlInv
<1> SUFFICES ASSUME UrlInit PROVE UrlInv
  OBVIOUS
<1>1. email \in Seq(Octets) /\ password \in Seq(Octets)
  BY TypedType DEF UrlInit
<1>2. Params \in Seq(Octets) /\ << >> \in Seq(Octets)
  BY <1>1, ParamsType
<1>3. << >> \o Params = Params
  BY <1>2, ConcatEmptySeq
<1>4. Encodes([k \in 1 .. 1 |-> 1], << >>, << >>)
  BY DEF Encodes
<1> QED
  BY <1>1, <1>2, <1>3, <1>4 DEF UrlInit, UrlInv

LEMMA EncodeNextInv == UrlInv /\ EncodeNext => UrlInv'
<1> SUFFICES ASSUME UrlInv, EncodeNext PROVE UrlInv'
  OBVIOUS
<1> DEFINE c == Head(pstr)
<1>1. /\ pstr \in Seq(Octets) /\ pstr # << >> /\ pbuf \in Seq(Octets)
      /\ pbuf' = pbuf \o EncodeByte(c) /\ pstr' = Tail(pstr)
      /\ UNCHANGED <<email, password>>
  BY DEF UrlInv, EncodeNext
<1>2. c \in Octets /\ pstr' \in Seq(Octets) /\ pstr = <<c>> \o pstr'
  BY <1>1
<1>3. PICK read \in Seq(Octets) : read \o pstr = Params /\ \E off : Encodes(off, pbuf, read)
  BY DEF UrlInv
<1>4. \E off : Encodes(off, pbuf', Append(read, c))
  BY <1>1, <1>2, <1>3, EncodesOne
<1>5. pbuf' \in Seq(Octets) /\ Append(read, c) \in Seq(Octets)
  BY <1>1, <1>2, EncodedByte
<1>6. Append(read, c) \o pstr' = Params
  <2> HIDE DEF c
  <2>1. Append(read, c) = read \o <<c>> /\ <<c>> \in Seq(Octets)
    BY <1>2
  <2> QED
    <3>1. (read \o <<c>>) \o pstr' = read \o (<<c>> \o pstr')
      BY <1>2, <2>1, ConcatAssociative
    <3> QED
      BY <1>2, <1>3, <2>1, <3>1, Zenon
<1>7. Params' = Params
  BY <1>1 DEF Params
<1> QED
  BY <1>1, <1>2, <1>4, <1>5, <1>6, <1>7 DEF UrlInv

LEMMA UrlInvHolds == UrlSpec => []UrlInv
<1>1. UrlInv /\ [UrlNext]_urlVars => UrlInv'
  <2>1. CASE UrlNext
    BY <2>1, EncodeNextInv DEF UrlNext
  <2>2. CASE UNCHANGED urlVars
    BY <2>2 DEF UrlInv, urlVars, Params
  <2> QED
    BY <2>1, <2>2
<1> QED
  BY <1>1, UrlInitInv, PTL DEF UrlSpec

\* url_encode loses nothing of what it has read, at any point of its loop and of texts of
\* any length and any bytes: what it has written decodes to it.
THEOREM NothingLost == UrlSpec => []EncodedSoFar
<1>1. UrlInv => EncodedSoFar
  BY DecodesBack DEF UrlInv, EncodedSoFar
<1> QED
  BY <1>1, UrlInvHolds, PTL

FitsInv ==
  /\ Len(pbuf) <= 3 * (Len(Params) - Len(pstr))
  /\ \A i \in 1 .. Len(pbuf) : BodyByte(pbuf[i])

\* The buffer of three bytes for each of the text is never overrun, and is filled with
\* letters, digits and the marks a body may hold.
THEOREM BufferHolds == UrlSpec => []EncodedFits
<1>1. UrlInit => FitsInv
  BY DEF UrlInit, FitsInv
<1>2. UrlInv /\ FitsInv /\ [UrlNext]_urlVars => FitsInv'
  <2> SUFFICES ASSUME UrlInv, FitsInv, [UrlNext]_urlVars PROVE FitsInv'
    OBVIOUS
  <2>1. CASE UrlNext
    <3> DEFINE c == Head(pstr)
               e == EncodeByte(c)
    <3>1. /\ pstr \in Seq(Octets) /\ pstr # << >> /\ pbuf \in Seq(Octets)
          /\ pbuf' = pbuf \o e /\ pstr' = Tail(pstr) /\ Params' = Params
          /\ Params \in Seq(Octets)
      BY <2>1, ParamsType DEF UrlInv, UrlNext, EncodeNext, Params
    <3>2. c \in Octets /\ Len(pstr') = Len(pstr) - 1
      BY <3>1
    <3>3. e \in Seq(Octets) /\ Len(e) \in {1, 3} /\ \A j \in 1 .. Len(e) : BodyByte(e[j])
      BY <3>2, EncodedByte
    <3> HIDE DEF c, e
    <3>4. Len(pbuf') = Len(pbuf) + Len(e)
          /\ \A i \in 1 .. Len(pbuf') : pbuf'[i] = IF i <= Len(pbuf) THEN pbuf[i] ELSE e[i - Len(pbuf)]
      BY <3>1, <3>3
    <3>5. Len(pbuf') <= 3 * (Len(Params) - Len(pstr'))
      <4>1. /\ Len(pbuf) \in Nat /\ Len(Params) \in Nat /\ Len(pstr) \in Nat
            /\ Len(pbuf) <= 3 * (Len(Params) - Len(pstr))
        BY <3>1 DEF FitsInv
      <4>2. \A a, p, q \in Nat : \A d \in {1, 3} : a <= 3 * (p - q) => a + d <= 3 * (p - (q - 1))
        OBVIOUS
      <4>3. Len(pbuf) + Len(e) <= 3 * (Len(Params) - (Len(pstr) - 1))
        BY <3>3, <4>1, <4>2
      <4> QED
        BY <3>2, <3>4, <4>3
    <3>6. ASSUME NEW i \in 1 .. Len(pbuf') PROVE BodyByte(pbuf'[i])
      <4>1. CASE i <= Len(pbuf)
        BY <3>1, <3>4, <4>1 DEF FitsInv
      <4>2. CASE ~ (i <= Len(pbuf))
        <5>1. i - Len(pbuf) \in 1 .. Len(e)
          BY <3>1, <3>3, <3>4, <4>2
        <5> QED
          BY <3>3, <3>4, <4>2, <5>1
      <4> QED
        BY <4>1, <4>2
    <3> QED
      BY <3>1, <3>5, <3>6 DEF FitsInv
  <2>2. CASE UNCHANGED urlVars
    BY <2>2 DEF FitsInv, urlVars, Params
  <2> QED
    BY <2>1, <2>2
<1>3. UrlInv /\ FitsInv => EncodedFits
  <2> SUFFICES ASSUME UrlInv, FitsInv PROVE EncodedFits
    OBVIOUS
  <2>1. DOMAIN pbuf = 1 .. Len(pbuf)
    BY DEF UrlInv
  <2> QED
    BY <2>1 DEF FitsInv, EncodedFits, BodyByte
<1> QED
  BY <1>1, <1>2, <1>3, UrlInvHolds, PTL DEF UrlSpec

-----------------------------------------------------------------------------
(* The fields of a body are the encodings of the fields that were joined.  *)

\* All of a buffer is encodings.
LEMMA PositionOf ==
  ASSUME NEW text \in Seq(Octets), NEW buf \in Seq(Octets), NEW off, Encodes(off, buf, text),
         NEW p \in 1 .. Len(buf)
  PROVE  \E k \in 1 .. Len(text) : off[k] <= p /\ p < off[k + 1]
<1> DEFINE n == Len(text)
           s == {k \in 1 .. n + 1 : off[k] <= p}
<1>1. /\ n \in Nat /\ Len(buf) \in Nat /\ off \in [1 .. n + 1 -> Nat]
      /\ off[1] = 1 /\ off[n + 1] = Len(buf) + 1
  BY DEF Encodes
<1>2. s \subseteq 1 .. n + 1 /\ 1 \in s /\ n + 1 \in Nat /\ n + 1 \notin s
  BY <1>1
<1>3. Max(s) \in s /\ \A x \in s : x <= Max(s)
  <2> HIDE DEF s, n
  <2> QED
    BY <1>2, MaxIs
<1> DEFINE m == Max(s)
<1> HIDE DEF m
<1>4. m \in 1 .. n /\ m \in s /\ m + 1 \notin s /\ m + 1 \in 1 .. n + 1
  <2>1. m \in s /\ \A x \in s : x <= m
    BY <1>3 DEF m
  <2> HIDE DEF s
  <2> QED
    BY <1>1, <1>2, <2>1
<1>5. off[m] <= p /\ p < off[m + 1]
  BY <1>1, <1>4, SMTT(40)
<1> QED
  BY <1>4, <1>5

LEMMA AmpsAre ==
  ASSUME NEW text \in Seq(Octets), NEW buf \in Seq(Octets), NEW off, Encodes(off, buf, text)
  PROVE  /\ \A k \in 1 .. Len(text) : text[k] = Amp => buf[off[k]] = Amp /\ off[k + 1] = off[k] + 1
         /\ \A p \in 1 .. Len(buf) : buf[p] = Amp =>
              \E k \in 1 .. Len(text) : text[k] = Amp /\ off[k] = p
<1>1. off \in [1 .. Len(text) + 1 -> Nat] /\ Len(text) \in Nat
  BY DEF Encodes
<1>2. Kept(Amp) /\ Amp # Space /\ Amp # Plus
  BY DEF Kept, Amp, Space, Plus
<1>3. ASSUME NEW k \in 1 .. Len(text), text[k] = Amp
      PROVE  buf[off[k]] = Amp /\ off[k + 1] = off[k] + 1
  <2> DEFINE e == EncodeByte(text[k])
  <2>1. Len(e) = 1 /\ e[1] = Amp
    BY <1>2, <1>3, EncodedByte
  <2>2. off[k + 1] = off[k] + Len(e) /\ \A j \in 1 .. Len(e) : buf[off[k] + (j - 1)] = e[j]
    BY DEF Encodes
  <2>3. off[k] \in Nat /\ 1 \in 1 .. 1
    BY <1>1
  <2> HIDE DEF e
  <2>4. buf[off[k] + (1 - 1)] = Amp
    BY <2>1, <2>2, <2>3
  <2> QED
    BY <2>1, <2>2, <2>3, <2>4
<1>4. ASSUME NEW p \in 1 .. Len(buf), buf[p] = Amp
      PROVE  \E k \in 1 .. Len(text) : text[k] = Amp /\ off[k] = p
  <2>1. PICK k \in 1 .. Len(text) : off[k] <= p /\ p < off[k + 1]
    BY PositionOf
  <2> DEFINE e == EncodeByte(text[k])
             j == (p - off[k]) + 1
  <2>2. off[k] \in Nat /\ off[k + 1] = off[k] + Len(e) /\ text[k] \in Octets
    BY <1>1 DEF Encodes
  <2>3. Len(e) \in {1, 3}
    BY <2>2, EncodedByte
  <2>4. j \in 1 .. Len(e) /\ p = off[k] + (j - 1)
    BY <2>1, <2>2, <2>3
  <2>5. e[j] = Amp
    BY <1>4, <2>4 DEF Encodes
  <2>6. Len(e) # 3
    BY <2>2, <2>4, <2>5, EncodedByte
  <2>7. j = 1 /\ e[1] = Amp /\ p = off[k]
    BY <2>2, <2>3, <2>4, <2>5, <2>6
  <2>8. text[k] = Amp
    BY <1>2, <2>2, <2>3, <2>6, <2>7, EncodedByte
  <2> QED
    BY <2>7, <2>8
<1> QED
  BY <1>3, <1>4

\* A slice of a text is encoded as a slice of the buffer.
LEMMA Sliced ==
  ASSUME NEW text \in Seq(Octets), NEW buf \in Seq(Octets), NEW off, Encodes(off, buf, text),
         NEW a \in 1 .. Len(text) + 1, NEW b \in a - 1 .. Len(text)
  PROVE  /\ SubSeq(text, a, b) \in Seq(Octets)
         /\ SubSeq(buf, off[a], off[b + 1] - 1) \in Seq(Octets)
         /\ \E o : Encodes(o, SubSeq(buf, off[a], off[b + 1] - 1), SubSeq(text, a, b))
<1> DEFINE n == Len(text)
           m == (b - a) + 1
           piece == SubSeq(text, a, b)
           part == SubSeq(buf, off[a], off[b + 1] - 1)
           o == [k \in 1 .. m + 1 |-> (off[(a + k) - 1] - off[a]) + 1]
<1>1. /\ n \in Nat /\ Len(buf) \in Nat /\ off \in [1 .. n + 1 -> Nat]
      /\ off[1] = 1 /\ off[n + 1] = Len(buf) + 1 /\ m \in Nat
      /\ a \in Nat /\ b + 1 \in 1 .. n + 1 /\ b \in Nat /\ a <= b + 1
  BY DEF Encodes
<1>2. \A j, k \in 1 .. n + 1 : j < k => off[j] < off[k]
  BY OffsetsRise
<1>3. ASSUME NEW j \in 1 .. n + 1, NEW k \in 1 .. n + 1, j <= k PROVE off[j] <= off[k]
  <2>1. off[j] \in Nat /\ off[k] \in Nat /\ (j = k \/ j < k)
    BY <1>1, <1>3
  <2>2. j < k => off[j] < off[k]
    BY <1>2
  <2> HIDE DEF n
  <2> QED
    BY <2>1, <2>2
<1>4. /\ 1 <= off[a] /\ off[a] <= off[b + 1] /\ off[b + 1] <= Len(buf) + 1
      /\ off[a] \in Nat /\ off[b + 1] \in Nat
  <2>1. 1 \in 1 .. n + 1 /\ n + 1 \in 1 .. n + 1 /\ 1 <= a /\ b + 1 <= n + 1
    BY <1>1
  <2>2. off[1] <= off[a] /\ off[a] <= off[b + 1] /\ off[b + 1] <= off[n + 1]
    BY <1>1, <1>3, <2>1
  <2> HIDE DEF n
  <2> QED
    BY <1>1, <2>2
<1>5. /\ piece \in Seq(Octets) /\ Len(piece) = m
      /\ \A k \in 1 .. m : piece[k] = text[(a + k) - 1]
  <2>1. \A i \in a .. b : text[i] \in Octets
    BY <1>1
  <2> QED
    BY <1>1, <2>1, SubSeqProperties
<1>6. /\ part \in Seq(Octets) /\ Len(part) = off[b + 1] - off[a]
      /\ \A p \in 1 .. off[b + 1] - off[a] : part[p] = buf[(off[a] + p) - 1]
  <2> DEFINE l == off[a]
             r == off[b + 1] - 1
  <2>1. l \in Nat /\ r \in Nat /\ 1 <= l /\ l <= r + 1 /\ r <= Len(buf)
    BY <1>1, <1>4
  <2>2. \A i \in l .. r : buf[i] \in Octets
    BY <1>1, <2>1
  <2>3. /\ SubSeq(buf, l, r) \in Seq(Octets)
        /\ Len(SubSeq(buf, l, r)) = IF l <= r THEN (r - l) + 1 ELSE 0
        /\ \A i \in 1 .. (r - l) + 1 : SubSeq(buf, l, r)[i] = buf[(l + i) - 1]
    <3> HIDE DEF l, r
    <3> QED
      BY <2>1, <2>2, SubSeqProperties, SMTT(40)
  <2>4. (r - l) + 1 = off[b + 1] - off[a] /\ (~ (l <= r) => off[b + 1] - off[a] = 0)
    BY <1>4
  <2>5. \A i : (off[a] + i) - 1 = (l + i) - 1
    OBVIOUS
  <2> HIDE DEF n, m
  <2> QED
    BY <2>1, <2>3, <2>4, <2>5
<1>7. o \in [1 .. m + 1 -> Nat] /\ o[1] = 1 /\ o[m + 1] = Len(part) + 1
  <2>1. ASSUME NEW k \in 1 .. m + 1 PROVE (off[(a + k) - 1] - off[a]) + 1 \in Nat
    <3>1. (a + k) - 1 \in 1 .. n + 1 /\ a <= (a + k) - 1
      BY <1>1
    <3>2. off[(a + k) - 1] \in Nat /\ off[a] \in Nat /\ off[a] <= off[(a + k) - 1]
      BY <1>1, <1>3, <3>1
    <3> QED
      BY <3>2
  <2>2. (a + 1) - 1 = a /\ (a + (m + 1)) - 1 = b + 1 /\ 1 \in 1 .. m + 1 /\ m + 1 \in 1 .. m + 1
    BY <1>1
  <2>3. off[a] \in Nat /\ off[b + 1] \in Nat
    BY <1>4
  <2> HIDE DEF m, part, n
  <2>4. o \in [1 .. m + 1 -> Nat]
    BY <2>1
  <2>5. o[1] = (off[a] - off[a]) + 1 /\ o[m + 1] = (off[b + 1] - off[a]) + 1
    BY <2>2
  <2> HIDE DEF o
  <2>6. o[1] = 1 /\ o[m + 1] = Len(part) + 1
    BY <1>6, <2>3, <2>5
  <2> QED
    BY <2>4, <2>6
<1>8. ASSUME NEW k \in 1 .. m
      PROVE  /\ o[k + 1] = o[k] + Len(EncodeByte(piece[k]))
             /\ \A j \in 1 .. Len(EncodeByte(piece[k])) : part[o[k] + (j - 1)] = EncodeByte(piece[k])[j]
  <2> DEFINE i == (a + k) - 1
             e == EncodeByte(text[i])
  <2>1. i \in 1 .. n /\ i + 1 \in 1 .. n + 1 /\ (a + (k + 1)) - 1 = i + 1 /\ i + 1 <= b + 1 /\ a <= i
    BY <1>1
  <2>2. off[i + 1] = off[i] + Len(e) /\ \A j \in 1 .. Len(e) : buf[off[i] + (j - 1)] = e[j]
    BY <2>1 DEF Encodes
  <2>3. piece[k] = text[i] /\ text[i] \in Octets
    BY <1>5, <2>1
  <2>4. Len(e) \in {1, 3}
    BY <2>3, EncodedByte
  <2>5. o[k] = (off[i] - off[a]) + 1 /\ o[k + 1] = (off[i + 1] - off[a]) + 1
    BY <1>1, <2>1
  <2>6. /\ off[i] \in Nat /\ off[a] \in Nat /\ off[b + 1] \in Nat /\ off[a] <= off[i]
        /\ off[i + 1] <= off[b + 1]
    <3>1. i \in 1 .. n + 1
      BY <1>1, <2>1
    <3> HIDE DEF i, n, m
    <3> QED
      BY <1>1, <1>3, <1>4, <2>1, <3>1
  <2> HIDE DEF e, o, part, piece, i
  <2>7. o[k + 1] = o[k] + Len(e)
    BY <2>2, <2>4, <2>5, <2>6, SMTT(40)
  <2>8. ASSUME NEW j \in 1 .. Len(e) PROVE part[o[k] + (j - 1)] = e[j]
    <3>0. ASSUME NEW q \in Nat, NEW y \in Nat, NEW z \in Nat, NEW t \in {1, 3}, NEW x \in 1 .. t,
                 y <= q, q + t <= z
          PROVE  /\ ((q - y) + 1) + (x - 1) \in 1 .. z - y
                 /\ (y + (((q - y) + 1) + (x - 1))) - 1 = q + (x - 1)
      BY <3>0
    <3>1. /\ o[k] + (j - 1) \in 1 .. off[b + 1] - off[a]
          /\ (off[a] + (o[k] + (j - 1))) - 1 = off[i] + (j - 1)
      <4>1. off[i] + Len(e) <= off[b + 1]
        BY <2>2, <2>6
      <4>2. /\ ((off[i] - off[a]) + 1) + (j - 1) \in 1 .. off[b + 1] - off[a]
            /\ (off[a] + (((off[i] - off[a]) + 1) + (j - 1))) - 1 = off[i] + (j - 1)
        BY <2>4, <2>6, <3>0, <4>1, SMTT(40)
      <4> QED
        BY <2>5, <4>2
    <3> QED
      BY <1>6, <2>2, <3>1
  <2> QED
    BY <2>3, <2>7, <2>8 DEF e
<1> HIDE DEF o, part, piece, m
<1>9. Encodes(o, part, piece)
  BY <1>5, <1>7, <1>8 DEF Encodes
<1> QED
  BY <1>5, <1>6, <1>9 DEF piece, part

\* q holds the encoding of p.
Coded(q, p) == /\ p \in Seq(Octets) /\ q \in Seq(Octets)
               /\ \E o : Encodes(o, q, p)

LEMMA BordersType ==
  ASSUME NEW str \in Seq(Octets), NEW i \in Borders(str)
  PROVE  /\ i \in 0 .. Len(str) + 1
         /\ i = 0 \/ i = Len(str) + 1 \/ (i \in 1 .. Len(str) /\ str[i] = Amp)
BY DEF Borders

\* Between two '&' of the buffer is the encoding of what is between two of the text.
LEMMA PartsCoded ==
  ASSUME NEW text \in Seq(Octets), NEW buf \in Seq(Octets), NEW off, Encodes(off, buf, text)
  PROVE  /\ \A p \in Parts(text) : \E q \in Parts(buf) : Coded(q, p)
         /\ \A q \in Parts(buf) : \E p \in Parts(text) : Coded(q, p)
<1> DEFINE n == Len(text)
           at(k) == IF k = 0 THEN 0 ELSE off[k]
           old == Borders(text)
           new == Borders(buf)
<1>1. /\ n \in Nat /\ Len(buf) \in Nat /\ off \in [1 .. n + 1 -> Nat]
      /\ off[1] = 1 /\ off[n + 1] = Len(buf) + 1 /\ n + 1 \in 1 .. n + 1 /\ 1 \in 1 .. n + 1
      /\ n + 1 # 0
  BY DEF Encodes
<1>2. \A j, k \in 1 .. n + 1 : j < k => off[j] < off[k]
  BY OffsetsRise
<1>3. ASSUME NEW j \in 0 .. n + 1, NEW k \in 0 .. n + 1, j < k
      PROVE  at(j) < at(k) /\ at(j) \in Nat /\ at(k) \in Nat
  <2>1. k \in 1 .. n + 1 /\ (j = 0 \/ j \in 1 .. n + 1) /\ k # 0
    BY <1>1, <1>3
  <2>2. at(k) = off[k] /\ off[k] \in Nat /\ (j \in 1 .. n + 1 => off[j] \in Nat /\ j # 0)
    BY <1>1, <2>1
  <2>3. 1 <= off[k]
    <3>1. k = 1 \/ 1 < k
      BY <2>1
    <3>2. 1 < k => off[1] < off[k]
      BY <1>1, <1>2, <2>1
    <3> QED
      BY <1>1, <2>2, <3>1, <3>2
  <2>4. CASE j = 0
    BY <2>2, <2>3, <2>4
  <2>5. CASE j \in 1 .. n + 1
    BY <1>2, <1>3, <2>1, <2>2, <2>5
  <2> QED
    BY <2>1, <2>4, <2>5
<1>4. \A i \in old : i \in 0 .. n + 1 /\ (i = 0 \/ i = n + 1 \/ (i \in 1 .. n /\ text[i] = Amp))
  BY BordersType
<1>5. ASSUME NEW i \in old PROVE at(i) \in new
  <2>1. CASE i = 0
    BY <2>1 DEF Borders
  <2>2. CASE i = n + 1
    BY <1>1, <2>2 DEF Borders
  <2>3. CASE i \in 1 .. n /\ text[i] = Amp
    <3>1. buf[off[i]] = Amp /\ off[i + 1] = off[i] + 1
      BY <2>3, AmpsAre
    <3>2. i \in 1 .. n + 1 /\ i # 0 /\ i < n + 1
      BY <1>1, <2>3
    <3>3. off[i] < off[n + 1] /\ off[i] \in Nat
      BY <1>1, <1>2, <3>2
    <3>4. 1 <= off[i]
      <4>1. i = 1 \/ 1 < i
        BY <3>2
      <4>2. 1 < i => off[1] < off[i]
        BY <1>1, <1>2, <3>2
      <4> QED
        BY <1>1, <3>3, <4>1, <4>2
    <3>5. off[i] \in 1 .. Len(buf)
      BY <1>1, <3>3, <3>4
    <3>6. off[i] \in DOMAIN buf
      BY <3>5
    <3> HIDE DEF n
    <3> QED
      BY <3>1, <3>2, <3>6 DEF Borders
  <2> QED
    BY <1>4, <2>1, <2>2, <2>3
<1>6. ASSUME NEW p \in new PROVE \E i \in old : p = at(i)
  <2>1. p = 0 \/ p = Len(buf) + 1 \/ (p \in 1 .. Len(buf) /\ buf[p] = Amp)
    BY BordersType
  <2>2. 0 \in old /\ n + 1 \in old
    BY DEF Borders
  <2>3. CASE p = 0
    BY <2>2, <2>3
  <2>4. CASE p = Len(buf) + 1
    BY <1>1, <2>2, <2>4
  <2>5. CASE p \in 1 .. Len(buf) /\ buf[p] = Amp
    <3>1. PICK k \in 1 .. n : text[k] = Amp /\ off[k] = p
      BY <2>5, AmpsAre
    <3>2. k \in DOMAIN text /\ k # 0
      BY <3>1
    <3> QED
      BY <3>1, <3>2 DEF Borders
  <2> QED
    BY <2>1, <2>3, <2>4, <2>5
<1> HIDE DEF n, old, new
<1>7. ASSUME NEW i \in old, NEW j \in old
      PROVE  Neighbours(i, j, old) <=> Neighbours(at(i), at(j), new)
  <2>0. \A k, l \in old : k < l <=> at(k) < at(l)
    <3> SUFFICES ASSUME NEW k \in old, NEW l \in old PROVE k < l <=> at(k) < at(l)
      OBVIOUS
    <3>1. k \in 0 .. n + 1 /\ l \in 0 .. n + 1
      BY <1>4
    <3>2. k < l \/ l < k \/ k = l
      BY <1>1, <3>1
    <3>3. CASE k = l
      <4>1. k \in Nat /\ at(k) \in Nat
        BY <1>1, <3>1
      <4> HIDE DEF at
      <4> QED
        BY <3>3, <4>1
    <3>4. CASE k < l
      BY <1>3, <3>1, <3>4
    <3>5. CASE l < k
      <4>1. at(l) < at(k) /\ at(l) \in Nat /\ at(k) \in Nat /\ k \in Nat /\ l \in Nat
        BY <1>1, <1>3, <3>1, <3>5
      <4> HIDE DEF at
      <4> QED
        BY <3>5, <4>1
    <3> QED
      BY <3>2, <3>3, <3>4, <3>5
  <2> HIDE DEF at
  <2>1. i < j <=> at(i) < at(j)
    BY <2>0
  <2>2. (\A k \in old : ~ (i < k /\ k < j)) <=> (\A p \in new : ~ (at(i) < p /\ p < at(j)))
    BY <1>5, <1>6, <2>0
  <2> QED
    BY <2>1, <2>2 DEF Neighbours
<1>8. ASSUME NEW i \in old, NEW j \in old, Neighbours(i, j, old)
      PROVE  Coded(SubSeq(buf, at(i) + 1, at(j) - 1), SubSeq(text, i + 1, j - 1))
  <2>1. i \in 0 .. n + 1 /\ j \in 0 .. n + 1 /\ i < j
    BY <1>4, <1>8 DEF Neighbours
  <2>2. i + 1 \in 1 .. n + 1 /\ j - 1 \in (i + 1) - 1 .. n /\ (j - 1) + 1 = j /\ j # 0 /\ i # n + 1
    BY <1>1, <2>1
  <2>3. at(j) = off[j]
    BY <2>2
  <2>4. at(i) + 1 = off[i + 1]
    <3>1. CASE i = 0
      BY <1>1, <3>1
    <3>2. CASE i \in 1 .. n /\ text[i] = Amp
      <4>1. off[i + 1] = off[i] + 1
        BY <3>2, AmpsAre DEF n
      <4>2. i # 0
        BY <3>2
      <4> QED
        BY <4>1, <4>2
    <3> QED
      BY <1>4, <2>2, <3>1, <3>2
  <2> HIDE DEF at
  <2> DEFINE a == i + 1
             b == j - 1
  <2>5. /\ SubSeq(text, a, b) \in Seq(Octets)
        /\ SubSeq(buf, off[a], off[b + 1] - 1) \in Seq(Octets)
        /\ \E o : Encodes(o, SubSeq(buf, off[a], off[b + 1] - 1), SubSeq(text, a, b))
    <3>1. a \in 1 .. Len(text) + 1 /\ b \in a - 1 .. Len(text)
      BY <2>2 DEF n
    <3> HIDE DEF a, b
    <3> QED
      BY <3>1, Sliced
  <2>6. SubSeq(buf, at(i) + 1, at(j) - 1) = SubSeq(buf, off[a], off[b + 1] - 1)
    BY <2>2, <2>3, <2>4, Zenon
  <2> HIDE DEF a, b
  <2>7. Coded(SubSeq(buf, off[a], off[b + 1] - 1), SubSeq(text, a, b))
    BY <2>5, Zenon DEF Coded
  <2> QED
    BY <2>6, <2>7, Zenon DEF a, b
<1> HIDE DEF at
<1>9. ASSUME NEW p \in Parts(text) PROVE \E q \in Parts(buf) : Coded(q, p)
  <2>1. PICK i \in old, j \in old : Neighbours(i, j, old) /\ p = SubSeq(text, i + 1, j - 1)
    BY DEF Parts, old
  <2>2. SubSeq(buf, at(i) + 1, at(j) - 1) \in Parts(buf)
    <3> DEFINE e == <<at(i), at(j)>>
    <3>1. e \in new \X new /\ Neighbours(e[1], e[2], new) /\ e[1] = at(i) /\ e[2] = at(j)
      BY <1>5, <1>7, <2>1
    <3> HIDE DEF e
    <3> QED
      BY <3>1, Zenon DEF Parts, new
  <2> QED
    BY <1>8, <2>1, <2>2, Zenon
<1>10. ASSUME NEW q \in Parts(buf) PROVE \E p \in Parts(text) : Coded(q, p)
  <2>1. PICK x \in new, y \in new : Neighbours(x, y, new) /\ q = SubSeq(buf, x + 1, y - 1)
    BY DEF Parts, new
  <2>2. PICK i \in old : x = at(i)
    BY <1>6
  <2>3. PICK j \in old : y = at(j)
    BY <1>6
  <2>4. SubSeq(text, i + 1, j - 1) \in Parts(text)
    <3> DEFINE e == <<i, j>>
    <3>1. e \in old \X old /\ Neighbours(e[1], e[2], old) /\ e[1] = i /\ e[2] = j
      BY <1>7, <2>1, <2>2, <2>3
    <3> HIDE DEF e
    <3> QED
      BY <3>1, Zenon DEF Parts, old
  <2>5. Neighbours(i, j, old)
    BY <1>7, <2>1, <2>2, <2>3
  <2> QED
    BY <1>8, <2>1, <2>2, <2>3, <2>4, <2>5, Zenon
<1> QED
  BY <1>9, <1>10

\* A name and its '=' begin a text exactly where they begin its encoding.
Begins(f, p) == 2 <= Len(p) /\ p[1] = f /\ p[2] = Equals

LEMMA PrefixIs ==
  ASSUME NEW f \in Octets, NEW p \in Seq(Octets)
  PROVE  IsPrefix(<<f, Equals>>, p) <=> Begins(f, p)
<1> DEFINE field == <<f, Equals>>
<1>1. Len(field) = 2 /\ field[1] = f /\ field[2] = Equals
  OBVIOUS
<1>2. SubSeq(field, 1, 2) = field
  <2>1. field \in Seq(Nat)
    BY DEF Octets, Equals
  <2> HIDE DEF field
  <2> QED
    BY <1>1, <2>1, SubSeqFull
<1>3. IsPrefix(field, p) <=> 2 <= Len(p) /\ field = SubSeq(p, 1, 2)
  <2> HIDE DEF field
  <2> QED
    BY <1>1, <1>2 DEF IsPrefix
<1>4. ASSUME 2 <= Len(p) PROVE SubSeq(p, 1, 2) = <<p[1], p[2]>>
  <2> DEFINE s == SubSeq(p, 1, 2)
             t == <<p[1], p[2]>>
  <2>1. \A i \in 1 .. 2 : p[i] \in Octets
    BY <1>4
  <2>2. s \in Seq(Octets) /\ Len(s) = 2 /\ \A i \in 1 .. 2 : s[i] = p[(1 + i) - 1]
    BY <2>1, SubSeqProperties
  <2>3. s[1] = p[1] /\ s[2] = p[2]
    BY <2>2
  <2>4. t \in Seq(Octets) /\ Len(t) = 2 /\ t[1] = p[1] /\ t[2] = p[2]
    BY <2>1
  <2>5. \A i \in 1 .. 2 : i = 1 \/ i = 2
    OBVIOUS
  <2> HIDE DEF s, t
  <2>6. s = t
    BY <2>2, <2>3, <2>4, <2>5, SeqEqual
  <2> QED
    BY <2>6 DEF s, t
<1> QED
  BY <1>1, <1>3, <1>4 DEF Begins

LEMMA PlainByte ==
  ASSUME NEW c \in Octets, NEW f, Kept(f), EncodeByte(c)[1] = f
  PROVE  Len(EncodeByte(c)) = 1 /\ c = f
<1>1. ~ Kept(Plus) /\ ~ Kept(Percent)
  BY DEF Kept, IsAlnum, IsDigit, Plus, Percent, Equals, Amp
<1>2. f # Plus /\ f # Percent
  BY <1>1
<1>3. Len(EncodeByte(c)) \in {1, 3} /\ (Len(EncodeByte(c)) = 3 => EncodeByte(c)[1] = Percent)
      /\ (Len(EncodeByte(c)) = 1 => EncodeByte(c)[1] = (IF c = Space THEN Plus ELSE c))
  BY EncodedByte
<1>4. Len(EncodeByte(c)) = 1
  BY <1>2, <1>3
<1> QED
  BY <1>2, <1>3, <1>4

LEMMA PlainIsKept ==
  ASSUME NEW c, Kept(c)
  PROVE  Len(EncodeByte(c)) = 1 /\ EncodeByte(c)[1] = c
<1>1. EncodeByte(c) = <<c>>
  BY DEF EncodeByte
<1> QED
  BY <1>1

LEMMA FieldCoded ==
  ASSUME NEW f \in Octets, Kept(f), NEW p, NEW q, Coded(q, p)
  PROVE  /\ Begins(f, p) <=> Begins(f, q)
         /\ Begins(f, p) => Coded(SubSeq(q, 3, Len(q)), SubSeq(p, 3, Len(p)))
<1> DEFINE n == Len(p)
<1>1. p \in Seq(Octets) /\ q \in Seq(Octets) /\ Kept(Equals)
  BY DEF Coded, Kept, Equals
<1>2. PICK o : Encodes(o, q, p)
  BY DEF Coded
<1>3. /\ n \in Nat /\ Len(q) \in Nat /\ o \in [1 .. n + 1 -> Nat]
      /\ o[1] = 1 /\ o[n + 1] = Len(q) + 1
  BY <1>1, <1>2 DEF Encodes
<1>4. \A j, k \in 1 .. n + 1 : j < k => o[j] < o[k]
  BY <1>1, <1>2, OffsetsRise
<1>5. \A k \in 1 .. n : /\ p[k] \in Octets
                        /\ o[k + 1] = o[k] + Len(EncodeByte(p[k]))
                        /\ \A j \in 1 .. Len(EncodeByte(p[k])) : q[o[k] + (j - 1)] = EncodeByte(p[k])[j]
  BY <1>1, <1>2 DEF Encodes
<1>6. ASSUME NEW k \in 1 .. n, NEW c, Kept(c), p[k] = c PROVE o[k + 1] = o[k] + 1 /\ q[o[k]] = c
  <2> DEFINE e == EncodeByte(p[k])
  <2>1. Len(e) = 1 /\ e[1] = c
    BY <1>6, PlainIsKept
  <2>2. o[k + 1] = o[k] + Len(e) /\ \A j \in 1 .. Len(e) : q[o[k] + (j - 1)] = e[j]
    BY <1>5
  <2>3. o[k] \in Nat /\ 1 \in 1 .. 1 /\ o[k] + (1 - 1) = o[k]
    BY <1>3
  <2> HIDE DEF e
  <2> QED
    BY <2>1, <2>2, <2>3
<1>7. ASSUME NEW k \in 1 .. n, NEW c, Kept(c), q[o[k]] = c PROVE o[k + 1] = o[k] + 1 /\ p[k] = c
  <2> DEFINE e == EncodeByte(p[k])
  <2>1. o[k + 1] = o[k] + Len(e) /\ \A j \in 1 .. Len(e) : q[o[k] + (j - 1)] = e[j]
    BY <1>5
  <2>2. Len(e) \in {1, 3} /\ p[k] \in Octets
    BY <1>5, EncodedByte
  <2>3. o[k] \in Nat /\ 1 \in 1 .. Len(e) /\ o[k] + (1 - 1) = o[k]
    <3>1. k \in 1 .. n + 1
      BY <1>3
    <3> HIDE DEF e, n
    <3>2. o[k] \in Nat
      BY <1>3, <3>1
    <3>3. \A z \in {1, 3} : 1 \in 1 .. z
      OBVIOUS
    <3>4. o[k] + (1 - 1) = o[k]
      BY <3>2
    <3> QED
      BY <2>2, <3>2, <3>3, <3>4, Zenon
  <2>4. e[1] = c
    <3> HIDE DEF e
    <3> QED
      BY <1>7, <2>1, <2>3
  <2>5. Len(e) = 1 /\ p[k] = c
    BY <1>7, <2>2, <2>4, PlainByte
  <2> HIDE DEF e
  <2> QED
    BY <2>1, <2>5
<1> HIDE DEF n
<1>8. ASSUME Begins(f, p)
      PROVE  Begins(f, q) /\ 2 <= n /\ o[3] = 3
  <2>1. 2 <= n /\ 1 \in 1 .. n /\ 2 \in 1 .. n /\ 3 \in 1 .. n + 1 /\ n + 1 \in 1 .. n + 1
    BY <1>3, <1>8 DEF Begins, n
  <2>2. o[1 + 1] = 2 /\ q[1] = f
    BY <1>3, <1>6, <1>8, <2>1 DEF Begins
  <2>3. o[2 + 1] = 3 /\ q[2] = Equals
    BY <1>1, <1>6, <1>8, <2>1, <2>2 DEF Begins
  <2>4. 3 <= o[n + 1]
    <3>1. n + 1 = 3 \/ 3 < n + 1
      BY <1>3, <2>1
    <3>2. 3 < n + 1 => o[3] < o[n + 1]
      BY <1>4, <2>1
    <3> QED
      BY <1>3, <2>3, <3>1, <3>2
  <2> QED
    BY <1>3, <2>1, <2>2, <2>3, <2>4 DEF Begins
<1>9. ASSUME Begins(f, q) PROVE Begins(f, p)
  <2>1. 2 <= Len(q) /\ q[1] = f /\ q[2] = Equals
    BY <1>9 DEF Begins
  <2>2. n # 0
    BY <1>3, <2>1
  <2>3. 1 \in 1 .. n
    BY <1>3, <2>2
  <2>4. o[2] = 2 /\ p[1] = f
    BY <1>3, <1>7, <2>1, <2>3
  <2>5. n # 1
    BY <1>3, <2>1, <2>4
  <2>6. 2 \in 1 .. n
    BY <1>3, <2>2, <2>5
  <2>7. p[2] = Equals
    BY <1>1, <1>7, <2>1, <2>4, <2>6
  <2> QED
    BY <1>3, <2>4, <2>6, <2>7 DEF Begins, n
<1>10. ASSUME Begins(f, p) PROVE Coded(SubSeq(q, 3, Len(q)), SubSeq(p, 3, Len(p)))
  <2>1. 2 <= n /\ o[3] = 3
    BY <1>8, <1>10
  <2>2. 3 \in 1 .. n + 1 /\ n \in 3 - 1 .. n
    BY <1>3, <2>1
  <2>3. (o[n + 1]) - 1 = Len(q)
    BY <1>3
  <2>4. /\ SubSeq(p, 3, n) \in Seq(Octets) /\ SubSeq(q, o[3], o[n + 1] - 1) \in Seq(Octets)
        /\ \E u : Encodes(u, SubSeq(q, o[3], o[n + 1] - 1), SubSeq(p, 3, n))
    BY <1>1, <1>2, <2>2, Sliced DEF n
  <2> QED
    BY <2>1, <2>3, <2>4, Zenon DEF Coded, n
<1> QED
  BY <1>8, <1>9, <1>10

\* What a server reads for a field of the buffer is what the text has for it.
LEMMA FieldsCoded ==
  ASSUME NEW text \in Seq(Octets), NEW buf \in Seq(Octets), NEW off, Encodes(off, buf, text),
         NEW f \in Octets, Kept(f)
  PROVE  FieldValues(<<f, Equals>>, buf) = FieldTexts(<<f, Equals>>, text)
<1> DEFINE field == <<f, Equals>>
<1>0. Len(field) + 1 = 3
  OBVIOUS
<1>1. ASSUME NEW p, NEW q, Coded(q, p)
      PROVE  /\ IsPrefix(field, p) <=> IsPrefix(field, q)
             /\ IsPrefix(field, p) =>
                  UrlDecode(SubSeq(q, Len(field) + 1, Len(q))) = SubSeq(p, Len(field) + 1, Len(p))
  <2>1. p \in Seq(Octets) /\ q \in Seq(Octets)
    BY <1>1 DEF Coded
  <2>2. (IsPrefix(field, p) <=> Begins(f, p)) /\ (IsPrefix(field, q) <=> Begins(f, q))
    BY <2>1, PrefixIs
  <2>3. ASSUME Begins(f, p) PROVE UrlDecode(SubSeq(q, 3, Len(q))) = SubSeq(p, 3, Len(p))
    <3> DEFINE x == SubSeq(q, 3, Len(q))
               y == SubSeq(p, 3, Len(p))
    <3>1. Coded(x, y)
      BY <1>1, <2>3, FieldCoded
    <3> HIDE DEF x, y
    <3>2. x \in Seq(Octets) /\ y \in Seq(Octets) /\ \E o : Encodes(o, x, y)
      BY <3>1 DEF Coded
    <3>3. UrlDecode(x) = y
      BY <3>2, DecodesBack
    <3> QED
      BY <3>3 DEF x, y
  <2>4. Begins(f, p) <=> Begins(f, q)
    BY <1>1, FieldCoded
  <2> HIDE DEF field
  <2> QED
    BY <1>0, <2>2, <2>3, <2>4
<1> HIDE DEF field
<1>2. ASSUME NEW v \in FieldTexts(field, text) PROVE v \in FieldValues(field, buf)
  <2>1. PICK p \in Parts(text) : IsPrefix(field, p) /\ v = SubSeq(p, Len(field) + 1, Len(p))
    BY DEF FieldTexts
  <2>2. PICK q \in Parts(buf) : Coded(q, p)
    BY PartsCoded
  <2>3. IsPrefix(field, q) /\ UrlDecode(SubSeq(q, Len(field) + 1, Len(q))) = v
    BY <1>1, <2>1, <2>2
  <2>4. SubSeq(q, Len(field) + 1, Len(q)) \in FieldTexts(field, buf)
    BY <2>3, Zenon DEF FieldTexts
  <2> QED
    BY <2>3, <2>4, Zenon DEF FieldValues
<1>3. ASSUME NEW v \in FieldValues(field, buf) PROVE v \in FieldTexts(field, text)
  <2>1. PICK w \in FieldTexts(field, buf) : v = UrlDecode(w)
    BY Zenon DEF FieldValues
  <2>2. PICK q \in Parts(buf) : IsPrefix(field, q) /\ w = SubSeq(q, Len(field) + 1, Len(q))
    BY DEF FieldTexts
  <2>3. PICK p \in Parts(text) : Coded(q, p)
    BY PartsCoded
  <2>4. IsPrefix(field, p) /\ v = SubSeq(p, Len(field) + 1, Len(p))
    BY <1>1, <2>1, <2>2, <2>3
  <2> QED
    BY <2>4, Zenon DEF FieldTexts
<1>4. FieldValues(field, buf) = FieldTexts(field, text)
  BY <1>2, <1>3
<1> QED
  BY <1>4 DEF field

\* What is typed up to the first '&'.
LEMMA UpToIs ==
  ASSUME NEW s \in Seq(Octets)
  PROVE  \E l \in 0 .. Len(s) :
           /\ UpTo(Amp, s) = SubSeq(s, 1, l)
           /\ l = Len(s) \/ s[l + 1] = Amp
           /\ \A i \in 1 .. l : s[i] # Amp
<1>1. Len(s) \in Nat /\ DOMAIN s = 1 .. Len(s)
  OBVIOUS
<1>2. CASE \E i \in DOMAIN s : s[i] = Amp
  <2> DEFINE First(i) == s[i] = Amp /\ \A k \in 1 .. i - 1 : s[k] # Amp
             i == CHOOSE x \in DOMAIN s : First(x)
             T == {x \in 1 .. Len(s) : s[x] = Amp}
  <2>1. PICK x \in T : \A y \in T : x <= y
    <3>1. T \subseteq Nat /\ T # {}
      BY <1>1, <1>2
    <3> HIDE DEF T
    <3> QED
      BY <3>1, LeastNumber
  <2>2. x \in DOMAIN s /\ First(x)
    <3>1. ASSUME NEW k \in 1 .. x - 1 PROVE s[k] # Amp
      <4>1. k \in 1 .. Len(s) /\ ~ (x <= k)
        BY <1>1, <2>1
      <4> QED
        BY <2>1, <4>1
    <3> QED
      BY <1>1, <2>1, <3>1
  <2>3. i \in DOMAIN s /\ First(i)
    <3> HIDE DEF First
    <3> QED
      BY <2>2, Zenon
  <2>4. UpTo(Amp, s) = SubSeq(s, 1, i - 1)
    BY <1>2, Zenon DEF UpTo
  <2> HIDE DEF i
  <2>5. i - 1 \in 0 .. Len(s) /\ (i - 1) + 1 = i
    BY <1>1, <2>3
  <2> QED
    BY <2>3, <2>4, <2>5
<1>3. CASE ~ \E i \in DOMAIN s : s[i] = Amp
  <2>1. UpTo(Amp, s) = s
    BY <1>3, Zenon DEF UpTo
  <2>2. s = SubSeq(s, 1, Len(s)) /\ Len(s) \in 0 .. Len(s)
    BY <1>1, SubSeqFull
  <2> QED
    BY <1>1, <1>3, <2>1, <2>2
<1> QED
  BY <1>2, <1>3

\* typed stands in a text after '&', a name and '=', and ends the text or is followed by '&'.
TypedAt(text, a, f, typed) ==
  /\ a \in 1 .. Len(text) /\ (a + 3) + Len(typed) \in 1 .. Len(text) + 1
  /\ text[a] = Amp /\ text[a + 1] = f /\ text[a + 2] = Equals
  /\ \A i \in 1 .. Len(typed) : text[(a + 2) + i] = typed[i]
  /\ (a + 3) + Len(typed) = Len(text) + 1 \/ text[(a + 3) + Len(typed)] = Amp

\* Then the part of the text after that '&' is the name, the '=' and what was typed up to
\* the first '&'.
LEMMA PartAt ==
  ASSUME NEW text \in Seq(Octets), NEW a, NEW f \in Octets, f # Amp, NEW typed \in Seq(Octets),
         TypedAt(text, a, f, typed)
  PROVE  \E e \in Borders(text) :
           /\ a \in Borders(text) /\ Neighbours(a, e, Borders(text))
           /\ IsPrefix(<<f, Equals>>, SubSeq(text, a + 1, e - 1))
           /\ SubSeq(SubSeq(text, a + 1, e - 1), 3, Len(SubSeq(text, a + 1, e - 1))) = UpTo(Amp, typed)
<1> DEFINE n == Len(text)
           m == Len(typed)
<1>1. /\ n \in Nat /\ m \in Nat /\ a \in 1 .. n /\ (a + 3) + m \in 1 .. n + 1
      /\ text[a] = Amp /\ text[a + 1] = f /\ text[a + 2] = Equals
      /\ \A i \in 1 .. m : text[(a + 2) + i] = typed[i]
      /\ (a + 3) + m = n + 1 \/ text[(a + 3) + m] = Amp
      /\ a + 1 \in 1 .. n /\ a + 2 \in 1 .. n
  BY DEF TypedAt
<1>2. PICK l \in 0 .. m : /\ UpTo(Amp, typed) = SubSeq(typed, 1, l)
                          /\ l = m \/ typed[l + 1] = Amp
                          /\ \A i \in 1 .. l : typed[i] # Amp
  BY UpToIs
<1> DEFINE e == (a + 3) + l
           part == SubSeq(text, a + 1, e - 1)
<1> HIDE DEF n, m
<1>3. /\ e \in 1 .. n + 1 /\ a < e /\ l \in Nat /\ a \in Nat /\ n \in Nat /\ m \in Nat
      /\ 1 <= a /\ (a + 3) + m <= n + 1 /\ l <= m
  BY <1>1, <1>2
<1>4. e = n + 1 \/ (e \in 1 .. n /\ text[e] = Amp)
  <2>1. CASE l = m
    BY <1>1, <1>3, <2>1
  <2>2. CASE l # m
    <3>1. l + 1 \in 1 .. m /\ (a + 2) + (l + 1) = e /\ e \in 1 .. n
      <4>1. l < m
        BY <1>3, <2>2
      <4> QED
        BY <1>3, <4>1
    <3>2. text[(a + 2) + (l + 1)] = Amp
      BY <1>1, <1>2, <2>2, <3>1
    <3> HIDE DEF e
    <3> QED
      BY <3>1, <3>2
  <2> QED
    BY <2>1, <2>2
<1>5. \A i \in a + 1 .. e - 1 : text[i] # Amp
  <2> SUFFICES ASSUME NEW i \in a + 1 .. e - 1 PROVE text[i] # Amp
    OBVIOUS
  <2>1. i = a + 1 \/ i = a + 2 \/ (i - (a + 2) \in 1 .. l /\ (a + 2) + (i - (a + 2)) = i)
    BY <1>3
  <2>2. Equals # Amp
    BY DEF Equals, Amp
  <2>3. ASSUME i - (a + 2) \in 1 .. l, (a + 2) + (i - (a + 2)) = i PROVE text[i] # Amp
    <3>1. i - (a + 2) \in 1 .. m
      BY <1>1, <1>2, <2>3
    <3>2. text[(a + 2) + (i - (a + 2))] = typed[i - (a + 2)]
      BY <1>1, <3>1
    <3> QED
      BY <1>2, <2>3, <3>2
  <2> QED
    BY <1>1, <2>1, <2>2, <2>3
<1>6. a \in Borders(text) /\ e \in Borders(text)
  <2>1. DOMAIN text = 1 .. n
    BY DEF n
  <2> HIDE DEF e
  <2> QED
    BY <1>1, <1>4, <2>1 DEF Borders, n
<1>7. Neighbours(a, e, Borders(text))
  <2>1. ASSUME NEW k \in Borders(text), a < k, k < e PROVE FALSE
    <3>1. k \in 0 .. n + 1 /\ (k = 0 \/ k = n + 1 \/ text[k] = Amp)
      BY BordersType DEF n
    <3> HIDE DEF e
    <3>2. k # 0 /\ k # n + 1 /\ k \in a + 1 .. e - 1
      BY <1>1, <1>3, <2>1, <3>1
    <3> QED
      BY <1>5, <3>1, <3>2
  <2> HIDE DEF e
  <2> QED
    BY <1>3, <2>1 DEF Neighbours
<1>8. /\ part \in Seq(Octets) /\ Len(part) = l + 2
      /\ \A i \in 1 .. l + 2 : part[i] = text[a + i]
  <2> DEFINE b == a + 1
             c == e - 1
  <2>1. b \in Int /\ c \in Int /\ b <= c /\ (c - b) + 1 = l + 2 /\ \A i \in b .. c : i \in 1 .. n
    BY <1>3
  <2>2. \A i \in b .. c : text[i] \in Octets
    <3> HIDE DEF b, c
    <3> QED
      BY <2>1 DEF n
  <2>3. \A i \in Nat : (b + i) - 1 = a + i
    BY <1>3
  <2> HIDE DEF b, c, e
  <2>4. /\ SubSeq(text, b, c) \in Seq(Octets) /\ Len(SubSeq(text, b, c)) = (c - b) + 1
        /\ \A i \in 1 .. (c - b) + 1 : SubSeq(text, b, c)[i] = text[(b + i) - 1]
    BY <2>1, <2>2, SubSeqProperties
  <2>5. ASSUME NEW i \in 1 .. l + 2 PROVE SubSeq(text, b, c)[i] = text[a + i]
    <3>1. i \in Nat /\ i \in 1 .. (c - b) + 1
      BY <2>1
    <3> QED
      BY <2>3, <2>4, <3>1
  <2>6. part = SubSeq(text, b, c)
    BY Zenon DEF b, c
  <2> HIDE DEF part
  <2> QED
    BY <2>1, <2>4, <2>5, <2>6
<1> HIDE DEF e, part
<1>9. IsPrefix(<<f, Equals>>, part)
  <2>1. 1 \in 1 .. l + 2 /\ 2 \in 1 .. l + 2 /\ 2 <= l + 2
    BY <1>3
  <2>2. Begins(f, part)
    BY <1>1, <1>8, <2>1 DEF Begins
  <2> QED
    BY <1>8, <2>2, PrefixIs
<1>10. SubSeq(part, 3, Len(part)) = UpTo(Amp, typed)
  <2> DEFINE s == SubSeq(part, 3, l + 2)
             t == SubSeq(typed, 1, l)
  <2>1. /\ s \in Seq(Octets) /\ Len(s) = l
        /\ \A i \in 1 .. l : s[i] = part[(3 + i) - 1]
    <3>1. \A i \in 3 .. l + 2 : part[i] \in Octets
      BY <1>3, <1>8
    <3>2. l + 2 \in Int /\ ((l + 2) - 3) + 1 = l /\ (~ (3 <= l + 2) => l = 0)
      BY <1>3
    <3> QED
      BY <3>1, <3>2, SubSeqProperties
  <2>2. t \in Seq(Octets) /\ Len(t) = l /\ \A i \in 1 .. l : t[i] = typed[(1 + i) - 1]
    <3>1. \A i \in 1 .. l : typed[i] \in Octets
      BY <1>1, <1>2 DEF m
    <3>2. l \in Int /\ (l - 1) + 1 = l /\ (~ (1 <= l) => l = 0)
      BY <1>3
    <3> QED
      BY <3>1, <3>2, SubSeqProperties
  <2> HIDE DEF s, t
  <2>3. ASSUME NEW i \in 1 .. l PROVE s[i] = t[i]
    <3>1. (3 + i) - 1 = i + 2 /\ (1 + i) - 1 = i /\ i + 2 \in 1 .. l + 2 /\ i \in 1 .. m
          /\ a + (i + 2) = (a + 2) + i
      BY <1>3
    <3>2. s[i] = part[i + 2] /\ t[i] = typed[i]
      BY <2>1, <2>2, <3>1
    <3>3. part[i + 2] = text[a + (i + 2)] /\ text[(a + 2) + i] = typed[i]
      BY <1>1, <1>8, <3>1
    <3> QED
      BY <3>1, <3>2, <3>3
  <2>4. s = t
    BY <2>1, <2>2, <2>3, SeqEqual
  <2> QED
    BY <1>2, <1>8, <2>4, Zenon DEF s, t
<1> QED
  BY <1>6, <1>7, <1>9, <1>10, Zenon DEF part

\* Only one border is before a part that begins with f.
OnlyAt(text, a, f) == \A i \in Borders(text) : i <= Len(text) /\ text[i + 1] = f => i = a

\* The text has that for the field, and where only one border is before the name nothing else.
LEMMA OnlyPart ==
  ASSUME NEW text \in Seq(Octets), NEW a, NEW f \in Octets, f # Amp, NEW typed \in Seq(Octets),
         TypedAt(text, a, f, typed)
  PROVE  /\ UpTo(Amp, typed) \in FieldTexts(<<f, Equals>>, text)
         /\ OnlyAt(text, a, f) => FieldTexts(<<f, Equals>>, text) = {UpTo(Amp, typed)}
<1> DEFINE field == <<f, Equals>>
           n == Len(text)
           borders == Borders(text)
           Rest(p) == SubSeq(p, 3, Len(p))
<1>1. Len(field) + 1 = 3 /\ n \in Nat
  OBVIOUS
<1>2. PICK e \in borders : /\ a \in borders /\ Neighbours(a, e, borders)
                           /\ IsPrefix(field, SubSeq(text, a + 1, e - 1))
                           /\ Rest(SubSeq(text, a + 1, e - 1)) = UpTo(Amp, typed)
  BY PartAt, ZenonT(60)
<1> HIDE DEF n, borders, field, Rest
<1>3. UpTo(Amp, typed) \in FieldTexts(field, text)
  <2> DEFINE d == <<a, e>>
  <2>1. d \in borders \X borders /\ Neighbours(d[1], d[2], borders) /\ d[1] = a /\ d[2] = e
    BY <1>2
  <2> HIDE DEF d
  <2>2. SubSeq(text, a + 1, e - 1) \in Parts(text)
    BY <2>1, Zenon DEF Parts, borders
  <2> QED
    BY <1>1, <1>2, <2>2 DEF FieldTexts, Rest
<1>4. ASSUME NEW v \in FieldTexts(field, text), OnlyAt(text, a, f) PROVE v = UpTo(Amp, typed)
  <2>1. PICK p \in Parts(text) : IsPrefix(field, p) /\ v = Rest(p)
    BY <1>1 DEF FieldTexts, Rest
  <2>2. PICK i \in borders, j \in borders : Neighbours(i, j, borders) /\ p = SubSeq(text, i + 1, j - 1)
    BY <2>1 DEF Parts, borders
  <2>3. i \in 0 .. n + 1 /\ j \in 0 .. n + 1 /\ i < j
    BY <2>2, BordersType DEF Neighbours, n, borders
  <2> DEFINE l == i + 1
             r == j - 1
  <2>4. l \in Int /\ r \in Int /\ l <= r + 1 /\ \A k \in l .. r : k \in 1 .. n
    BY <1>1, <2>3
  <2>5. \A k \in l .. r : text[k] \in Octets
    <3> HIDE DEF l, r
    <3> QED
      BY <2>4 DEF n
  <2> HIDE DEF l, r
  <2>6. /\ SubSeq(text, l, r) \in Seq(Octets)
        /\ Len(SubSeq(text, l, r)) = IF l <= r THEN (r - l) + 1 ELSE 0
        /\ \A k \in 1 .. (r - l) + 1 : SubSeq(text, l, r)[k] = text[(l + k) - 1]
    BY <2>4, <2>5, SubSeqProperties
  <2>7. p = SubSeq(text, l, r)
    BY <2>2, Zenon DEF l, r
  <2>8. Begins(f, p)
    BY <2>1, <2>6, <2>7, PrefixIs DEF field
  <2>9. l <= r /\ 1 \in 1 .. (r - l) + 1
    BY <2>4, <2>6, <2>7, <2>8 DEF Begins
  <2>10. text[l] = f
    <3>1. (l + 1) - 1 = l
      BY <2>4
    <3> QED
      BY <2>6, <2>7, <2>8, <2>9, <3>1 DEF Begins
  <2>11. i <= n
    BY <1>1, <2>3, <2>9 DEF l, r
  <2>12. i = a
    BY <1>4, <2>10, <2>11 DEF l, n, borders, OnlyAt
  <2>13. j = e
    <3>1. e \in Nat
      BY <1>1, BordersType DEF n, borders
    <3>2. a < e /\ ~ (a < j /\ j < e) /\ ~ (a < e /\ e < j) /\ a < j
      BY <1>2, <2>2, <2>12 DEF Neighbours
    <3> QED
      BY <1>1, <2>3, <3>1, <3>2
  <2> QED
    BY <1>2, <2>1, <2>2, <2>12, <2>13, Zenon
<1>5. OnlyAt(text, a, f) => FieldTexts(field, text) = {UpTo(Amp, typed)}
  BY <1>3, <1>4
<1> QED
  BY <1>3, <1>5 DEF field

IsJoined(joined, s, n, t) ==
  /\ joined \in Seq(Octets) /\ Len(joined) = n + Len(t)
  /\ \A i \in 1 .. n : joined[i] = s[i]
  /\ \A i \in 1 .. Len(t) : joined[n + i] = t[i]

LEMMA Joined ==
  ASSUME NEW s \in Seq(Octets), NEW t \in Seq(Octets), NEW n, Len(s) = n
  PROVE  IsJoined(s \o t, s, n, t)
<1>1. Len(t) \in Nat /\ n \in Nat
  OBVIOUS
<1>2. ASSUME NEW i \in 1 .. Len(t) PROVE n + i \in 1 .. n + Len(t) /\ ~ (n + i <= n) /\ (n + i) - n = i
  BY <1>1
<1>3. s \o t \in Seq(Octets) /\ Len(s \o t) = n + Len(t)
  OBVIOUS
<1>4. \A i \in 1 .. n : (s \o t)[i] = s[i]
  BY <1>1
<1>5. \A i \in 1 .. Len(t) : (s \o t)[n + i] = t[i]
  BY <1>1, <1>2
<1> QED
  BY <1>3, <1>4, <1>5 DEF IsJoined

\* What adsense_login joins, byte by byte.
LEMMA ParamsShape ==
  ASSUME email \in Seq(Octets), password \in Seq(Octets)
  PROVE  /\ Len(Params) = (9 + Len(email)) + Len(password)
         /\ Params[1] = 70 /\ Params[2] = Equals /\ Params[3] = 49
         /\ TypedAt(Params, 4, 69, email)
         /\ TypedAt(Params, 7 + Len(email), 80, password)
<1> DEFINE n == Len(email)
           m == Len(password)
           one == FixedField \o <<Amp>>
           two == one \o EmailField
           three == two \o email
           four == three \o <<Amp>>
           five == four \o PasswdField
<1>0. n \in Nat /\ m \in Nat
  OBVIOUS
<1>1. /\ one \in Seq(Octets) /\ Len(one) = 4
      /\ one[1] = 70 /\ one[2] = Equals /\ one[3] = 49 /\ one[4] = Amp
  BY DEF FixedField, Octets, Equals, Amp
<1> HIDE DEF one
<1>2. /\ two \in Seq(Octets) /\ Len(two) = 6 /\ \A i \in 1 .. 4 : two[i] = one[i]
      /\ two[5] = 69 /\ two[6] = Equals
  <2>1. EmailField \in Seq(Octets) /\ Len(EmailField) = 2 /\ EmailField[1] = 69 /\ EmailField[2] = Equals
    BY DEF EmailField, Octets, Equals
  <2>2. IsJoined(two, one, 4, EmailField)
    BY <1>1, <2>1, Joined
  <2> HIDE DEF two
  <2>3. two[4 + 1] = 69 /\ two[4 + 2] = Equals /\ Len(two) = 6
    BY <2>1, <2>2 DEF IsJoined
  <2>4. 4 + 1 = 5 /\ 4 + 2 = 6
    OBVIOUS
  <2> QED
    BY <2>2, <2>3, <2>4, Zenon DEF IsJoined
<1> HIDE DEF two, n
<1>3. /\ three \in Seq(Octets) /\ Len(three) = 6 + n /\ \A i \in 1 .. 6 : three[i] = two[i]
      /\ \A i \in 1 .. n : three[6 + i] = email[i]
  <2>1. IsJoined(three, two, 6, email)
    BY <1>2, Joined, ZenonT(60)
  <2> HIDE DEF three
  <2> QED
    BY <2>1 DEF IsJoined, n
<1> HIDE DEF three
<1>4. /\ four \in Seq(Octets) /\ Len(four) = 7 + n /\ \A i \in 1 .. 6 + n : four[i] = three[i]
      /\ four[7 + n] = Amp
  <2>1. <<Amp>> \in Seq(Octets) /\ Len(<<Amp>>) = 1 /\ <<Amp>>[1] = Amp
    BY DEF Octets, Amp
  <2> QED
    BY <1>0, <1>3, <2>1
<1> HIDE DEF four
<1>5. /\ five \in Seq(Octets) /\ Len(five) = 9 + n /\ \A i \in 1 .. 7 + n : five[i] = four[i]
      /\ five[8 + n] = 80 /\ five[9 + n] = Equals
  <2>1. PasswdField \in Seq(Octets) /\ Len(PasswdField) = 2 /\ PasswdField[1] = 80 /\ PasswdField[2] = Equals
    BY DEF PasswdField, Octets, Equals
  <2>0. 7 + n \in Nat
    BY <1>0
  <2>2. IsJoined(five, four, 7 + n, PasswdField)
    BY <1>4, <2>0, <2>1, Joined
  <2> HIDE DEF five
  <2>3. five[(7 + n) + 1] = 80 /\ five[(7 + n) + 2] = Equals /\ Len(five) = (7 + n) + 2
    BY <2>1, <2>2 DEF IsJoined
  <2>4. (7 + n) + 1 = 8 + n /\ (7 + n) + 2 = 9 + n
    BY <1>0
  <2> QED
    BY <2>2, <2>3, <2>4 DEF IsJoined
<1> HIDE DEF five, m
<1>6. /\ Len(five \o password) = (9 + n) + m /\ \A i \in 1 .. 9 + n : (five \o password)[i] = five[i]
      /\ \A i \in 1 .. m : (five \o password)[(9 + n) + i] = password[i]
  <2>1. IsJoined(five \o password, five, 9 + n, password)
    BY <1>5, Joined
  <2> QED
    BY <2>1 DEF IsJoined, m
<1>7. Params = five \o password
  BY Zenon DEF Params, five, four, three, two, one
<1>8. /\ Len(Params) = (9 + n) + m /\ \A i \in 1 .. 9 + n : Params[i] = five[i]
      /\ \A i \in 1 .. m : Params[(9 + n) + i] = password[i]
  BY <1>6, <1>7
<1>9. \A i \in 1 .. 6 + n : Params[i] = three[i]
  BY <1>0, <1>4, <1>5, <1>8
<1>10. \A i \in 1 .. 6 : Params[i] = two[i]
  BY <1>0, <1>3, <1>9
<1>11. \A i \in 1 .. 4 : Params[i] = one[i]
  BY <1>2, <1>10
<1>12. \A i \in 1 .. n : Params[6 + i] = email[i]
  <2>1. \A i \in 1 .. n : 6 + i \in 1 .. 6 + n
    BY <1>0
  <2> QED
    BY <1>3, <1>9, <2>1
<1>13. Params[1] = 70 /\ Params[2] = Equals /\ Params[3] = 49 /\ Params[4] = Amp
  BY <1>1, <1>11
<1>14. Params[5] = 69 /\ Params[6] = Equals
  BY <1>2, <1>10
<1>15. Params[7 + n] = Amp /\ Params[8 + n] = 80 /\ Params[9 + n] = Equals
  <2>1. 7 + n \in 1 .. 7 + n /\ 7 + n \in 1 .. 9 + n /\ 8 + n \in 1 .. 9 + n /\ 9 + n \in 1 .. 9 + n
    BY <1>0
  <2> QED
    BY <1>4, <1>5, <1>8, <2>1
<1>16. TypedAt(Params, 4, 69, email)
  <2>1. /\ 4 \in 1 .. Len(Params) /\ (4 + 3) + n \in 1 .. Len(Params) + 1
        /\ (4 + 3) + n = 7 + n /\ 4 + 1 = 5 /\ 4 + 2 = 6
    BY <1>0, <1>8
  <2> QED
    BY <1>12, <1>13, <1>14, <1>15, <2>1 DEF TypedAt, n
<1>17. TypedAt(Params, 7 + n, 80, password)
  <2>1. /\ 7 + n \in 1 .. Len(Params) /\ ((7 + n) + 3) + m \in 1 .. Len(Params) + 1
        /\ (7 + n) + 1 = 8 + n /\ (7 + n) + 2 = 9 + n
        /\ ((7 + n) + 3) + m = Len(Params) + 1
    BY <1>0, <1>8
  <2> QED
    BY <1>8, <1>15, <2>1 DEF TypedAt, m
<1> QED
  BY <1>8, <1>13, <1>16, <1>17 DEF n, m

\* Where no '&' is typed, the borders of the parameters are those of their three fields.
LEMMA PlainBorders ==
  ASSUME email \in Seq(Octets), password \in Seq(Octets),
         Amp \notin ToSet(email) \cup ToSet(password),
         NEW i \in Borders(Params), i <= Len(Params)
  PROVE  \/ i = 0 /\ Params[i + 1] = 70
         \/ i = 4 /\ Params[i + 1] = 69
         \/ i = 7 + Len(email) /\ Params[i + 1] = 80
<1> DEFINE n == Len(email)
           m == Len(password)
<1>0. n \in Nat /\ m \in Nat
  OBVIOUS
<1>1. /\ Len(Params) = (9 + n) + m
      /\ Params[1] = 70 /\ Params[2] = Equals /\ Params[3] = 49
      /\ Params[4 + 1] = 69 /\ Params[4 + 2] = Equals
      /\ \A k \in 1 .. n : Params[(4 + 2) + k] = email[k]
      /\ Params[(7 + n) + 1] = 80 /\ Params[(7 + n) + 2] = Equals
      /\ \A k \in 1 .. m : Params[((7 + n) + 2) + k] = password[k]
  BY ParamsShape DEF TypedAt
<1>2. \A k \in 1 .. n : email[k] # Amp
  BY DEF ToSet
<1>3. \A k \in 1 .. m : password[k] # Amp
  BY DEF ToSet
<1>4. i = 0 \/ (i \in 1 .. Len(Params) /\ Params[i] = Amp)
  <2>1. Params \in Seq(Octets)
    BY ParamsType
  <2>2. i \in 0 .. Len(Params) + 1 /\ (i = 0 \/ i = Len(Params) + 1 \/ (i \in 1 .. Len(Params) /\ Params[i] = Amp))
    BY <2>1, BordersType
  <2> QED
    BY <1>0, <1>1, <2>2
<1> HIDE DEF n, m
<1>5. CASE i = 0
  <2>1. i + 1 = 1
    BY <1>5
  <2>2. Params[i + 1] = 70
    BY <1>1, <2>1
  <2> QED
    BY <1>5, <2>2, Zenon
<1>6. CASE i \in 1 .. Len(Params) /\ Params[i] = Amp
  <2>1. \/ i \in 1 .. 3 \/ i = 4 \/ i \in 5 .. 6 \/ (i - 6 \in 1 .. n /\ (4 + 2) + (i - 6) = i)
        \/ i = 7 + n \/ i = 8 + n \/ i = 9 + n
        \/ (i - (9 + n) \in 1 .. m /\ ((7 + n) + 2) + (i - (9 + n)) = i)
    BY <1>0, <1>1, <1>6
  <2>2. i \notin 1 .. 3 /\ i \notin 5 .. 6
    BY <1>1, <1>6, SMTT(40) DEF Equals, Amp
  <2>3. i # 8 + n /\ i # 9 + n
    <3>1. (7 + n) + 1 = 8 + n /\ (7 + n) + 2 = 9 + n
      BY <1>0
    <3> QED
      BY <1>1, <1>6, <3>1, SMTT(40) DEF Equals, Amp
  <2>4. ~ (i - 6 \in 1 .. n /\ (4 + 2) + (i - 6) = i)
    BY <1>1, <1>2, <1>6, SMTT(40)
  <2>5. ~ (i - (9 + n) \in 1 .. m /\ ((7 + n) + 2) + (i - (9 + n)) = i)
    BY <1>1, <1>3, <1>6, SMTT(40)
  <2>6. i = 4 \/ i = 7 + n
    BY <2>1, <2>2, <2>3, <2>4, <2>5
  <2>7. i = 4 => Params[i + 1] = 69
    BY <1>1
  <2>8. i = 7 + n => Params[i + 1] = 80
    BY <1>1
  <2> QED
    BY <2>6, <2>7, <2>8, Zenon DEF n
<1> QED
  BY <1>4, <1>5, <1>6

LEMMA PlainUpTo ==
  ASSUME NEW s \in Seq(Octets), Amp \notin ToSet(s)
  PROVE  UpTo(Amp, s) = s
<1>1. ~ \E i \in DOMAIN s : s[i] = Amp
  BY DEF ToSet
<1> QED
  BY <1>1, Zenon DEF UpTo

\* Encoding the joined fields as a whole gives the server the fields that were joined, for
\* an address and a password of any length and any bytes: as many of a name, with the same
\* texts; what is typed up to a '&' is always among them, and is the only one of its name
\* where no '&' is typed.
THEOREM FieldsAreRead == UrlSpec => []FieldsReadBack
<1>1. UrlInv => FieldsReadBack
  <2> SUFFICES ASSUME UrlInv, pstr = << >> PROVE
        /\ \A field \in {EmailField, PasswdField} : FieldValues(field, pbuf) = FieldTexts(field, Params)
        /\ UpTo(Amp, email) \in FieldValues(EmailField, pbuf)
        /\ UpTo(Amp, password) \in FieldValues(PasswdField, pbuf)
        /\ Amp \notin ToSet(email) \cup ToSet(password) =>
             FieldValues(EmailField, pbuf) = {email} /\ FieldValues(PasswdField, pbuf) = {password}
    BY DEF FieldsReadBack
  <2>1. /\ email \in Seq(Octets) /\ password \in Seq(Octets) /\ pbuf \in Seq(Octets)
        /\ Params \in Seq(Octets)
    BY ParamsType DEF UrlInv
  <2>2. \E off : Encodes(off, pbuf, Params)
    <3>1. PICK read \in Seq(Octets) : read \o pstr = Params /\ \E off : Encodes(off, pbuf, read)
      BY DEF UrlInv
    <3>2. read = Params
      BY <3>1, ConcatEmptySeq
    <3> QED
      BY <3>1, <3>2
  <2>3. /\ EmailField = <<69, Equals>> /\ PasswdField = <<80, Equals>>
        /\ 69 \in Octets /\ 80 \in Octets /\ Kept(69) /\ Kept(80) /\ 69 # Amp /\ 80 # Amp
    BY DEF EmailField, PasswdField, Octets, Kept, IsAlnum, IsDigit, Amp
  <2>4. ASSUME NEW f \in Octets, Kept(f)
        PROVE  FieldValues(<<f, Equals>>, pbuf) = FieldTexts(<<f, Equals>>, Params)
    BY <2>1, <2>2, <2>4, FieldsCoded
  <2>5. /\ FieldValues(EmailField, pbuf) = FieldTexts(EmailField, Params)
        /\ FieldValues(PasswdField, pbuf) = FieldTexts(PasswdField, Params)
    BY <2>3, <2>4
  <2>6. TypedAt(Params, 4, 69, email) /\ TypedAt(Params, 7 + Len(email), 80, password)
    BY <2>1, ParamsShape
  <2>7. ASSUME NEW f \in Octets, f # Amp, NEW a, NEW typed \in Seq(Octets), TypedAt(Params, a, f, typed)
        PROVE  UpTo(Amp, typed) \in FieldTexts(<<f, Equals>>, Params)
    BY <2>1, <2>7, OnlyPart
  <2>8. ASSUME Amp \notin ToSet(email) \cup ToSet(password)
        PROVE  FieldTexts(EmailField, Params) = {email} /\ FieldTexts(PasswdField, Params) = {password}
    <3>1. \A i \in Borders(Params) : i <= Len(Params) =>
            \/ i = 0 /\ Params[i + 1] = 70
            \/ i = 4 /\ Params[i + 1] = 69
            \/ i = 7 + Len(email) /\ Params[i + 1] = 80
      BY <2>1, <2>8, PlainBorders
    <3>2. OnlyAt(Params, 4, 69) /\ OnlyAt(Params, 7 + Len(email), 80)
      BY <3>1 DEF OnlyAt
    <3>3. UpTo(Amp, email) = email /\ UpTo(Amp, password) = password
      BY <2>1, <2>8, PlainUpTo
    <3>4. FieldTexts(<<69, Equals>>, Params) = {UpTo(Amp, email)}
      BY <2>1, <2>3, <2>6, <3>2, OnlyPart
    <3>5. FieldTexts(<<80, Equals>>, Params) = {UpTo(Amp, password)}
      BY <2>1, <2>3, <2>6, <3>2, OnlyPart
    <3> QED
      BY <2>3, <3>3, <3>4, <3>5
  <2>9. UpTo(Amp, email) \in FieldTexts(EmailField, Params) /\ UpTo(Amp, password) \in FieldTexts(PasswdField, Params)
    BY <2>1, <2>3, <2>6, <2>7
  <2> QED
    BY <2>5, <2>8, <2>9
<1> QED
  BY <1>1, UrlInvHolds, PTL

-----------------------------------------------------------------------------
\* ConvertUTF16toUTF8 goes through a report.
ConvertStep(source, i, f) ==
  LET Before(bytes, converted) == [converted EXCEPT !.bytes = bytes \o @]
  IN IF i > Len(source) THEN [result |-> "conversionOK", bytes |-> << >>]
     ELSE IF IsHigh(source[i])
     THEN IF i = Len(source) THEN Failed("sourceExhausted")
          ELSE IF IsLow(source[i + 1])
          THEN Before(Utf8Bytes(PairValue(source[i], source[i + 1])), f[i + 2])
          ELSE Failed("sourceIllegal")
     ELSE IF IsLow(source[i]) THEN Failed("sourceIllegal")
     ELSE Before(Utf8Bytes(source[i]), f[i + 1])

Outcomes == {"conversionOK", "sourceExhausted", "sourceIllegal"}

Results == [result : Outcomes, bytes : Seq(Int)]

\* What a conversion is, with one code point before it.
Extended(ch, converted) == [result |-> converted.result, bytes |-> Utf8Bytes(ch) \o converted.bytes]

IsConversion(g, source) ==
  /\ ConvertUTF16toUTF8(source) = g[1]
  /\ g \in [1 .. Len(source) + 1 -> Results]
  /\ \A i \in 1 .. Len(source) + 1 : g[i] = ConvertStep(source, i, g)

UtfUnits == {u \in Nat : u < 65536}
CodePoints == {ch \in Nat : ch < 1114112}

LEMMA HighBounds == ASSUME NEW u, IsHigh(u) PROVE u \in Int /\ 55296 <= u /\ u < 56320
BY SMT DEF IsHigh

LEMMA LowBounds == ASSUME NEW u, IsLow(u) PROVE u \in Int /\ 56320 <= u /\ u < 57344
BY SMT DEF IsLow

LEMMA HighOrLow == ASSUME NEW u PROVE ~ (IsHigh(u) /\ IsLow(u))
BY HighBounds, LowBounds, SMT

LEMMA PairIsCodePoint ==
  ASSUME NEW high, IsHigh(high), NEW low, IsLow(low)
  PROVE  /\ PairValue(high, low) \in CodePoints
         /\ PairValue(high, low) = (high - 55296) * 1024 + (low - 56320) + 65536
         /\ PairValue(high, low) >= 65536
<1>1. high \in Int /\ 55296 <= high /\ high < 56320 /\ low \in Int /\ 56320 <= low /\ low < 57344
  BY HighBounds, LowBounds, SMT
<1> DEFINE ch == (high - 55296) * 1024 + (low - 56320) + 65536
<1>2. ch \in Nat /\ ch >= 65536 /\ ch < 1114112
  BY <1>1, SMT
<1>3. PairValue(high, low) = ch
  BY SMT DEF PairValue
<1> HIDE DEF ch
<1>4. ch \in CodePoints
  BY <1>2, SMT DEF CodePoints
<1> QED
  BY <1>2, <1>3, <1>4, SMT DEF ch

LEMMA CodePointBytes == ASSUME NEW ch \in CodePoints PROVE Utf8Bytes(ch) \in Seq(Int)
<1> DEFINE n == BytesToWrite(ch)
<1>1. n \in {1, 2, 3, 4} /\ ch \in Int
  <2>1. ch \in Int
    BY SMT DEF CodePoints
  <2>2. n = 1 \/ n = 2 \/ n = 3 \/ n = 4
    BY SMT DEF BytesToWrite
  <2> HIDE DEF n
  <2> QED
    BY <2>1, <2>2
<1>2. \A x \in Int : Trail(x) \in Int
  BY SMT DEF Trail
<1>3. /\ ch \div 64 \in Int /\ ch \div 4096 \in Int /\ ch \div 262144 \in Int
      /\ 192 + (ch \div 64) \in Int /\ 224 + (ch \div 4096) \in Int /\ 240 + (ch \div 262144) \in Int
  BY <1>1, SMT
<1>4. /\ Trail(ch) \in Int /\ Trail(ch \div 64) \in Int /\ Trail(ch \div 4096) \in Int
  BY <1>1, <1>2, <1>3, SMT
<1>5. \A a, b, c, d \in Int : <<a>> \in Seq(Int) /\ <<a, b>> \in Seq(Int) /\ <<a, b, c>> \in Seq(Int)
                              /\ <<a, b, c, d>> \in Seq(Int)
  OBVIOUS
<1>6. CASE n = 1
  <2>1. Utf8Bytes(ch) = <<ch>>
    BY <1>6, SMT DEF Utf8Bytes
  <2> QED
    BY <1>1, <1>5, <2>1, SMT
<1>7. CASE n = 2
  <2>1. Utf8Bytes(ch) = <<192 + (ch \div 64), Trail(ch)>>
    BY <1>7, SMT DEF Utf8Bytes
  <2> QED
    BY <1>3, <1>4, <1>5, <2>1, SMT
<1>8. CASE n = 3
  <2>1. Utf8Bytes(ch) = <<224 + (ch \div 4096), Trail(ch \div 64), Trail(ch)>>
    BY <1>8, SMT DEF Utf8Bytes
  <2> QED
    BY <1>3, <1>4, <1>5, <2>1, SMT
<1>9. CASE n = 4
  <2>1. Utf8Bytes(ch) = <<240 + (ch \div 262144), Trail(ch \div 4096), Trail(ch \div 64), Trail(ch)>>
    BY <1>9, SMT DEF Utf8Bytes
  <2> QED
    BY <1>3, <1>4, <1>5, <2>1, SMT
<1> HIDE DEF n
<1> QED
  BY <1>1, <1>6, <1>7, <1>8, <1>9, SMT

\* What a step gives, by the kind of the unit.
IsBadHigh(source, i) == IsHigh(source[i]) /\ (i = Len(source) \/ ~ IsLow(source[i + 1]))

LEMMA ConvertStepIs ==
  ASSUME NEW source \in Seq(UtfUnits), NEW i \in 1 .. Len(source) + 1, NEW f,
         \A j \in i + 1 .. Len(source) + 1 : f[j] \in Results
  PROVE  /\ i = Len(source) + 1 => ConvertStep(source, i, f) = [result |-> "conversionOK", bytes |-> << >>]
         /\ i <= Len(source) /\ IsBadHigh(source, i) => ConvertStep(source, i, f).result # "conversionOK"
         /\ i <= Len(source) /\ IsLow(source[i]) => ConvertStep(source, i, f).result # "conversionOK"
         /\ i <= Len(source) /\ IsHigh(source[i]) /\ ~ IsBadHigh(source, i) =>
              /\ ConvertStep(source, i, f) = Extended(PairValue(source[i], source[i + 1]), f[i + 2])
              /\ i + 2 \in 1 .. Len(source) + 1 /\ PairValue(source[i], source[i + 1]) \in CodePoints
         /\ i <= Len(source) /\ ~ IsHigh(source[i]) /\ ~ IsLow(source[i]) =>
              /\ ConvertStep(source, i, f) = Extended(source[i], f[i + 1])
              /\ i + 1 \in 1 .. Len(source) + 1 /\ source[i] \in CodePoints
<1> DEFINE step == ConvertStep(source, i, f)
           next == source[i + 1]
<1>1. Len(source) \in Nat /\ \A k \in 1 .. Len(source) : source[k] \in UtfUnits
  OBVIOUS
<1>2. \A x \in Results : \A bytes : [x EXCEPT !.bytes = bytes \o @] = [result |-> x.result, bytes |-> bytes \o x.bytes]
  <2> SUFFICES ASSUME NEW x \in Results, NEW bytes
               PROVE  [x EXCEPT !.bytes = bytes \o @] = [result |-> x.result, bytes |-> bytes \o x.bytes]
    OBVIOUS
  <2>1. x = [result |-> x.result, bytes |-> x.bytes]
    BY DEF Results
  <2> DEFINE longer == bytes \o x.bytes
  <2>2. [x EXCEPT !.bytes = longer] = [result |-> x.result, bytes |-> longer]
    <3> HIDE DEF longer
    <3> QED
      BY <2>1
  <2> QED
    BY <2>2
<1>3. \A x : Failed(x).result = x
  BY DEF Failed
<1>4. CASE i = Len(source) + 1
  <2>1. i > Len(source) /\ ~ (i <= Len(source))
    BY <1>1, <1>4
  <2> QED
    BY <1>4, <2>1, Zenon DEF ConvertStep
<1>5. CASE i <= Len(source)
  <2>1. /\ ~ (i > Len(source)) /\ i # Len(source) + 1 /\ i + 1 \in 1 .. Len(source) + 1
        /\ i \in 1 .. Len(source) /\ i + 1 \in i + 1 .. Len(source) + 1
    BY <1>1, <1>5
  <2>2. source[i] \in UtfUnits
    BY <1>1, <2>1
  <2>3. ~ (IsHigh(source[i]) /\ IsLow(source[i]))
    BY HighOrLow
  <2>4. CASE IsBadHigh(source, i)
    <3>1. /\ IsHigh(source[i]) /\ ~ IsLow(source[i]) /\ (i = Len(source) \/ ~ IsLow(source[i + 1]))
      BY <2>3, <2>4 DEF IsBadHigh
    <3>2. step = Failed("sourceExhausted") \/ step = Failed("sourceIllegal")
      BY <2>1, <3>1, Zenon DEF ConvertStep
    <3>3. "sourceExhausted" # "conversionOK" /\ "sourceIllegal" # "conversionOK"
      OBVIOUS
    <3>4. step.result # "conversionOK"
      BY <1>3, <3>2, <3>3, Zenon
    <3> QED
      BY <2>1, <2>4, <3>1, <3>4, Zenon
  <2>5. CASE IsLow(source[i])
    <3>1. step = Failed("sourceIllegal")
      BY <2>1, <2>3, <2>5, Zenon DEF ConvertStep
    <3>2. "sourceIllegal" # "conversionOK"
      OBVIOUS
    <3>3. step.result # "conversionOK"
      BY <1>3, <3>1, <3>2, Zenon
    <3> QED
      BY <2>1, <2>3, <2>5, <3>3, Zenon DEF IsBadHigh
  <2>6. CASE IsHigh(source[i]) /\ ~ IsBadHigh(source, i)
    <3>1. i # Len(source) /\ IsLow(next) /\ ~ IsLow(source[i])
      BY <2>3, <2>6 DEF IsBadHigh
    <3>2. /\ i + 2 \in 1 .. Len(source) + 1 /\ i + 1 \in 1 .. Len(source)
          /\ i + 2 \in i + 1 .. Len(source) + 1
      BY <1>1, <2>1, <3>1
    <3>3. step = [f[i + 2] EXCEPT !.bytes = Utf8Bytes(PairValue(source[i], next)) \o @]
      BY <2>1, <2>6, <3>1, Zenon DEF ConvertStep
    <3>4. step = Extended(PairValue(source[i], next), f[i + 2])
      BY <1>1, <1>2, <3>2, <3>3, Zenon DEF Extended
    <3>5. PairValue(source[i], next) \in CodePoints
      BY <2>6, <3>1, PairIsCodePoint
    <3> QED
      BY <2>1, <2>6, <3>1, <3>2, <3>4, <3>5, Zenon
  <2>7. CASE ~ IsHigh(source[i]) /\ ~ IsLow(source[i])
    <3>1. step = [f[i + 1] EXCEPT !.bytes = Utf8Bytes(source[i]) \o @]
      BY <2>1, <2>7, Zenon DEF ConvertStep
    <3>2. step = Extended(source[i], f[i + 1])
      BY <1>1, <1>2, <2>1, <3>1, Zenon DEF Extended
    <3>3. source[i] \in CodePoints
      BY <2>2, SMT DEF UtfUnits, CodePoints
    <3> QED
      BY <2>1, <2>7, <3>2, <3>3, Zenon DEF IsBadHigh
  <2> QED
    BY <2>4, <2>5, <2>6, <2>7, Zenon
<1>6. i = Len(source) + 1 \/ i <= Len(source)
  BY <1>1
<1> QED
  BY <1>4, <1>5, <1>6, Zenon

LEMMA ConvertStepType ==
  ASSUME NEW source \in Seq(UtfUnits), NEW i \in 1 .. Len(source) + 1,
         NEW f, \A j \in i + 1 .. Len(source) + 1 : f[j] \in Results
  PROVE  /\ ConvertStep(source, i, f) \in Results
         /\ \A g : (\A j \in i + 1 .. Len(source) + 1 : f[j] = g[j]) =>
              ConvertStep(source, i, f) = ConvertStep(source, i, g)
<1>1. Len(source) \in Nat
  OBVIOUS
<1>2. ASSUME NEW ch \in CodePoints, NEW x \in Results PROVE Extended(ch, x) \in Results
  <2> DEFINE bytes == Utf8Bytes(ch)
  <2>1. bytes \in Seq(Int)
    BY CodePointBytes
  <2> HIDE DEF bytes
  <2>2. [result |-> x.result, bytes |-> bytes \o x.bytes] \in Results
    BY <2>1 DEF Results
  <2> QED
    BY <2>2 DEF Extended, bytes
<1>0. << >> \in Seq(Int)
  OBVIOUS
<1>3. \A x \in Outcomes : Failed(x) \in Results
  BY <1>0 DEF Failed, Results
<1>4. [result |-> "conversionOK", bytes |-> << >>] \in Results
  BY <1>0 DEF Results, Outcomes
<1>5. ASSUME NEW g, \A j \in i + 1 .. Len(source) + 1 : f[j] = g[j]
      PROVE  ConvertStep(source, i, f) \in Results /\ ConvertStep(source, i, f) = ConvertStep(source, i, g)
  <2>0. \A j \in i + 1 .. Len(source) + 1 : g[j] \in Results
    BY <1>5
  <2>1. CASE i = Len(source) + 1
    BY <1>4, <2>0, <2>1, ConvertStepIs, Zenon
  <2>2. CASE i <= Len(source) /\ (IsBadHigh(source, i) \/ (IsLow(source[i])))
    <3>1. ~ (i > Len(source)) /\ "sourceExhausted" \in Outcomes /\ "sourceIllegal" \in Outcomes
      BY <1>1, <2>2 DEF Outcomes
    <3>2. CASE IsHigh(source[i]) /\ i = Len(source)
      <4>1. \A h : ConvertStep(source, i, h) = Failed("sourceExhausted")
        BY <3>1, <3>2, Zenon DEF ConvertStep
      <4> QED
        BY <1>3, <3>1, <4>1, Zenon
    <3>3. CASE IsHigh(source[i]) /\ i # Len(source)
      <4>1. ~ IsLow(source[i + 1])
        BY <2>2, <3>3, HighOrLow, Zenon DEF IsBadHigh
      <4>2. \A h : ConvertStep(source, i, h) = Failed("sourceIllegal")
        BY <3>1, <3>3, <4>1, Zenon DEF ConvertStep
      <4> QED
        BY <1>3, <3>1, <4>2, Zenon
    <3>4. CASE ~ IsHigh(source[i])
      <4>1. \A h : ConvertStep(source, i, h) = Failed("sourceIllegal")
        BY <2>2, <3>1, <3>4, Zenon DEF ConvertStep, IsBadHigh
      <4> QED
        BY <1>3, <3>1, <4>1, Zenon
    <3> QED
      BY <3>2, <3>3, <3>4
  <2>3. CASE i <= Len(source) /\ IsHigh(source[i]) /\ ~ IsBadHigh(source, i)
    <3> DEFINE ch == PairValue(source[i], source[i + 1])
    <3>1. /\ ConvertStep(source, i, f) = Extended(ch, f[i + 2])
          /\ ConvertStep(source, i, g) = Extended(ch, g[i + 2])
          /\ i + 2 \in 1 .. Len(source) + 1 /\ ch \in CodePoints
      BY <2>0, <2>3, ConvertStepIs, Zenon
    <3>2. i + 2 \in i + 1 .. Len(source) + 1
      BY <1>1, <3>1
    <3>3. f[i + 2] = g[i + 2] /\ f[i + 2] \in Results
      BY <1>5, <3>1, <3>2
    <3> HIDE DEF ch
    <3> QED
      BY <1>2, <3>1, <3>3, Zenon
  <2>4. CASE i <= Len(source) /\ ~ IsHigh(source[i]) /\ ~ IsLow(source[i])
    <3> DEFINE ch == source[i]
    <3>1. /\ ConvertStep(source, i, f) = Extended(ch, f[i + 1])
          /\ ConvertStep(source, i, g) = Extended(ch, g[i + 1])
          /\ i + 1 \in 1 .. Len(source) + 1 /\ ch \in CodePoints
      BY <2>0, <2>4, ConvertStepIs, Zenon
    <3>2. i + 1 \in i + 1 .. Len(source) + 1
      BY <1>1, <3>1
    <3>3. f[i + 1] = g[i + 1] /\ f[i + 1] \in Results
      BY <1>5, <3>1, <3>2
    <3> HIDE DEF ch
    <3> QED
      BY <1>2, <3>1, <3>3, Zenon
  <2>5. i = Len(source) + 1 \/ i <= Len(source)
    BY <1>1
  <2> QED
    BY <2>1, <2>2, <2>3, <2>4, <2>5, Zenon
<1> QED
  BY <1>5

LEMMA ConversionExists ==
  ASSUME NEW source \in Seq(UtfUnits)
  PROVE  \E g : IsConversion(g, source)
<1> DEFINE n == Len(source) + 1
           X == Results
           step == [i \in 1 .. n |-> [f \in [1 .. n -> X] |-> ConvertStep(source, i, f)]]
           some == [result |-> "conversionOK", bytes |-> << >>]
<1>1. n \in Nat /\ some \in X /\ 1 \in 1 .. n
  <2>1. << >> \in Seq(Int)
    OBVIOUS
  <2> QED
    BY <2>1 DEF Results, Outcomes
<1>0. \A f \in [1 .. n -> X] : \A i \in 1 .. n : \A j \in i + 1 .. n : f[j] \in X
  <2> HIDE DEF X
  <2> QED
    BY <1>1
<1>2. step \in [1 .. n -> [[1 .. n -> X] -> X]]
  BY <1>0, ConvertStepType
<1>3. \A i \in 1 .. n : \A f \in [1 .. n -> X] : step[i][f] = ConvertStep(source, i, f)
  OBVIOUS
<1>4. \A i \in 1 .. n : \A f, g \in [1 .. n -> X] :
        (\A j \in i + 1 .. n : f[j] = g[j]) => step[i][f] = step[i][g]
  <2> SUFFICES ASSUME NEW i \in 1 .. n, NEW f \in [1 .. n -> X], NEW g \in [1 .. n -> X],
                      \A j \in i + 1 .. n : f[j] = g[j]
               PROVE  step[i][f] = step[i][g]
    OBVIOUS
  <2>1. ConvertStep(source, i, f) = ConvertStep(source, i, g)
    BY <1>0, ConvertStepType
  <2> HIDE DEF step
  <2> QED
    BY <1>3, <2>1
<1> HIDE DEF step
<1>5. PICK g \in [1 .. n -> X] : IsRecursion(g, n, step)
  <2> HIDE DEF n, X, some
  <2> QED
    BY <1>1, <1>2, <1>4, RecursionExists, Zenon
<1>6. \A i \in 1 .. n : g[i] = ConvertStep(source, i, g)
  BY <1>3, <1>5 DEF IsRecursion
<1> DEFINE Before(bytes, converted) == [converted EXCEPT !.bytes = bytes \o @]
           Equation(f) == f = [i \in 1 .. Len(source) + 1 |->
        IF i > Len(source) THEN [result |-> "conversionOK", bytes |-> << >>]
        ELSE IF IsHigh(source[i])
        THEN IF i = Len(source) THEN Failed("sourceExhausted")
             ELSE IF IsLow(source[i + 1])
             THEN Before(Utf8Bytes(PairValue(source[i], source[i + 1])), f[i + 2])
             ELSE Failed("sourceIllegal")
        ELSE IF IsLow(source[i]) THEN Failed("sourceIllegal")
        ELSE Before(Utf8Bytes(source[i]), f[i + 1])]
<1>7. \A f : Equation(f) <=> f = [i \in 1 .. n |-> ConvertStep(source, i, f)]
  BY Zenon DEF ConvertStep
<1>8. g = [i \in 1 .. n |-> ConvertStep(source, i, g)]
  BY <1>5, <1>6
<1>9. \E f : Equation(f)
  <2> HIDE DEF Equation
  <2> QED
    BY <1>7, <1>8
<1> DEFINE from[i \in 1 .. Len(source) + 1] ==
        IF i > Len(source) THEN [result |-> "conversionOK", bytes |-> << >>]
        ELSE IF IsHigh(source[i])
        THEN IF i = Len(source) THEN Failed("sourceExhausted")
             ELSE IF IsLow(source[i + 1])
             THEN Before(Utf8Bytes(PairValue(source[i], source[i + 1])), from[i + 2])
             ELSE Failed("sourceIllegal")
        ELSE IF IsLow(source[i]) THEN Failed("sourceIllegal")
        ELSE Before(Utf8Bytes(source[i]), from[i + 1])
<1>10. Equation(from)
  BY <1>9, Zenon
<1>11. ConvertUTF16toUTF8(source) = from[1]
  BY Zenon DEF ConvertUTF16toUTF8
<1> HIDE DEF from
<1>12. from = [i \in 1 .. n |-> ConvertStep(source, i, from)]
  <2> HIDE DEF Equation
  <2> QED
    BY <1>7, <1>10
<1>13. \A i \in 1 .. n : from[i] = ConvertStep(source, i, from)
  BY <1>12
<1> DEFINE S == {i \in 1 .. n : \A j \in i .. n : from[j] \in Results}
<1>14. n \in S
  <2>1. \A j \in n + 1 .. n : from[j] \in Results
    BY <1>1
  <2>2. from[n] \in Results
    <3>1. n \in 1 .. n
      BY <1>1
    <3> QED
      BY <1>13, <2>1, <3>1, ConvertStepType
  <2>3. \A j \in n .. n : j = n
    BY <1>1
  <2> QED
    BY <1>1, <2>2, <2>3
<1>15. ASSUME NEW i \in 1 .. Len(source), i + 1 \in S PROVE i \in S
  <2>1. i \in 1 .. n /\ \A j \in i .. n : j = i \/ j \in i + 1 .. n
    BY <1>1
  <2>2. \A j \in i + 1 .. Len(source) + 1 : from[j] \in Results
    BY <1>15
  <2>3. from[i] \in Results
    BY <1>13, <2>1, <2>2, ConvertStepType
  <2> HIDE DEF n
  <2> QED
    BY <2>1, <2>2, <2>3 DEF n
<1>16. \A i \in 1 .. n : from[i] \in Results
  <2>1. 1 .. n \subseteq S
    <3>1. Len(source) \in Nat
      OBVIOUS
    <3> HIDE DEF S
    <3> QED
      BY <1>14, <1>15, <3>1, CountDown
  <2>2. \A i \in 1 .. n : i \in i .. n
    BY <1>1
  <2> QED
    BY <2>1, <2>2
<1> QED
  BY <1>11, <1>12, <1>13, <1>16 DEF IsConversion

LEMMA ExtendedResult ==
  ASSUME NEW ch, NEW x
  PROVE  /\ Extended(ch, x).result = x.result
         /\ Extended(ch, x).bytes = Utf8Bytes(ch) \o x.bytes
BY DEF Extended

\* A unit at which a conversion fails: half of a pair without the other.
Unpaired(source, i) ==
  \/ IsBadHigh(source, i)
  \/ IsLow(source[i]) /\ (i = 1 \/ ~ IsHigh(source[i - 1]))

LEMMA FailsAt ==
  ASSUME NEW source \in Seq(UtfUnits), ~ Converts(source)
  PROVE  \E i \in 1 .. Len(source) : Unpaired(source, i)
<1> SUFFICES ASSUME \A i \in 1 .. Len(source) : ~ Unpaired(source, i) PROVE FALSE
  OBVIOUS
<1> DEFINE n == Len(source)
<1>1. n \in Nat
  OBVIOUS
<1>2. PICK g : IsConversion(g, source)
  BY ConversionExists
<1>3. /\ ConvertUTF16toUTF8(source) = g[1]
      /\ \A i \in 1 .. n + 1 : g[i] \in Results /\ g[i] = ConvertStep(source, i, g)
  BY <1>2 DEF IsConversion
<1> DEFINE Fine(i) == g[i].result = "conversionOK"
           \* No pair lies across this position.
           Between(i) == i = 1 \/ i = n + 1 \/ ~ IsHigh(source[i - 1])
           S == {i \in 1 .. n + 1 : /\ Between(i) => Fine(i)
                                    /\ i <= n /\ Between(i + 1) => Fine(i + 1)}
<1>4. \A i \in 1 .. n + 1 : \A j \in i + 1 .. n + 1 : g[j] \in Results
  BY <1>1, <1>3
<1>5. Fine(n + 1)
  <2>1. n + 1 \in 1 .. n + 1
    BY <1>1
  <2>2. g[n + 1] = [result |-> "conversionOK", bytes |-> << >>]
    BY <1>3, <1>4, <2>1, ConvertStepIs, Zenon
  <2> QED
    BY <2>2
<1>6. n + 1 \in S
  BY <1>1, <1>5
<1>7. ASSUME NEW i \in 1 .. n, i + 1 \in S PROVE i \in S
  <2>1. i \in 1 .. n + 1 /\ i + 1 \in 1 .. n + 1 /\ i <= n /\ ~ Unpaired(source, i) /\ i # n + 1
    BY <1>1
  <2>2. Between(i + 1) => Fine(i + 1)
    BY <1>7
  <2>3. i + 1 <= n /\ Between(i + 2) => Fine(i + 2)
    <3>1. (i + 1) + 1 = i + 2
      BY <1>1
    <3>2. i + 1 <= n /\ Between((i + 1) + 1) => Fine((i + 1) + 1)
      BY <1>7
    <3> HIDE DEF Between, Fine
    <3> QED
      BY <3>1, <3>2
  <2>4. ASSUME Between(i) PROVE Fine(i)
    <3>1. ~ IsBadHigh(source, i) /\ ~ IsLow(source[i])
      BY <2>1, <2>4 DEF Unpaired
    <3>2. CASE IsHigh(source[i])
      <4>1. /\ g[i] = Extended(PairValue(source[i], source[i + 1]), g[i + 2])
            /\ i + 2 \in 1 .. n + 1
        BY <1>3, <1>4, <2>1, <3>1, <3>2, ConvertStepIs, Zenon
      <4>2. i # n /\ IsLow(source[i + 1])
        BY <3>1, <3>2 DEF IsBadHigh
      <4>3. Between(i + 2)
        <5>1. ~ IsHigh(source[i + 1])
          BY <4>2, HighOrLow
        <5>2. (i + 2) - 1 = i + 1
          BY <1>1
        <5> QED
          BY <5>1, <5>2
      <4>4. i + 1 <= n
        BY <1>1, <4>2
      <4>5. Fine(i + 2)
        BY <2>3, <4>3, <4>4
      <4>6. g[i].result = g[i + 2].result
        <5> DEFINE ch == PairValue(source[i], source[i + 1])
                   x == g[i + 2]
        <5>1. Extended(ch, x).result = x.result
          <6> HIDE DEF ch, x
          <6> QED
            BY ExtendedResult
        <5> QED
          BY <4>1, <5>1, Zenon
      <4> QED
        BY <4>5, <4>6
    <3>3. CASE ~ IsHigh(source[i])
      <4>1. g[i] = Extended(source[i], g[i + 1])
        BY <1>3, <1>4, <2>1, <3>1, <3>3, ConvertStepIs, Zenon
      <4>2. Between(i + 1)
        <5>1. (i + 1) - 1 = i
          BY <1>1
        <5> QED
          BY <3>3, <5>1
      <4>3. g[i].result = g[i + 1].result
        <5> DEFINE x == g[i + 1]
        <5>1. Extended(source[i], x).result = x.result
          <6> HIDE DEF x
          <6> QED
            BY ExtendedResult
        <5> QED
          BY <4>1, <5>1, Zenon
      <4> QED
        BY <2>2, <4>2, <4>3
    <3> QED
      BY <3>2, <3>3
  <2> HIDE DEF Between, Fine
  <2> QED
    BY <2>1, <2>2, <2>4
<1>8. 1 \in S
  <2>1. 1 .. n + 1 \subseteq S
    <3> HIDE DEF S, n
    <3> QED
      BY <1>1, <1>6, <1>7, CountDown
  <2>2. 1 \in 1 .. n + 1
    BY <1>1
  <2> HIDE DEF S
  <2> QED
    BY <2>1, <2>2
<1>9. Fine(1)
  <2>1. Between(1)
    OBVIOUS
  <2> QED
    BY <1>8, <2>1
<1>10. Converts(source)
  BY <1>3, <1>9 DEF Converts
<1> QED
  BY <1>10

AtBlock(k) == \E c \in Nat : k = c * BSIZ

LEMMA BlocksFollow ==
  ASSUME BSIZ \in Nat \ {0}, NEW k \in Nat, AtBlock(k)
  PROVE  AtBlock(k + BSIZ) /\ k % BSIZ = 0
<1>1. PICK c \in Nat : k = c * BSIZ
  BY DEF AtBlock
<1>2. c + 1 \in Nat /\ k + BSIZ = (c + 1) * BSIZ
  BY <1>1, SMT
<1>3. k % BSIZ = 0
  BY <1>1, SMT
<1> QED
  BY <1>2, <1>3, Zenon DEF AtBlock

LEMMA WellFormedIs ==
  ASSUME NEW source
  PROVE  WellFormed(source) <=>
           /\ \A i \in DOMAIN source : IsHigh(source[i]) => i < Len(source) /\ IsLow(source[i + 1])
           /\ \A i \in DOMAIN source : IsLow(source[i]) => i > 1 /\ IsHigh(source[i - 1])
BY SMT DEF WellFormed, IsLow

\* What is converted for a block, of text from the unit k + 1 on: its units, and perhaps one more.
IsBlock(source, text, k, length) ==
  /\ k + length <= Len(text) /\ (length = BSIZ \/ k + length = Len(text))
  /\ Len(source) \in {length, length + 1}
  /\ \A j \in 1 .. length : source[j] = text[k + j]

\* A unit of a block, or the unit past it, which is half of a pair without the other.
LEMMA BlockExplained ==
  ASSUME BSIZ \in Nat \ {0}, NEW text \in Seq(UtfUnits), NEW k \in 0 .. Len(text), AtBlock(k),
         NEW length \in 1 .. BSIZ, NEW source \in Seq(UtfUnits), IsBlock(source, text, k, length),
         NEW i \in 1 .. Len(source), Unpaired(source, i)
  PROVE  \/ ~ WellFormed(text)
         \/ PairSplit(text)
         \/ i = length + 1 /\ (IsHigh(source[i]) \/ IsLow(source[i]))
<1>1. /\ Len(text) \in Nat /\ Len(source) \in Nat /\ k \in Nat /\ length \in Nat /\ i \in Nat
      /\ length > 0 /\ i >= 1 /\ i <= Len(source)
  OBVIOUS
<1>5. DOMAIN text = 1 .. Len(text)
  OBVIOUS
<1>6. \A a, b, c, d, e \in Nat : a >= 1 /\ b > 0 /\ a <= c /\ (c = b \/ c = b + 1) /\ a # b + 1 /\ d + b <= e =>
        /\ a \in 1 .. b /\ d + a \in 1 .. e
        /\ a < b => a # c /\ a + 1 \in 1 .. b /\ d + (a + 1) = (d + a) + 1
        /\ a < b \/ a = b
  BY SMT
<1>0. /\ k + length <= Len(text) /\ (length = BSIZ \/ k + length = Len(text))
      /\ Len(source) = length \/ Len(source) = length + 1
  BY DEF IsBlock
<1>4. \A j \in 1 .. length : source[j] = text[k + j]
  BY DEF IsBlock
<1>2. CASE i = length + 1
  BY <1>2 DEF Unpaired, IsBadHigh
<1>3. CASE i # length + 1
  <2> DEFINE p == k + i
  <2>1. i \in 1 .. length /\ p \in 1 .. Len(text) /\ source[i] = text[p]
    <3>1. i \in 1 .. length /\ p \in 1 .. Len(text)
      BY <1>0, <1>1, <1>3, <1>6, Zenon
    <3> QED
      BY <1>4, <3>1
  <2>2. ASSUME NEW q \in 1 .. Len(text), IsHigh(text[q]), q = Len(text) \/ ~ IsLow(text[q + 1])
        PROVE  ~ WellFormed(text)
    <3>1. ~ (q < Len(text) /\ IsLow(text[q + 1]))
      <4> DEFINE next == IsLow(text[q + 1])
      <4> HIDE DEF next
      <4>1. q \in Nat /\ (q = Len(text) \/ ~ next)
        BY <2>2 DEF next
      <4>2. ~ (q < Len(text) /\ next)
        BY <1>1, <4>1
      <4> QED
        BY <4>2 DEF next
    <3> QED
      BY <1>5, <2>2, <3>1, WellFormedIs, Zenon
  <2>3. ASSUME NEW q \in 1 .. Len(text), IsLow(text[q]), q = 1 \/ ~ IsHigh(text[q - 1])
        PROVE  ~ WellFormed(text)
    <3>1. ~ (q > 1 /\ IsHigh(text[q - 1]))
      BY <1>1, <2>3
    <3> QED
      BY <1>5, <2>3, <3>1, WellFormedIs, Zenon
  <2>4. ASSUME NEW q \in 1 .. Len(text), AtBlock(q), IsHigh(text[q])
        PROVE  PairSplit(text)
    <3>1. q % BSIZ = 0
      BY <1>1, <2>4, BlocksFollow
    <3> QED
      BY <1>5, <2>4, <3>1, Zenon DEF PairSplit
  <2>5. CASE IsBadHigh(source, i)
    <3>1. IsHigh(text[p]) /\ (i = Len(source) \/ ~ IsLow(source[i + 1]))
      BY <2>1, <2>5 DEF IsBadHigh
    <3>2. CASE i < length
      <4>0. i # Len(source) /\ i + 1 \in 1 .. length /\ k + (i + 1) = p + 1
        BY <1>0, <1>1, <1>3, <1>6, <3>2, ZenonT(40)
      <4>1. i # Len(source) /\ source[i + 1] = text[p + 1]
        <5> HIDE DEF p
        <5> QED
          BY <1>4, <4>0
      <4>2. ~ IsLow(text[p + 1])
        BY <3>1, <4>1
      <4> QED
        BY <2>1, <2>2, <3>1, <4>2, Zenon
    <3>3. CASE i = length /\ k + length = Len(text)
      BY <2>1, <2>2, <3>1, <3>3, Zenon
    <3>4. CASE i = length /\ length = BSIZ
      <4>1. AtBlock(p)
        BY <1>1, <3>4, BlocksFollow
      <4> HIDE DEF p
      <4> QED
        BY <2>1, <2>4, <3>1, <4>1
    <3>5. i < length \/ i = length
      BY <1>0, <1>1, <1>3, <1>6, Zenon
    <3> QED
      BY <1>0, <3>2, <3>3, <3>4, <3>5, Zenon
  <2>6. CASE IsLow(source[i]) /\ (i = 1 \/ ~ IsHigh(source[i - 1]))
    <3>1. IsLow(text[p])
      BY <2>1, <2>6
    <3>2. CASE i > 1
      <4>0. i - 1 \in 1 .. length /\ k + (i - 1) = p - 1 /\ i # 1
        BY <1>0, <1>1, <2>1, <3>2
      <4>1. source[i - 1] = text[p - 1] /\ i # 1
        <5> HIDE DEF p
        <5> QED
          BY <1>4, <4>0
      <4>2. ~ IsHigh(text[p - 1])
        BY <2>6, <4>1
      <4> QED
        BY <2>1, <2>3, <3>1, <4>2, Zenon
    <3>3. CASE i = 1 /\ k = 0
      <4>1. p = 1
        BY <3>3
      <4> QED
        BY <2>1, <2>3, <3>1, <4>1, Zenon
    <3>4. CASE i = 1 /\ k > 0
      <4>1. p - 1 = k /\ k \in 1 .. Len(text)
        BY <1>1, <3>4
      <4>2. CASE IsHigh(text[k])
        BY <2>4, <4>1, <4>2
      <4>3. CASE ~ IsHigh(text[k])
        BY <2>1, <2>3, <3>1, <4>1, <4>3, Zenon
      <4> QED
        BY <4>2, <4>3
    <3> QED
      BY <1>1, <2>1, <3>2, <3>3, <3>4
  <2> QED
    BY <2>5, <2>6 DEF Unpaired
<1> QED
  BY <1>2, <1>3

LEMMA UnitsAreNumbers == Units \subseteq UtfUnits
BY UnitsAssumption, SMT DEF UtfUnits

Utf16Step(bytes, i, f) ==
  IF i > Len(bytes) THEN << >>
  ELSE UnitsOf(CodePointAt(bytes, i)) \o f[i + Width(bytes[i])]

IsReading(g, bytes) ==
  /\ Utf16(bytes) = g[1]
  /\ g \in [1 .. Len(bytes) + 4 -> Seq(Int)]
  /\ \A i \in 1 .. Len(bytes) + 4 : g[i] = Utf16Step(bytes, i, g)

LEMMA WidthType == ASSUME NEW byte \in Int PROVE Width(byte) \in {1, 2, 3, 4}
BY SMT DEF Width

LEMMA UnitsType == ASSUME NEW ch \in Int PROVE UnitsOf(ch) \in Seq(Int)
<1>1. \A a, b \in Int : <<a>> \in Seq(Int) /\ <<a, b>> \in Seq(Int)
  OBVIOUS
<1> DEFINE high == 55296 + ((ch - 65536) \div 1024)
           low == 56320 + ((ch - 65536) % 1024)
<1>2. high \in Int /\ low \in Int
  BY SMT
<1>3. UnitsOf(ch) = <<ch>> \/ UnitsOf(ch) = <<high, low>>
  BY SMT DEF UnitsOf
<1> HIDE DEF high, low
<1> QED
  BY <1>1, <1>2, <1>3

\* The six bits a byte adds to a code point.
BitsAt(bytes, j) == IF j <= Len(bytes) THEN bytes[j] % 64 ELSE 0

LEMMA BitsAtType ==
  ASSUME NEW bytes \in Seq(Int), NEW j \in Nat, j > 0
  PROVE  BitsAt(bytes, j) \in Int
<1>1. j <= Len(bytes) => bytes[j] \in Int
  OBVIOUS
<1> DEFINE b == bytes[j]
           n == Len(bytes)
<1>2. BitsAt(bytes, j) = IF j <= n THEN b % 64 ELSE 0
  BY DEF BitsAt
<1>3. n \in Nat
  OBVIOUS
<1> HIDE DEF b, n
<1>4. j <= n => b \in Int
  BY <1>1 DEF b, n
<1> QED
  BY <1>2, <1>3, <1>4, SMT
LEMMA CodePointAtIs ==
  ASSUME NEW bytes, NEW i
  PROVE  /\ Width(bytes[i]) = 1 => CodePointAt(bytes, i) = bytes[i]
         /\ Width(bytes[i]) = 2 => CodePointAt(bytes, i) = (bytes[i] - 192) * 64 + BitsAt(bytes, i + 1)
         /\ Width(bytes[i]) = 3 =>
              CodePointAt(bytes, i) = (bytes[i] - 224) * 4096 + BitsAt(bytes, i + 1) * 64 + BitsAt(bytes, i + 2)
         /\ Width(bytes[i]) = 4 =>
              CodePointAt(bytes, i) = (bytes[i] - 240) * 262144 + BitsAt(bytes, i + 1) * 4096
                                      + BitsAt(bytes, i + 2) * 64 + BitsAt(bytes, i + 3)
<1> DEFINE width == Width(bytes[i])
           one == bytes[i]
           two == (bytes[i] - 192) * 64 + BitsAt(bytes, i + 1)
           three == (bytes[i] - 224) * 4096 + BitsAt(bytes, i + 1) * 64 + BitsAt(bytes, i + 2)
           four == (bytes[i] - 240) * 262144 + BitsAt(bytes, i + 1) * 4096
                   + BitsAt(bytes, i + 2) * 64 + BitsAt(bytes, i + 3)
<1>1. CodePointAt(bytes, i) =
        CASE width = 1 -> one [] width = 2 -> two [] width = 3 -> three [] width = 4 -> four
  BY DEF CodePointAt, BitsAt
<1> HIDE DEF width, one, two, three, four
<1>2. /\ width = 1 => CodePointAt(bytes, i) = one
      /\ width = 2 => CodePointAt(bytes, i) = two
      /\ width = 3 => CodePointAt(bytes, i) = three
      /\ width = 4 => CodePointAt(bytes, i) = four
  BY <1>1
<1> QED
  BY <1>2 DEF width, one, two, three, four

LEMMA CodePointAtType ==
  ASSUME NEW bytes \in Seq(Int), NEW i \in 1 .. Len(bytes)
  PROVE  CodePointAt(bytes, i) \in Int
<1> DEFINE a == bytes[i]
           b == BitsAt(bytes, i + 1)
           c == BitsAt(bytes, i + 2)
           d == BitsAt(bytes, i + 3)
<1>1. a \in Int
  OBVIOUS
<1>2. b \in Int /\ c \in Int /\ d \in Int
  <2>1. i + 1 \in Nat /\ i + 1 > 0 /\ i + 2 \in Nat /\ i + 2 > 0 /\ i + 3 \in Nat /\ i + 3 > 0
    OBVIOUS
  <2> QED
    BY <2>1, BitsAtType
<1>3. Width(a) \in {1, 2, 3, 4}
  BY <1>1, WidthType
<1>4. /\ (a - 192) * 64 + b \in Int
      /\ (a - 224) * 4096 + b * 64 + c \in Int
      /\ (a - 240) * 262144 + b * 4096 + c * 64 + d \in Int
  <2> HIDE DEF a, b, c, d
  <2> QED
    BY <1>1, <1>2, SMT
<1>5. /\ Width(a) = 1 => CodePointAt(bytes, i) = a
      /\ Width(a) = 2 => CodePointAt(bytes, i) = (a - 192) * 64 + b
      /\ Width(a) = 3 => CodePointAt(bytes, i) = (a - 224) * 4096 + b * 64 + c
      /\ Width(a) = 4 => CodePointAt(bytes, i) = (a - 240) * 262144 + b * 4096 + c * 64 + d
  BY CodePointAtIs
<1> HIDE DEF a, b, c, d
<1> QED
  BY <1>1, <1>3, <1>4, <1>5

LEMMA Utf16StepType ==
  ASSUME NEW bytes \in Seq(Int), NEW n, n = Len(bytes) + 4, NEW i \in 1 .. n,
         NEW f, NEW g, \A j \in i + 1 .. n : f[j] \in Seq(Int) /\ f[j] = g[j]
  PROVE  Utf16Step(bytes, i, f) \in Seq(Int) /\ Utf16Step(bytes, i, f) = Utf16Step(bytes, i, g)
<1>1. Len(bytes) \in Nat /\ n \in Nat
  OBVIOUS
<1>2. CASE i > Len(bytes)
  <2>1. Utf16Step(bytes, i, f) = << >> /\ Utf16Step(bytes, i, g) = << >>
    BY <1>2 DEF Utf16Step
  <2>2. << >> \in Seq(Int)
    OBVIOUS
  <2> QED
    BY <2>1, <2>2
<1>3. CASE ~ (i > Len(bytes))
  <2> DEFINE ch == CodePointAt(bytes, i)
             j == i + Width(bytes[i])
  <2>1. i \in 1 .. Len(bytes)
    BY <1>1, <1>3
  <2>2. Width(bytes[i]) \in {1, 2, 3, 4}
    BY <2>1, WidthType
  <2>3. j \in i + 1 .. n /\ j \in 1 .. n
    BY <1>1, <2>1, <2>2
  <2>4. ch \in Int
    BY <2>1, CodePointAtType
  <2>5. Utf16Step(bytes, i, f) = UnitsOf(ch) \o f[j] /\ Utf16Step(bytes, i, g) = UnitsOf(ch) \o g[j]
    BY <1>3 DEF Utf16Step
  <2> HIDE DEF ch, j
  <2>6. UnitsOf(ch) \in Seq(Int) /\ f[j] \in Seq(Int) /\ f[j] = g[j]
    BY <2>3, <2>4, UnitsType
  <2> QED
    BY <2>5, <2>6
<1> QED
  BY <1>2, <1>3

LEMMA ReadingExists ==
  ASSUME NEW bytes \in Seq(Int)
  PROVE  \E g : IsReading(g, bytes)
<1> DEFINE n == Len(bytes) + 4
           X == Seq(Int)
           step == [i \in 1 .. n |-> [f \in [1 .. n -> X] |-> Utf16Step(bytes, i, f)]]
           Equation(f) == f = [i \in 1 .. Len(bytes) + 4 |->
             IF i > Len(bytes) THEN << >>
             ELSE UnitsOf(CodePointAt(bytes, i)) \o f[i + Width(bytes[i])]]
<1>1. n \in Nat /\ 1 \in 1 .. n /\ << >> \in X
  OBVIOUS
<1>0. \A f \in [1 .. n -> X] : \A i \in 1 .. n : \A j \in i + 1 .. n : f[j] \in X
  <2> HIDE DEF X
  <2> QED
    BY <1>1
<1>2. step \in [1 .. n -> [[1 .. n -> X] -> X]]
  <2>1. \A i \in 1 .. n : \A f \in [1 .. n -> X] : Utf16Step(bytes, i, f) \in X
    <3> SUFFICES ASSUME NEW i \in 1 .. n, NEW f \in [1 .. n -> X] PROVE Utf16Step(bytes, i, f) \in X
      OBVIOUS
    <3> QED
      BY <1>0, Utf16StepType
  <2> HIDE DEF n, X
  <2> QED
    BY <2>1
<1>3. \A i \in 1 .. n : \A f \in [1 .. n -> X] : step[i][f] = Utf16Step(bytes, i, f)
  <2> HIDE DEF n, X
  <2> QED
    OBVIOUS
<1>4. \A i \in 1 .. n : \A f, g \in [1 .. n -> X] :
        (\A j \in i + 1 .. n : f[j] = g[j]) => step[i][f] = step[i][g]
  <2> SUFFICES ASSUME NEW i \in 1 .. n, NEW f \in [1 .. n -> X], NEW g \in [1 .. n -> X],
                      \A j \in i + 1 .. n : f[j] = g[j]
               PROVE  step[i][f] = step[i][g]
    OBVIOUS
  <2>1. Utf16Step(bytes, i, f) = Utf16Step(bytes, i, g)
    BY <1>0, Utf16StepType, SMTT(40)
  <2> HIDE DEF step, n, X
  <2> QED
    BY <1>3, <2>1
<1> HIDE DEF step
<1>5. PICK g \in [1 .. n -> X] : IsRecursion(g, n, step)
  <2> HIDE DEF n, X
  <2> QED
    BY <1>1, <1>2, <1>4, RecursionExists, Zenon
<1>6. g = [i \in 1 .. n |-> Utf16Step(bytes, i, g)]
  <2>1. \A i \in 1 .. n : g[i] = Utf16Step(bytes, i, g)
    BY <1>3, <1>5 DEF IsRecursion
  <2> HIDE DEF n, X
  <2> QED
    BY <2>1
<1>7. \A f : Equation(f) <=> f = [i \in 1 .. n |-> Utf16Step(bytes, i, f)]
  BY Zenon DEF Utf16Step
<1>8. \E f : Equation(f)
  <2> HIDE DEF Equation
  <2> QED
    BY <1>6, <1>7
<1> DEFINE from[i \in 1 .. Len(bytes) + 4] ==
             IF i > Len(bytes) THEN << >>
             ELSE UnitsOf(CodePointAt(bytes, i)) \o from[i + Width(bytes[i])]
<1>9. Equation(from)
  BY <1>8, Zenon
<1>10. Utf16(bytes) = from[1]
  BY Zenon DEF Utf16
<1> HIDE DEF from
<1>11. from = [i \in 1 .. n |-> Utf16Step(bytes, i, from)]
  <2> HIDE DEF Equation
  <2> QED
    BY <1>7, <1>9
<1>12. \A i \in 1 .. n : from[i] = Utf16Step(bytes, i, from)
  <2> HIDE DEF n
  <2> QED
    BY <1>11
<1> DEFINE S == {i \in 1 .. n : \A j \in i .. n : from[j] \in Seq(Int)}
           m == Len(bytes) + 3
<1>13. m \in Nat /\ m + 1 = n
  OBVIOUS
<1>14. n \in S
  <2>1. from[n] = << >>
    BY <1>1, <1>12 DEF Utf16Step
  <2>2. n \in 1 .. n /\ \A j \in n .. n : j = n
    BY <1>1
  <2>3. from[n] \in Seq(Int)
    BY <1>1, <2>1
  <2> HIDE DEF n
  <2> QED
    BY <2>2, <2>3
<1>15. ASSUME NEW i \in 1 .. m, i + 1 \in S PROVE i \in S
  <2>1. i \in 1 .. n /\ \A j \in i .. n : j = i \/ j \in i + 1 .. n
    BY <1>1, <1>13
  <2>2. \A j \in i + 1 .. n : from[j] \in Seq(Int)
    BY <1>15
  <2>3. from[i] \in Seq(Int)
    BY <1>12, <2>1, <2>2, Utf16StepType
  <2> HIDE DEF n
  <2> QED
    BY <2>1, <2>2, <2>3
<1>16. \A i \in 1 .. n : from[i] \in Seq(Int)
  <2>1. 1 .. n \subseteq S
    <3> HIDE DEF S, n, m
    <3> QED
      BY <1>13, <1>14, <1>15, CountDown
  <2>2. \A i \in 1 .. n : i \in i .. n
    BY <1>1
  <2> HIDE DEF n
  <2> QED
    BY <2>1, <2>2
<1> HIDE DEF S
<1>17. from \in [1 .. n -> Seq(Int)]
  <2> HIDE DEF n
  <2> QED
    BY <1>11, <1>16
<1> QED
  BY <1>10, <1>12, <1>17, Zenon DEF IsReading

\* A code point, by its first byte and the bits of the three bytes after it.
CodeOf(first, second, third, fourth) ==
  CASE Width(first) = 1 -> first
    [] Width(first) = 2 -> (first - 192) * 64 + second
    [] Width(first) = 3 -> (first - 224) * 4096 + second * 64 + third
    [] Width(first) = 4 -> (first - 240) * 262144 + second * 4096 + third * 64 + fourth

LEMMA CodePointAtIsCode ==
  ASSUME NEW bytes, NEW i
  PROVE  CodePointAt(bytes, i) =
           CodeOf(bytes[i], BitsAt(bytes, i + 1), BitsAt(bytes, i + 2), BitsAt(bytes, i + 3))
BY DEF CodePointAt, BitsAt, CodeOf

\* The bytes after others are read as they are alone.
LEMMA ReadingShifts ==
  ASSUME NEW a \in Seq(Int), NEW b \in Seq(Int), NEW g, IsReading(g, a \o b), NEW h, IsReading(h, b)
  PROVE  \A i \in 1 .. Len(b) + 4 : g[Len(a) + i] = h[i]
<1> DEFINE whole == a \o b
           n == Len(a)
           l == Len(b)
           m == l + 3
           S == {i \in 1 .. m + 1 : \A j \in i .. m + 1 : g[n + j] = h[j]}
<1>1. /\ n \in Nat /\ l \in Nat /\ whole \in Seq(Int) /\ Len(whole) = n + l /\ m \in Nat /\ m + 1 = l + 4
      /\ \A i \in 1 .. l : whole[n + i] = b[i]
  BY ConcatProperties
<1>2. \A i \in 1 .. (n + l) + 4 : g[i] = Utf16Step(whole, i, g)
  BY <1>1 DEF IsReading
<1>3. \A i \in 1 .. l + 4 : h[i] = Utf16Step(b, i, h)
  BY DEF IsReading
<1> HIDE DEF whole
<1>4. \A i \in l + 1 .. l + 4 : g[n + i] = h[i]
  <2> SUFFICES ASSUME NEW i \in l + 1 .. l + 4 PROVE g[n + i] = h[i]
    OBVIOUS
  <2>1. n + i \in 1 .. (n + l) + 4 /\ i \in 1 .. l + 4 /\ n + i > Len(whole) /\ i > Len(b)
    BY <1>1
  <2>2. g[n + i] = << >>
    BY <1>2, <2>1, Zenon DEF Utf16Step
  <2>3. h[i] = << >>
    BY <1>3, <2>1, Zenon DEF Utf16Step
  <2> QED
    BY <2>2, <2>3
<1>5. ASSUME NEW i \in 1 .. l, \A j \in i + 1 .. l + 4 : g[n + j] = h[j]
      PROVE  g[n + i] = h[i]
  <2> DEFINE w == Width(b[i])
             ch == CodePointAt(b, i)
  <2>1. n + i \in 1 .. (n + l) + 4 /\ i \in 1 .. l + 4 /\ ~ (n + i > Len(whole)) /\ ~ (i > Len(b))
        /\ n + i \in 1 .. Len(whole) /\ whole[n + i] = b[i]
    BY <1>1, SMTT(40)
  <2>2. w \in {1, 2, 3, 4}
    <3>1. b[i] \in Int
      OBVIOUS
    <3> QED
      BY <3>1, WidthType
  <2>3. \A k \in Nat : k > 0 => BitsAt(whole, n + k) = BitsAt(b, k)
    <3> SUFFICES ASSUME NEW k \in Nat, k > 0 PROVE BitsAt(whole, n + k) = BitsAt(b, k)
      OBVIOUS
    <3>1. CASE k <= l
      <4>1. n + k <= Len(whole) /\ k <= Len(b) /\ whole[n + k] = b[k]
        BY <1>1, <3>1
      <4> QED
        BY <4>1, Zenon DEF BitsAt
    <3>2. CASE ~ (k <= l)
      <4>1. ~ (n + k <= Len(whole)) /\ ~ (k <= Len(b))
        BY <1>1, <3>2
      <4> QED
        BY <4>1, Zenon DEF BitsAt
    <3> QED
      BY <3>1, <3>2
  <2>4. CodePointAt(whole, n + i) = ch
    <3>1. /\ BitsAt(whole, (n + i) + 1) = BitsAt(b, i + 1)
          /\ BitsAt(whole, (n + i) + 2) = BitsAt(b, i + 2)
          /\ BitsAt(whole, (n + i) + 3) = BitsAt(b, i + 3)
      <4>1. /\ (n + i) + 1 = n + (i + 1) /\ (n + i) + 2 = n + (i + 2) /\ (n + i) + 3 = n + (i + 3)
            /\ i + 1 \in Nat /\ i + 1 > 0 /\ i + 2 \in Nat /\ i + 2 > 0 /\ i + 3 \in Nat /\ i + 3 > 0
        BY <1>1
      <4> QED
        BY <2>3, <4>1, Zenon
    <3> QED
      BY <2>1, <3>1, CodePointAtIsCode, Zenon
  <2>5. i + w \in i + 1 .. l + 4 /\ (n + i) + w = n + (i + w)
    <3> HIDE DEF w
    <3> QED
      BY <1>1, <2>2
  <2>6. g[n + i] = UnitsOf(ch) \o g[(n + i) + w]
    <3>1. g[n + i] = Utf16Step(whole, n + i, g)
      BY <1>2, <2>1
    <3>2. Utf16Step(whole, n + i, g) = UnitsOf(CodePointAt(whole, n + i)) \o g[(n + i) + Width(whole[n + i])]
      BY <2>1, Zenon DEF Utf16Step
    <3>3. Width(whole[n + i]) = w
      BY <2>1
    <3> HIDE DEF w, ch
    <3> QED
      BY <2>4, <3>1, <3>2, <3>3, Zenon
  <2>7. h[i] = UnitsOf(ch) \o h[i + w]
    BY <1>3, <2>1, Zenon DEF Utf16Step
  <2>8. g[(n + i) + w] = h[i + w]
    <3> HIDE DEF w
    <3> QED
      BY <1>5, <2>5
  <2> QED
    BY <2>6, <2>7, <2>8, Zenon
<1>6. m + 1 \in S
  BY <1>1, <1>4
<1>7. ASSUME NEW i \in 1 .. m, i + 1 \in S PROVE i \in S
  <2>1. \A j \in i + 1 .. l + 4 : g[n + j] = h[j]
    BY <1>1, <1>7
  <2>2. g[n + i] = h[i]
    <3>1. i \in 1 .. l \/ i \in l + 1 .. l + 4
      BY <1>1
    <3> QED
      BY <1>4, <1>5, <2>1, <3>1, Zenon
  <2>3. i \in 1 .. m + 1 /\ \A j \in i .. m + 1 : j = i \/ j \in i + 1 .. l + 4
    BY <1>1
  <2> HIDE DEF m
  <2> QED
    BY <2>1, <2>2, <2>3
<1>8. 1 .. m + 1 \subseteq S
  <2> HIDE DEF S, m
  <2> QED
    BY <1>1, <1>6, <1>7, CountDown
<1>9. \A i \in 1 .. m + 1 : i \in i .. m + 1
  BY <1>1
<1> QED
  <2>1. \A i \in 1 .. m + 1 : g[n + i] = h[i]
    BY <1>8, <1>9
  <2> HIDE DEF m
  <2> QED
    BY <1>1, <2>1

\* What a first byte and the bits after it say of a code point.
IsWritten(ch, q, p, o, r, s, t) ==
  /\ q \in Nat /\ p \in Nat /\ o \in Nat /\ r \in Nat /\ s \in Nat /\ t \in Nat
  /\ ch < 128 => Width(ch) = 1
  /\ 128 <= ch /\ ch < 2048 => Width(192 + q) = 2 /\ ((192 + q) - 192) * 64 + r = ch
  /\ 2048 <= ch /\ ch < 65536 => Width(224 + p) = 3 /\ ((224 + p) - 224) * 4096 + s * 64 + r = ch
  /\ 65536 <= ch => Width(240 + o) = 4 /\ ((240 + o) - 240) * 262144 + t * 4096 + s * 64 + r = ch

LEMMA CodePointWritten ==
  ASSUME NEW ch \in CodePoints,
         NEW q, q = ch \div 64, NEW p, p = ch \div 4096, NEW o, o = ch \div 262144,
         NEW r, r = Trail(ch) % 64, NEW s, s = Trail(ch \div 64) % 64, NEW t, t = Trail(ch \div 4096) % 64
  PROVE  IsWritten(ch, q, p, o, r, s, t)
<1>1. ch \in Nat /\ ch < 1114112
  BY SMT DEF CodePoints
<1>2. q \in Nat /\ p \in Nat /\ o \in Nat
  BY <1>1, SMT
<1>3. p = q \div 64 /\ o = p \div 64
  BY <1>1, SMT
<1>4. \A x \in Int : Trail(x) % 64 = x % 64
  BY SMT DEF Trail
<1>5. r = ch % 64 /\ s = q % 64 /\ t = p % 64
  <2>1. ch \in Int /\ q \in Int /\ p \in Int
    BY <1>1, <1>2, SMT
  <2>2. Trail(ch) % 64 = ch % 64 /\ Trail(q) % 64 = q % 64 /\ Trail(p) % 64 = p % 64
    BY <1>4, <2>1
  <2> QED
    BY <2>2
<1>6. \A x, y, z \in Nat : y = x \div 64 /\ z = x % 64 => x = 64 * y + z
  BY SMT
<1>7. r \in Nat /\ r < 64 /\ s \in Nat /\ s < 64 /\ t \in Nat /\ t < 64
  BY <1>1, <1>2, <1>5, SMT
<1>8. ch = 64 * q + r
  BY <1>1, <1>2, <1>5, <1>6, <1>7, SMT
<1>9. q = 64 * p + s
  BY <1>2, <1>3, <1>5, <1>6, <1>7, SMT
<1>10. p = 64 * o + t
  BY <1>2, <1>3, <1>5, <1>6, <1>7, SMT
<1>11. ch < 128 => Width(ch) = 1
  BY <1>1, SMT DEF Width
<1>12. 128 <= ch /\ ch < 2048 => Width(192 + q) = 2 /\ ((192 + q) - 192) * 64 + r = ch
  BY <1>1, <1>2, <1>7, <1>8, SMT DEF Width
<1>13. 2048 <= ch /\ ch < 65536 => Width(224 + p) = 3 /\ ((224 + p) - 224) * 4096 + s * 64 + r = ch
  BY <1>1, <1>2, <1>7, <1>8, <1>9, SMT DEF Width
<1>14. 65536 <= ch => Width(240 + o) = 4 /\ ((240 + o) - 240) * 262144 + t * 4096 + s * 64 + r = ch
  BY <1>1, <1>2, <1>7, <1>8, <1>9, <1>10, SMT DEF Width
<1> QED
  BY <1>2, <1>7, <1>11, <1>12, <1>13, <1>14, SMT DEF IsWritten

LEMMA BytesAt ==
  ASSUME NEW a \in Seq(Int), NEW tail \in Seq(Int), NEW j \in 1 .. Len(a)
  PROVE  /\ (a \o tail)[j] = a[j]
         /\ BitsAt(a \o tail, j) = a[j] % 64
<1>1. Len(a) \in Nat /\ Len(tail) \in Nat /\ Len(a \o tail) = Len(a) + Len(tail) /\ (a \o tail)[j] = a[j]
  BY ConcatProperties
<1>2. j <= Len(a \o tail)
  BY <1>1
<1> QED
  BY <1>1, <1>2, Zenon DEF BitsAt

\* The bytes of a code point, and what is read of them whatever follows.
LEMMA CodePointBack ==
  ASSUME NEW ch \in CodePoints, NEW tail \in Seq(Int)
  PROVE  /\ Utf8Bytes(ch) \in Seq(Int) /\ Len(Utf8Bytes(ch)) > 0
         /\ Width((Utf8Bytes(ch) \o tail)[1]) = Len(Utf8Bytes(ch))
         /\ CodePointAt(Utf8Bytes(ch) \o tail, 1) = ch
<1> DEFINE a == Utf8Bytes(ch)
           whole == a \o tail
           n == BytesToWrite(ch)
<1>1. ch \in Nat /\ ch < 1114112
  BY SMT DEF CodePoints
<1>2. a \in Seq(Int)
  BY CodePointBytes
<1> DEFINE two == (whole[1] - 192) * 64 + BitsAt(whole, 2)
           three == (whole[1] - 224) * 4096 + BitsAt(whole, 2) * 64 + BitsAt(whole, 3)
           four == (whole[1] - 240) * 262144 + BitsAt(whole, 2) * 4096 + BitsAt(whole, 3) * 64 + BitsAt(whole, 4)
<1>3. /\ Width(whole[1]) = 1 => CodePointAt(whole, 1) = whole[1]
      /\ Width(whole[1]) = 2 => CodePointAt(whole, 1) = two
      /\ Width(whole[1]) = 3 => CodePointAt(whole, 1) = three
      /\ Width(whole[1]) = 4 => CodePointAt(whole, 1) = four
  <2>1. 1 + 1 = 2 /\ 1 + 2 = 3 /\ 1 + 3 = 4
    OBVIOUS
  <2> HIDE DEF whole
  <2> QED
    BY <2>1, CodePointAtIs, SMT
<1>4. \A j \in 1 .. Len(a) : whole[j] = a[j] /\ BitsAt(whole, j) = a[j] % 64
  <2> HIDE DEF a
  <2> QED
    BY <1>2, BytesAt
<1> HIDE DEF whole
<1> DEFINE q == ch \div 64
           p == ch \div 4096
           o == ch \div 262144
           trail == Trail(ch)
           trail2 == Trail(ch \div 64)
           trail3 == Trail(ch \div 4096)
           r == trail % 64
           s == trail2 % 64
           t == trail3 % 64
<1>10. IsWritten(ch, q, p, o, r, s, t)
  <2>1. /\ q = ch \div 64 /\ p = ch \div 4096 /\ o = ch \div 262144
        /\ r = Trail(ch) % 64 /\ s = Trail(ch \div 64) % 64 /\ t = Trail(ch \div 4096) % 64
    OBVIOUS
  <2> HIDE DEF q, p, o, r, s, t
  <2> QED
    BY <2>1, CodePointWritten
<1>5. CASE n = 1
  <2>1. ch < 128
    BY <1>1, <1>5, SMT DEF BytesToWrite
  <2>2. a = <<ch>>
    BY <1>5, SMT DEF Utf8Bytes
  <2>3. Len(a) = 1 /\ whole[1] = ch
    <3> HIDE DEF a
    <3> QED
      BY <1>4, <2>2
  <2>4. Width(ch) = 1
    BY <1>10, <2>1, SMT DEF IsWritten
  <2>5. CodePointAt(whole, 1) = ch
    BY <1>3, <2>3, <2>4, SMT
  <2> HIDE DEF a
  <2> QED
    BY <1>2, <2>3, <2>4, <2>5, SMT DEF a, whole
<1>6. CASE n = 2
  <2> DEFINE first == 192 + q
  <2>1. 128 <= ch /\ ch < 2048
    BY <1>1, <1>6, SMT DEF BytesToWrite
  <2>2. a = <<192 + (ch \div 64), Trail(ch)>>
    BY <1>6, SMT DEF Utf8Bytes
  <2>3. Len(a) = 2 /\ whole[1] = first /\ BitsAt(whole, 2) = r
    <3>1. a = <<first, trail>>
      BY <2>2
    <3> HIDE DEF a, first, trail, trail2, trail3
    <3>2. Len(a) = 2 /\ a[1] = first /\ a[2] = trail
      BY <3>1
    <3> QED
      BY <1>4, <3>2 DEF r, s, t
  <2>4. Width(first) = 2 /\ (first - 192) * 64 + r = ch
    <3> HIDE DEF q, p, o, r, s, t
    <3> QED
      BY <1>10, <2>1, SMT DEF IsWritten
  <2>5. CodePointAt(whole, 1) = ch
    <3>1. two = ch
      <4> HIDE DEF first, r, s, t
      <4> QED
        BY <2>3, <2>4, SMT
    <3> HIDE DEF first, two, three, four
    <3> QED
      BY <1>3, <2>3, <2>4, <3>1, SMT
  <2> HIDE DEF a, first
  <2> QED
    BY <1>2, <2>3, <2>4, <2>5, SMT DEF a, whole
<1>7. CASE n = 3
  <2> DEFINE first == 224 + p
  <2>1. 2048 <= ch /\ ch < 65536
    BY <1>1, <1>7, SMT DEF BytesToWrite
  <2>2. a = <<224 + (ch \div 4096), Trail(ch \div 64), Trail(ch)>>
    BY <1>7, SMT DEF Utf8Bytes
  <2>3. Len(a) = 3 /\ whole[1] = first /\ BitsAt(whole, 2) = s /\ BitsAt(whole, 3) = r
    <3>1. a = <<first, trail2, trail>>
      BY <2>2
    <3> HIDE DEF a, first, trail, trail2, trail3
    <3>2. Len(a) = 3 /\ a[1] = first /\ a[2] = trail2 /\ a[3] = trail
      BY <3>1
    <3> QED
      BY <1>4, <3>2 DEF r, s, t
  <2>4. Width(first) = 3 /\ (first - 224) * 4096 + s * 64 + r = ch
    <3> HIDE DEF q, p, o, r, s, t
    <3> QED
      BY <1>10, <2>1, SMT DEF IsWritten
  <2>5. CodePointAt(whole, 1) = ch
    <3>1. three = ch
      <4> HIDE DEF first, r, s, t
      <4> QED
        BY <2>3, <2>4, SMT
    <3> HIDE DEF first, two, three, four
    <3> QED
      BY <1>3, <2>3, <2>4, <3>1, SMT
  <2> HIDE DEF a, first
  <2> QED
    BY <1>2, <2>3, <2>4, <2>5, SMT DEF a, whole
<1>8. CASE n = 4
  <2> DEFINE first == 240 + o
  <2>1. 65536 <= ch
    BY <1>1, <1>8, SMT DEF BytesToWrite
  <2>2. a = <<240 + (ch \div 262144), Trail(ch \div 4096), Trail(ch \div 64), Trail(ch)>>
    BY <1>8, SMT DEF Utf8Bytes
  <2>3. Len(a) = 4 /\ whole[1] = first /\ BitsAt(whole, 2) = t /\ BitsAt(whole, 3) = s /\ BitsAt(whole, 4) = r
    <3>1. a = <<first, trail3, trail2, trail>>
      BY <2>2
    <3> HIDE DEF a, first, trail, trail2, trail3
    <3>2. Len(a) = 4 /\ a[1] = first /\ a[2] = trail3 /\ a[3] = trail2 /\ a[4] = trail
      BY <3>1
    <3> QED
      BY <1>4, <3>2 DEF r, s, t
  <2>4. Width(first) = 4 /\ (first - 240) * 262144 + t * 4096 + s * 64 + r = ch
    <3> HIDE DEF q, p, o, r, s, t
    <3> QED
      BY <1>10, <2>1, SMT DEF IsWritten
  <2>5. CodePointAt(whole, 1) = ch
    <3>1. four = ch
      <4> HIDE DEF first, r, s, t
      <4> QED
        BY <2>3, <2>4, SMT
    <3> HIDE DEF first, two, three, four
    <3> QED
      BY <1>3, <2>3, <2>4, <3>1, SMT
  <2> HIDE DEF a, first
  <2> QED
    BY <1>2, <2>3, <2>4, <2>5, SMT DEF a, whole
<1>9. n = 1 \/ n = 2 \/ n = 3 \/ n = 4
  BY <1>1, SMT DEF BytesToWrite
<1> HIDE DEF n
<1> QED
  BY <1>5, <1>6, <1>7, <1>8, <1>9, Zenon

\* What is read of bytes, whatever follows them.
Reads(bytes, units) == \A tail \in Seq(Int) : Utf16(bytes \o tail) = units \o Utf16(tail)

LEMMA Utf16Type == ASSUME NEW bytes \in Seq(Int) PROVE Utf16(bytes) \in Seq(Int)
<1>1. PICK g : IsReading(g, bytes)
  BY ReadingExists
<1>2. 1 \in 1 .. Len(bytes) + 4
  OBVIOUS
<1> QED
  BY <1>1, <1>2 DEF IsReading

LEMMA CodePointReads ==
  ASSUME NEW ch \in CodePoints
  PROVE  Reads(Utf8Bytes(ch), UnitsOf(ch))
<1> SUFFICES ASSUME NEW tail \in Seq(Int) PROVE Utf16(Utf8Bytes(ch) \o tail) = UnitsOf(ch) \o Utf16(tail)
  BY DEF Reads
<1> DEFINE a == Utf8Bytes(ch)
           whole == a \o tail
           n == Len(a)
<1>1. /\ a \in Seq(Int) /\ n > 0 /\ Width(whole[1]) = n /\ CodePointAt(whole, 1) = ch
  BY CodePointBack
<1> HIDE DEF a
<1>2. /\ n \in Nat /\ whole \in Seq(Int) /\ Len(whole) = n + Len(tail) /\ Len(tail) \in Nat
      /\ 1 \in 1 .. Len(whole) + 4 /\ ~ (1 > Len(whole)) /\ 1 \in 1 .. Len(tail) + 4 /\ n + 1 = 1 + n
  BY <1>1, ConcatProperties
<1>3. PICK g : IsReading(g, whole)
  BY <1>2, ReadingExists
<1>4. PICK h : IsReading(h, tail)
  BY ReadingExists
<1>5. g[n + 1] = h[1]
  BY <1>1, <1>2, <1>3, <1>4, ReadingShifts
<1> HIDE DEF whole
<1>6. g[1] = Utf16Step(whole, 1, g) /\ Utf16(whole) = g[1] /\ Utf16(tail) = h[1]
  BY <1>2, <1>3, <1>4, Zenon DEF IsReading
<1>7. g[1] = UnitsOf(ch) \o g[1 + n]
  BY <1>1, <1>2, <1>6, Zenon DEF Utf16Step
<1>8. Utf16(whole) = UnitsOf(ch) \o Utf16(tail)
  <2> HIDE DEF n
  <2> QED
    BY <1>2, <1>5, <1>6, <1>7, Zenon
<1> QED
  BY <1>8 DEF whole, a

LEMMA IntsAssociate ==
  ASSUME NEW a \in Seq(Int), NEW b \in Seq(Int), NEW c \in Seq(Int)
  PROVE  a \o (b \o c) = (a \o b) \o c
BY SMTT(40)

LEMMA ReadsJoined ==
  ASSUME NEW a \in Seq(Int), NEW b \in Seq(Int), NEW u \in Seq(Int), NEW v \in Seq(Int), Reads(a, u), Reads(b, v)
  PROVE  Reads(a \o b, u \o v)
<1> SUFFICES ASSUME NEW tail \in Seq(Int) PROVE Utf16((a \o b) \o tail) = (u \o v) \o Utf16(tail)
  BY DEF Reads
<1>1. (a \o b) \o tail = a \o (b \o tail) /\ b \o tail \in Seq(Int)
  BY SMTT(40)
<1>2. Utf16(a \o (b \o tail)) = u \o Utf16(b \o tail)
  BY <1>1, Zenon DEF Reads
<1>3. Utf16(b \o tail) = v \o Utf16(tail)
  BY Zenon DEF Reads
<1> DEFINE w == Utf16(tail)
<1>4. w \in Seq(Int)
  BY Utf16Type
<1> HIDE DEF w
<1>5. u \o (v \o w) = (u \o v) \o w
  BY <1>4, IntsAssociate, ZenonT(40)
<1> QED
  BY <1>1, <1>2, <1>3, <1>5, Zenon DEF w

LEMMA NothingReads == Reads(<< >>, << >>)
<1> SUFFICES ASSUME NEW tail \in Seq(Int) PROVE Utf16(<< >> \o tail) = << >> \o Utf16(tail)
  BY DEF Reads
<1> DEFINE w == Utf16(tail)
<1>1. w \in Seq(Int)
  BY Utf16Type
<1>2. << >> \o tail = tail
  OBVIOUS
<1> HIDE DEF w
<1>3. << >> \o w = w
  BY <1>1
<1> QED
  BY <1>2, <1>3, Zenon DEF w

LEMMA ReadsWhole ==
  ASSUME NEW a \in Seq(Int), NEW u \in Seq(Int), Reads(a, u)
  PROVE  Utf16(a) = u
<1>1. << >> \in Seq(Int) /\ a \o << >> = a /\ u \o << >> = u
  OBVIOUS
<1>2. Utf16(<< >>) = << >>
  <2>1. PICK g : IsReading(g, << >>)
    BY <1>1, ReadingExists
  <2>2. Len(<< >>) = 0 /\ 1 \in 1 .. Len(<< >>) + 4 /\ 1 > Len(<< >>)
    OBVIOUS
  <2>3. g[1] = << >>
    BY <2>1, <2>2, Zenon DEF IsReading, Utf16Step
  <2> QED
    BY <2>1, <2>3, Zenon DEF IsReading
<1>3. Utf16(a \o << >>) = u \o Utf16(<< >>)
  BY <1>1, Zenon DEF Reads
<1> QED
  BY <1>1, <1>2, <1>3, Zenon

\* The code point of one unit, or of a pair, stands for them.
LEMMA UnitsBack ==
  /\ \A u \in UtfUnits : UnitsOf(u) = <<u>>
  /\ \A high, low : IsHigh(high) /\ IsLow(low) => UnitsOf(PairValue(high, low)) = <<high, low>>
<1>1. \A u \in UtfUnits : UnitsOf(u) = <<u>>
  BY SMT DEF UnitsOf, UtfUnits
<1>2. ASSUME NEW high, NEW low, IsHigh(high), IsLow(low)
      PROVE  UnitsOf(PairValue(high, low)) = <<high, low>>
  <2> DEFINE ch == PairValue(high, low)
             q == high - 55296
             r == low - 56320
  <2>1. high \in Int /\ low \in Int /\ q \in Nat /\ r \in Nat /\ r < 1024
    BY <1>2, HighBounds, LowBounds, SMT
  <2>2. ch = q * 1024 + r + 65536
    BY <1>2, PairIsCodePoint
  <2>3. high = 55296 + q /\ low = 56320 + r
    BY <2>1, SMT
  <2> HIDE DEF ch, q, r
  <2>4. ch \in Int /\ ~ (ch < 65536) /\ ch - 65536 = q * 1024 + r
    BY <2>1, <2>2, SMT
  <2> DEFINE x == ch - 65536
  <2>6. x \in Nat /\ x = q * 1024 + r
    BY <2>1, <2>4, SMT
  <2>7. x \div 1024 = q /\ x % 1024 = r
    <3> HIDE DEF x
    <3> QED
      BY <2>1, <2>6, SMT
  <2>8. UnitsOf(ch) = <<55296 + (x \div 1024), 56320 + (x % 1024)>>
    BY <2>4, SMT DEF UnitsOf
  <2> HIDE DEF x
  <2>9. UnitsOf(ch) = <<high, low>>
    BY <2>3, <2>7, <2>8
  <2> QED
    BY <2>9 DEF ch
<1> QED
  BY <1>1, <1>2

\* What is converted is read back.
LEMMA ConversionReads ==
  ASSUME NEW source \in Seq(UtfUnits), Converts(source)
  PROVE  /\ ConvertUTF16toUTF8(source).bytes \in Seq(Int)
         /\ Reads(ConvertUTF16toUTF8(source).bytes, source)
<1> DEFINE n == Len(source)
           From(i) == SubSeq(source, i, n)
<1>1. n \in Nat /\ source \in Seq(Int) /\ \A i \in 1 .. n : source[i] \in UtfUnits
  BY SMT DEF UtfUnits
<1>2. PICK g : IsConversion(g, source)
  BY ConversionExists
<1>3. /\ ConvertUTF16toUTF8(source) = g[1]
      /\ \A i \in 1 .. n + 1 : g[i] \in Results /\ g[i] = ConvertStep(source, i, g)
  BY <1>2 DEF IsConversion
<1>4. \A i \in 1 .. n + 1 : \A j \in i + 1 .. n + 1 : g[j] \in Results
  BY <1>1, <1>3
<1> DEFINE Good(i) == g[i].result = "conversionOK" => Reads(g[i].bytes, From(i))
           S == {i \in 1 .. n + 1 : Good(i) /\ (i <= n => Good(i + 1))}
<1>5. \A i \in 1 .. n + 1 : From(i) \in Seq(Int) /\ g[i].bytes \in Seq(Int)
  <2>1. \A i \in 1 .. n + 1 : From(i) \in Seq(Int)
    BY <1>1
  <2>2. \A x \in Results : x.bytes \in Seq(Int)
    BY DEF Results
  <2> QED
    BY <1>3, <2>1, <2>2
<1>6. Good(n + 1)
  <2>1. n + 1 \in 1 .. n + 1 /\ From(n + 1) = << >>
    BY <1>1
  <2>2. g[n + 1] = [result |-> "conversionOK", bytes |-> << >>]
    BY <1>3, <1>4, <2>1, ConvertStepIs, Zenon
  <2>3. g[n + 1].bytes = << >>
    BY <2>2
  <2> HIDE DEF From
  <2> QED
    BY <2>1, <2>3, NothingReads
<1>7. n + 1 \in S
  BY <1>1, <1>6
<1>8. ASSUME NEW ch \in CodePoints, NEW x \in 1 .. n + 1, NEW i \in 1 .. n + 1,
             g[i] = Extended(ch, g[x]), Good(x), From(i) = UnitsOf(ch) \o From(x)
      PROVE  Good(i)
  <2> SUFFICES ASSUME g[i].result = "conversionOK" PROVE Reads(g[i].bytes, From(i))
    OBVIOUS
  <2>1. Extended(ch, g[x]).result = g[x].result /\ Extended(ch, g[x]).bytes = Utf8Bytes(ch) \o g[x].bytes
    BY ExtendedResult
  <2>2. g[x].result = "conversionOK" /\ g[i].bytes = Utf8Bytes(ch) \o g[x].bytes
    BY <1>8, <2>1, Zenon
  <2>3. Reads(g[x].bytes, From(x))
    BY <1>8, <2>2
  <2>4. Utf8Bytes(ch) \in Seq(Int) /\ UnitsOf(ch) \in Seq(Int)
    <3>1. ch \in Int
      BY SMT DEF CodePoints
    <3> QED
      BY <3>1, CodePointBytes, UnitsType
  <2>5. Reads(Utf8Bytes(ch), UnitsOf(ch))
    BY CodePointReads
  <2> DEFINE a == Utf8Bytes(ch)
             b == g[x].bytes
             u == UnitsOf(ch)
             v == From(x)
  <2>6. a \in Seq(Int) /\ b \in Seq(Int) /\ u \in Seq(Int) /\ v \in Seq(Int)
    BY <1>5, <2>4
  <2> HIDE DEF a, b, u, v
  <2>7. Reads(a \o b, u \o v)
    BY <2>3, <2>5, <2>6, ReadsJoined DEF a, b, u, v
  <2> HIDE DEF From
  <2> QED
    BY <1>8, <2>2, <2>7, Zenon DEF a, b, u, v
<1>9. ASSUME NEW i \in 1 .. n, i + 1 \in S PROVE i \in S
  <2>1. i \in 1 .. n + 1 /\ i + 1 \in 1 .. n + 1 /\ i <= n /\ source[i] \in UtfUnits
    BY <1>1
  <2>2. Good(i + 1) /\ (i + 1 <= n => Good(i + 2))
    <3>1. (i + 1) + 1 = i + 2
      BY <1>1
    <3>2. Good(i + 1) /\ (i + 1 <= n => Good((i + 1) + 1))
      BY <1>9
    <3> HIDE DEF Good
    <3> QED
      BY <3>1, <3>2
  <2>3. CASE IsBadHigh(source, i) \/ IsLow(source[i])
    <3>1. ConvertStep(source, i, g).result # "conversionOK"
      BY <1>4, <2>1, <2>3, ConvertStepIs, Zenon
    <3>2. Good(i)
      BY <1>3, <2>1, <3>1, Zenon
    <3> HIDE DEF Good
    <3> QED
      BY <2>1, <2>2, <3>2
  <2>4. CASE IsHigh(source[i]) /\ ~ IsBadHigh(source, i)
    <3> DEFINE ch == PairValue(source[i], source[i + 1])
    <3>1. g[i] = Extended(ch, g[i + 2]) /\ i + 2 \in 1 .. n + 1 /\ ch \in CodePoints
      BY <1>3, <1>4, <2>1, <2>4, ConvertStepIs, Zenon
    <3>2. IsLow(source[i + 1]) /\ i + 1 <= n
      BY <1>1, <2>4, <3>1 DEF IsBadHigh
    <3>3. UnitsOf(ch) = <<source[i], source[i + 1]>>
      BY <2>4, <3>2, UnitsBack, Zenon
    <3>4. From(i) = <<source[i], source[i + 1]>> \o From(i + 2)
      BY <1>1, <3>1, <3>2, SMTT(40)
    <3> HIDE DEF From, ch
    <3>5. Good(i)
      BY <1>8, <2>1, <2>2, <3>1, <3>2, <3>3, <3>4
    <3> HIDE DEF Good
    <3> QED
      BY <2>1, <2>2, <3>5
  <2>5. CASE ~ IsHigh(source[i]) /\ ~ IsLow(source[i])
    <3> DEFINE ch == source[i]
    <3>1. g[i] = Extended(ch, g[i + 1]) /\ ch \in CodePoints
      BY <1>3, <1>4, <2>1, <2>5, ConvertStepIs, Zenon
    <3>2. UnitsOf(ch) = <<ch>>
      BY <2>1, UnitsBack, Zenon
    <3>3. From(i) = <<ch>> \o From(i + 1)
      BY <1>1, <2>1
    <3> HIDE DEF From, ch
    <3>4. Good(i)
      BY <1>8, <2>1, <2>2, <3>1, <3>2, <3>3
    <3> HIDE DEF Good
    <3> QED
      BY <2>1, <2>2, <3>4
  <2> QED
    BY <2>3, <2>4, <2>5
<1>10. Good(1)
  <2>1. 1 .. n + 1 \subseteq S
    <3> HIDE DEF S, n
    <3> QED
      BY <1>1, <1>7, <1>9, CountDown
  <2>2. 1 \in 1 .. n + 1
    BY <1>1
  <2> HIDE DEF Good
  <2> QED
    BY <2>1, <2>2
<1>11. From(1) = source /\ 1 \in 1 .. n + 1
  BY <1>1
<1>12. g[1].result = "conversionOK"
  BY <1>3 DEF Converts
<1>13. Reads(g[1].bytes, source) /\ g[1].bytes \in Seq(Int)
  <2>1. Reads(g[1].bytes, From(1))
    BY <1>10, <1>12
  <2> HIDE DEF From
  <2> QED
    BY <1>5, <1>11, <2>1
<1> QED
  BY <1>3, <1>13, Zenon

\* The report up to the unit k is read, and is what is read of the bytes written: up to the
\* block that failed, if one did.
ReadTo(k) ==
  /\ rest = SubSeq(report, k + 1, Len(report))
  /\ k = Len(report) \/ AtBlock(k)
  /\ status # "failed" => Reads(written, SubSeq(report, 1, k))
  /\ status = "failed" =>
       \E j \in 0 .. Len(report) :
         AtBlock(j) /\ j < k /\ k <= j + BSIZ /\ Reads(written, SubSeq(report, 1, j))

UtfInv ==
  /\ report \in Seq(UtfUnits) /\ buffer \in Seq(UtfUnits) /\ written \in Seq(Int)
  /\ \E k \in 0 .. Len(report) : ReadTo(k)
  /\ FailureExplained

LEMMA UnitsAreInts == Seq(UtfUnits) \subseteq Seq(Int)
BY SMT DEF UtfUnits

LEMMA BlockFollows ==
  ASSUME NEW text \in Seq(UtfUnits), NEW block \in Seq(UtfUnits), NEW k \in 0 .. Len(text),
         k + Len(block) \in 0 .. Len(text), \A j \in 1 .. Len(block) : block[j] = text[k + j]
  PROVE  SubSeq(text, 1, k) \o block = SubSeq(text, 1, k + Len(block))
<1> DEFINE b == Len(block)
           u == SubSeq(text, 1, k)
           v == SubSeq(text, 1, k + b)
<1>1. b \in Nat /\ k \in Nat /\ k + b <= Len(text) /\ Len(text) \in Nat
  OBVIOUS
<1>2. u \in Seq(UtfUnits) /\ Len(u) = k /\ \A j \in 1 .. k : u[j] = text[j]
  BY <1>1
<1>3. v \in Seq(UtfUnits) /\ Len(v) = k + b /\ \A j \in 1 .. k + b : v[j] = text[j]
  BY <1>1
<1> HIDE DEF u, v
<1>4. u \o block \in Seq(UtfUnits) /\ Len(u \o block) = k + b
  BY <1>2, ConcatProperties
<1>5. ASSUME NEW j \in 1 .. k + b PROVE (u \o block)[j] = v[j]
  <2>1. CASE j <= k
    <3>1. j \in 1 .. k /\ (u \o block)[j] = u[j]
      BY <1>1, <1>2, <2>1
    <3> QED
      BY <1>2, <1>3, <3>1
  <2>2. CASE ~ (j <= k)
    <3>1. j - k \in 1 .. b /\ k + (j - k) = j
      BY <1>1, <2>2
    <3>2. (u \o block)[j] = block[j - k]
      BY <1>1, <1>2, <2>2
    <3>3. block[j - k] = text[j]
      BY <3>1
    <3> QED
      BY <1>3, <3>2, <3>3
  <2> QED
    BY <2>1, <2>2
<1> HIDE DEF b
<1>6. u \o block = v
  <2> DEFINE w == u \o block
  <2>1. w \in Seq(UtfUnits) /\ Len(w) = Len(v) /\ \A j \in 1 .. Len(w) : w[j] = v[j]
    BY <1>3, <1>4, <1>5
  <2> HIDE DEF w
  <2>2. w = v
    BY <1>3, <2>1, SeqEqual
  <2> QED
    BY <2>2 DEF w
<1> QED
  BY <1>6 DEF u, v, b

LEMMA UtfStep == UtfInv /\ [UtfNext]_utfVars => UtfInv'
<1> SUFFICES ASSUME UtfInv, [UtfNext]_utfVars PROVE UtfInv'
  OBVIOUS
<1>0. /\ BSIZ \in Nat \ {0} /\ Len(report) \in Nat /\ report \in Seq(UtfUnits)
      /\ buffer \in Seq(UtfUnits) /\ written \in Seq(Int)
  BY BSIZAssumption DEF UtfInv
<1>4. PICK k \in 0 .. Len(report) : ReadTo(k)
  BY DEF UtfInv
<1>1. CASE EndOfReport
  <2>1. status # "failed" /\ status' # "failed" /\ UNCHANGED <<report, rest, buffer, beyond, written>>
    BY <1>1 DEF EndOfReport
  <2>2. FailureExplained'
    BY <2>1 DEF FailureExplained
  <2>3. ReadTo(k)'
    BY <1>4, <2>1 DEF ReadTo
  <2> QED
    BY <1>0, <2>1, <2>2, <2>3 DEF UtfInv
<1>2. CASE UNCHANGED utfVars
  <2>1. UNCHANGED <<report, rest, buffer, beyond, written, status>>
    BY <1>2 DEF utfVars
  <2>2. FailureExplained'
    BY <2>1 DEF UtfInv, FailureExplained
  <2>3. ReadTo(k)'
    BY <1>4, <2>1 DEF ReadTo
  <2> QED
    BY <1>0, <2>1, <2>2, <2>3 DEF UtfInv
<1>3. CASE ReadBlock
  <2>1. /\ rest # << >> /\ beyond' \in PastBlock /\ report' = report
        /\ buffer' = Block \o SubSeq(buffer, BlockLength + 1, Len(buffer))
        /\ rest' = SubSeq(rest, BlockLength + 1, Len(rest))
        /\ status = "reading"
    BY <1>3 DEF ReadBlock
  <2>2. /\ \/ Converts(Append(Block, beyond')) /\ Converts(Block) /\ status' = "reading"
           \/ ~ (Converts(Append(Block, beyond')) /\ Converts(Block)) /\ status' = "failed"
        /\ status' = "reading" => Converts(Block) /\ written' = written \o ConvertUTF16toUTF8(Block).bytes
        /\ status' = "failed" => written' = written
    <3>1. CASE Converts(Append(Block, beyond')) /\ Converts(Block)
      <4>1. written' = written \o ConvertUTF16toUTF8(Block).bytes /\ status' = "reading"
        BY <1>3, <2>1, <3>1 DEF ReadBlock
      <4> QED
        BY <3>1, <4>1
    <3>2. CASE ~ (Converts(Append(Block, beyond')) /\ Converts(Block))
      <4>1. written' = written /\ status' = "failed"
        BY <1>3, <3>2 DEF ReadBlock
      <4> QED
        BY <3>2, <4>1
    <3> QED
      BY <3>1, <3>2
  <2>3. /\ rest = SubSeq(report, k + 1, Len(report)) /\ (k = Len(report) \/ AtBlock(k))
        /\ Reads(written, SubSeq(report, 1, k))
    BY <1>4, <2>1 DEF ReadTo
  <2>4. Len(rest) = Len(report) - k /\ \A j \in 1 .. Len(rest) : rest[j] = report[k + j]
    BY <1>0, <2>3
  <2>5. rest \in Seq(UtfUnits) /\ Len(rest) # 0
    BY <1>0, <2>1, <2>3
  <2>0. PICK b \in Nat : b = BlockLength
    BY <1>0, <2>5 DEF BlockLength
  <2>6. /\ b \in 1 .. BSIZ /\ b \in 1 .. Len(rest) /\ (b = BSIZ \/ b = Len(rest))
    BY <1>0, <2>0, <2>4, <2>5 DEF BlockLength
  <2>7. k < Len(report) /\ AtBlock(k)
    BY <2>3, <2>4, <2>5
  <2>8. Block = SubSeq(rest, 1, b)
    BY <2>0, Zenon DEF Block
  <2>9. Block \in Seq(UtfUnits) /\ Len(Block) = b /\ \A j \in 1 .. b : Block[j] = rest[j]
    BY <2>5, <2>6, <2>8
  <2>10. beyond' \in UtfUnits
    <3>1. CASE b < Len(buffer)
      <4>1. beyond' = buffer[b + 1]
        BY <2>0, <2>1, <3>1, Zenon DEF PastBlock
      <4>2. b + 1 \in 1 .. Len(buffer)
        BY <1>0, <2>6, <3>1
      <4> QED
        BY <1>0, <4>1, <4>2
    <3>2. CASE ~ (b < Len(buffer))
      <4>1. beyond' \in Units
        BY <2>0, <2>1, <3>2, Zenon DEF PastBlock
      <4> QED
        BY <4>1, UnitsAreNumbers
    <3> QED
      BY <3>1, <3>2
  <2>11. buffer' \in Seq(UtfUnits)
    <3>1. SubSeq(buffer, b + 1, Len(buffer)) \in Seq(UtfUnits)
      BY <1>0, <2>6
    <3> QED
      BY <2>0, <2>1, <2>9, <3>1, ConcatProperties, Zenon
  <2> DEFINE m == k + b
  <2>12. ReadTo(m)' /\ m \in 0 .. Len(report) /\ written' \in Seq(Int)
    <3>1. m \in 0 .. Len(report) /\ (m = Len(report) \/ AtBlock(m))
      <4>1. m \in 0 .. Len(report) /\ (b = BSIZ \/ m = Len(report))
        BY <1>0, <2>4, <2>6
      <4>2. AtBlock(k + BSIZ)
        BY <1>0, <2>7, BlocksFollow
      <4> QED
        BY <4>1, <4>2
    <3>2. rest' = SubSeq(report, m + 1, Len(report))
      <4>1. rest' = SubSeq(rest, b + 1, Len(rest))
        BY <2>0, <2>1, Zenon
      <4> QED
        BY <1>0, <2>3, <2>4, <2>6, <4>1
    <3>3. CASE status' = "failed"
      <4>1. k \in 0 .. Len(report) /\ AtBlock(k) /\ k < m /\ m <= k + BSIZ
        BY <1>0, <2>6, <2>7
      <4>2. written' = written /\ Reads(written', SubSeq(report, 1, k))
        BY <2>2, <2>3, <3>3
      <4> HIDE DEF m
      <4>3. \E j \in 0 .. Len(report) : AtBlock(j) /\ j < m /\ m <= j + BSIZ /\ Reads(written', SubSeq(report, 1, j))
        BY <4>1, <4>2, Zenon
      <4> QED
        BY <1>0, <2>1, <3>1, <3>2, <3>3, <4>2, <4>3, Zenon DEF ReadTo
    <3>4. CASE status' = "reading"
      <4> DEFINE bytes == ConvertUTF16toUTF8(Block).bytes
      <4>1. written' = written \o bytes
        BY <2>2, <3>4
      <4>2. bytes \in Seq(Int) /\ Reads(bytes, Block)
        BY <2>2, <2>9, <3>4, ConversionReads
      <4>3. SubSeq(report, 1, k) \o Block = SubSeq(report, 1, m)
        <5>1. \A j \in 1 .. b : Block[j] = report[k + j]
          BY <2>4, <2>6, <2>9
        <5> QED
          BY <1>0, <2>9, <3>1, <5>1, BlockFollows
      <4>4. SubSeq(report, 1, k) \in Seq(Int) /\ Block \in Seq(Int)
        BY <1>0, <2>9, UnitsAreInts
      <4>5. Reads(written', SubSeq(report, 1, m)) /\ written' \in Seq(Int)
        <5> DEFINE u == SubSeq(report, 1, k)
        <5> HIDE DEF bytes, u, m
        <5>1. u \in Seq(Int) /\ Reads(written, u)
          BY <2>3, <4>4 DEF u
        <5>2. Reads(written \o bytes, u \o Block)
          BY <1>0, <4>2, <4>4, <5>1, ReadsJoined
        <5>3. written \o bytes \in Seq(Int)
          BY <1>0, <4>2
        <5> QED
          BY <4>1, <4>3, <5>2, <5>3, Zenon DEF u
      <4>6. status' # "failed"
        BY <3>4
      <4> HIDE DEF m
      <4> QED
        BY <2>1, <3>1, <3>2, <4>5, <4>6, Zenon DEF ReadTo
    <3> QED
      BY <2>2, <3>3, <3>4
  <2>13. FailureExplained'
    <3> SUFFICES ASSUME status' = "failed"
                 PROVE  ~ WellFormed(report) \/ PairSplit(report) \/ IsHigh(beyond') \/ IsLow(beyond')
      <4>1. IsLow(beyond') => beyond' \in 56320 .. 57343
        BY DEF IsLow
      <4>2. report' = report
        BY <2>1
      <4> QED
        BY <4>1, <4>2, SMT DEF FailureExplained
    <3> DEFINE sized == Append(Block, beyond')
    <3>1. /\ sized \in Seq(UtfUnits) /\ Len(sized) = b + 1 /\ sized[b + 1] = beyond'
          /\ \A j \in 1 .. b : sized[j] = rest[j]
      BY <2>6, <2>9, <2>10
    <3>2. PICK source \in {sized, Block} : ~ Converts(source)
      BY <2>1, <2>2
    <3>3. source \in Seq(UtfUnits) /\ Len(source) \in {b, b + 1} /\ \A j \in 1 .. b : source[j] = rest[j]
      <4> HIDE DEF sized
      <4> QED
        BY <2>9, <3>1, <3>2
    <3>4. b + 1 \in 1 .. Len(source) => source[b + 1] = beyond'
      <4>1. ~ (b + 1 \in 1 .. b)
        BY <2>6
      <4> HIDE DEF sized
      <4> QED
        BY <2>9, <3>1, <3>2, <4>1
    <3>5. IsBlock(source, report, k, b)
      <4>1. k + b <= Len(report) /\ (b = BSIZ \/ k + b = Len(report))
        BY <1>0, <2>4, <2>6
      <4>2. \A j \in 1 .. b : source[j] = report[k + j]
        BY <2>4, <2>6, <3>3
      <4> QED
        BY <3>3, <4>1, <4>2, Zenon DEF IsBlock
    <3>6. PICK i \in 1 .. Len(source) : Unpaired(source, i)
      BY <3>2, <3>3, FailsAt
    <3>7. \/ ~ WellFormed(report)
          \/ PairSplit(report)
          \/ i = b + 1 /\ (IsHigh(source[i]) \/ IsLow(source[i]))
      <4> HIDE DEF sized
      <4> QED
        BY <1>0, <2>6, <2>7, <3>3, <3>5, <3>6, BlockExplained
    <3> QED
      BY <3>4, <3>6, <3>7
  <2>14. \E j \in 0 .. Len(report') : ReadTo(j)'
    <3> HIDE DEF m
    <3> QED
      BY <2>1, <2>12
  <2> QED
    BY <1>0, <2>1, <2>11, <2>12, <2>13, <2>14, Zenon DEF UtfInv
<1> QED
  BY <1>1, <1>2, <1>3 DEF UtfNext

LEMMA UtfStart == UtfInit => UtfInv
<1> SUFFICES ASSUME UtfInit PROVE UtfInv
  OBVIOUS
<1>1. report \in Seq(UtfUnits) /\ Len(report) \in Nat
  <2>1. PICK n \in 0 .. MaxUnits : report \in [1 .. n -> Units]
    BY DEF UtfInit
  <2>2. n \in Nat /\ Units \subseteq UtfUnits
    BY MaxUnitsAssumption, UnitsAreNumbers
  <2> QED
    BY <2>1, <2>2
<1>2. rest = report /\ written = << >> /\ buffer = << >> /\ status = "reading"
  BY DEF UtfInit
<1>3. ReadTo(0)
  <2>1. rest = SubSeq(report, 0 + 1, Len(report)) /\ SubSeq(report, 1, 0) = << >>
    BY <1>1, <1>2
  <2>2. AtBlock(0)
    <3>1. 0 = 0 * BSIZ
      BY BSIZAssumption
    <3> QED
      BY <3>1 DEF AtBlock
  <2>3. status # "failed"
    BY <1>2
  <2> QED
    BY <1>2, <2>1, <2>2, <2>3, NothingReads, Zenon DEF ReadTo
<1>4. 0 \in 0 .. Len(report) /\ << >> \in Seq(Int) /\ << >> \in Seq(UtfUnits)
  BY <1>1
<1>5. FailureExplained
  BY <1>2 DEF FailureExplained
<1> QED
  BY <1>1, <1>2, <1>3, <1>4, <1>5, Zenon DEF UtfInv

\* The converted bytes, read as UTF-8, are the units of the report as far as it was read.
LEMMA ReadBack == UtfInv => ConvertedAsRead
<1> SUFFICES ASSUME UtfInv PROVE ConvertedAsRead
  OBVIOUS
<1>1. /\ BSIZ \in Nat \ {0} /\ Len(report) \in Nat /\ report \in Seq(UtfUnits) /\ written \in Seq(Int)
  BY BSIZAssumption DEF UtfInv
<1>2. PICK k \in 0 .. Len(report) : ReadTo(k)
  BY DEF UtfInv
<1>3. Len(report) - Len(rest) = k
  <2>1. rest = SubSeq(report, k + 1, Len(report))
    BY <1>2 DEF ReadTo
  <2> QED
    BY <1>1, <2>1
<1>4. \A j \in 0 .. Len(report) : SubSeq(report, 1, j) \in Seq(Int)
  BY <1>1, UnitsAreInts
<1>5. CASE status # "failed"
  <2>1. Utf16(written) = SubSeq(report, 1, k)
    BY <1>1, <1>2, <1>4, <1>5, ReadsWhole DEF ReadTo
  <2> QED
    BY <1>3, <1>5, <2>1, Zenon DEF ConvertedAsRead
<1>6. CASE status = "failed"
  <2>1. PICK j \in 0 .. Len(report) : AtBlock(j) /\ j < k /\ k <= j + BSIZ /\ Reads(written, SubSeq(report, 1, j))
    BY <1>2, <1>6 DEF ReadTo
  <2>2. Utf16(written) = SubSeq(report, 1, j)
    BY <1>1, <1>4, <2>1, ReadsWhole
  <2>3. ((k - 1) \div BSIZ) * BSIZ = j
    <3>1. PICK c \in Nat : j = c * BSIZ
      BY <2>1 DEF AtBlock
    <3> DEFINE r == (k - 1) - j
    <3>2. r \in Nat /\ r < BSIZ /\ k - 1 = j + r
      BY <1>1, <2>1
    <3>3. \A d \in Nat \ {0} : \A x, y \in Nat : y < d => (x * d + y) \div d = x
      BY SMT
    <3> HIDE DEF r
    <3>4. (c * BSIZ + r) \div BSIZ = c
      BY <1>1, <3>2, <3>3, Zenon
    <3> QED
      BY <3>1, <3>2, <3>4, Zenon
  <2> QED
    BY <1>3, <1>6, <2>2, <2>3, Zenon DEF ConvertedAsRead
<1> QED
  BY <1>5, <1>6

\* ConvertedAsRead, for reports of any length and blocks of any size: the converted file, read
\* as UTF-8, is the report as far as it was read, up to a block that failed.
THEOREM BlocksReadBack == UtfSpec => []ConvertedAsRead
<1>1. UtfInv => ConvertedAsRead
  BY ReadBack
<1> QED
  BY <1>1, UtfStart, UtfStep, PTL DEF UtfSpec

\* FailureExplained: a conversion fails only for a report that is not well formed, for a pair
\* that lies across two blocks, or for a surrogate in memory past a block.
THEOREM FailureHasReason == UtfSpec => []FailureExplained
<1>1. UtfInv => FailureExplained
  BY DEF UtfInv
<1> QED
  BY <1>1, UtfStart, UtfStep, PTL DEF UtfSpec
=============================================================================
