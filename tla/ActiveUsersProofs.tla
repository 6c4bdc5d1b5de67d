-------------------------- MODULE ActiveUsersProofs --------------------------
(***************************************************************************)
(* The callback of RequestActiveUsers is told the key that was published,   *)
(* whatever the threads do to each other.  The invariant follows the text  *)
(* of the key: from the table of the server to the answers under way, to   *)
(* the one the run loop is at, to what the callbacks were told; and what   *)
(* is encoded on the way is decoded to what it was.                        *)
(***************************************************************************)
EXTENDS ActiveUsers, SequenceTheorems, TLAPS

-----------------------------------------------------------------------------
(* Base64.                                                                   *)

\* The characters of a text that are not padding: four for each group of three bytes,
\* and one more than the bytes of the last group.
Chars(n) == 4 * (n \div 3) + (IF n % 3 = 0 THEN 0 ELSE (n % 3) + 1)

\* A number is its quotient and its remainder: how positions fall into groups.
LEMMA Split3 ==
  ASSUME NEW n \in Nat
  PROVE  /\ n \div 3 \in Nat /\ n % 3 \in 0 .. 2
         /\ n = 3 * (n \div 3) + (n % 3)
  OBVIOUS

\* And by 4.
LEMMA Split4 ==
  ASSUME NEW n \in Nat
  PROVE  /\ n \div 4 \in Nat /\ n % 4 \in 0 .. 3
         /\ n = 4 * (n \div 4) + (n % 4)
  OBVIOUS

\* A character of the text stands for a byte of the data, or for the end of one,
\* exactly if it is one of the first Chars of them.
LEMMA CharOrPad ==
  ASSUME NEW n \in Nat, NEW g \in Nat, NEW j \in 0 .. 3
  PROVE  /\ 3 * g + j <= n /\ g < (n + 2) \div 3 <=> 4 * g + j + 1 <= Chars(n)
  BY Split3 DEF Chars

\* So many characters fit the groups, and hold the bytes.
LEMMA CharsBound ==
  ASSUME NEW n \in Nat
  PROVE  /\ Chars(n) \in Nat
         /\ Chars(n) <= 4 * ((n + 2) \div 3)
         /\ 4 * ((n + 2) \div 3) \in Nat
         /\ 3 * (Chars(n) \div 4) + (IF Chars(n) % 4 = 0 THEN 0 ELSE (Chars(n) % 4) - 1) = n
<1>1. n \div 3 \in Nat /\ n % 3 \in 0 .. 2 /\ n = 3 * (n \div 3) + (n % 3)
  BY Split3
<1>2. CASE n % 3 = 0
  BY <1>1, <1>2 DEF Chars
<1>3. CASE n % 3 = 1
  BY <1>1, <1>3 DEF Chars
<1>4. CASE n % 3 = 2
  BY <1>1, <1>4 DEF Chars
<1>5. QED
  BY <1>1, <1>2, <1>3, <1>4

\* The arithmetic of a group: its characters have six bits, its bytes come back.
LEMMA Group ==
  ASSUME NEW x \in Byte, NEW y \in Byte, NEW z \in Byte
  PROVE  /\ x \div 4 \in Sextet
         /\ (x % 4) * 16 + y \div 16 \in Sextet
         /\ (y % 16) * 4 + z \div 64 \in Sextet
         /\ z % 64 \in Sextet
         /\ ((x \div 4) * 4 + ((((x % 4) * 16 + y \div 16) \div 16) % 4)) % 256 = x
         /\ (((x % 4) * 16 + y \div 16) % 16) * 16 + ((((y % 16) * 4 + z \div 64) \div 4) % 16) = y
         /\ ((((y % 16) * 4 + z \div 64) % 4) * 64 + (z % 64)) % 256 = z
<1>1. x \div 4 \in Sextet /\ (x % 4) * 16 + y \div 16 \in Sextet
  BY DEF Byte, Sextet
<1>2. (y % 16) * 4 + z \div 64 \in Sextet /\ z % 64 \in Sextet
  BY DEF Byte, Sextet
<1>3. ((x \div 4) * 4 + ((((x % 4) * 16 + y \div 16) \div 16) % 4)) % 256 = x
  BY SMTT(60) DEF Byte
<1>4. (((x % 4) * 16 + y \div 16) % 16) * 16 + ((((y % 16) * 4 + z \div 64) \div 4) % 16) = y
  BY SMTT(60) DEF Byte
<1>5. ((((y % 16) * 4 + z \div 64) % 4) * 64 + (z % 64)) % 256 = z
  BY SMTT(60) DEF Byte
<1>6. QED
  BY <1>1, <1>2, <1>3, <1>4, <1>5

\* A byte comes back from the characters it was put in.
LEMMA DecodedByte ==
  ASSUME NEW chars, NEW g, NEW x \in Byte, NEW y \in Byte, NEW z \in Byte
  PROVE  LET s(i) == At(chars, 4 * g + i, NoMatch) IN
         /\ s(1) = x \div 4 /\ s(2) = (x % 4) * 16 + y \div 16 => ByteAt(chars, g, 0) = x
         /\ s(2) = (x % 4) * 16 + y \div 16 /\ s(3) = (y % 16) * 4 + z \div 64
              => ByteAt(chars, g, 1) = y
         /\ s(3) = (y % 16) * 4 + z \div 64 /\ s(4) = z % 64 => ByteAt(chars, g, 2) = z
<1> DEFINE s(i) == At(chars, 4 * g + i, NoMatch)
<1>1. /\ ByteAt(chars, g, 0) = (s(1) * 4 + ((s(2) \div 16) % 4)) % 256
      /\ ByteAt(chars, g, 1) = (s(2) % 16) * 16 + ((s(3) \div 4) % 16)
      /\ ByteAt(chars, g, 2) = ((s(3) % 4) * 64 + s(4)) % 256
  BY DEF ByteAt
<1> HIDE DEF s
<1>2. s(1) = x \div 4 /\ s(2) = (x % 4) * 16 + y \div 16 => ByteAt(chars, g, 0) = x
  BY <1>1, Group
<1>3. s(2) = (x % 4) * 16 + y \div 16 /\ s(3) = (y % 16) * 4 + z \div 64 => ByteAt(chars, g, 1) = y
  BY <1>1, Group
<1>4. s(3) = (y % 16) * 4 + z \div 64 /\ s(4) = z % 64 => ByteAt(chars, g, 2) = z
  BY <1>1, Group
<1>5. QED
  BY <1>2, <1>3, <1>4 DEF s

\* A byte past the end counts as 0.
LEMMA AtByte ==
  ASSUME NEW data \in Seq(Byte), NEW k \in Nat \ {0}
  PROVE  At(data, k, 0) \in Byte
<1>1. CASE k <= Len(data)
  <2>1. k \in 1 .. Len(data)
    BY <1>1
  <2>2. data[k] \in Byte
    BY <2>1
  <2>3. QED
    BY <1>1, <2>2 DEF At
<1>2. CASE ~(k <= Len(data))
  BY <1>2 DEF At, Byte
<1>3. QED
  BY <1>1, <1>2

\* Every character is one of the 64.
LEMMA CharIsSextet ==
  ASSUME NEW data \in Seq(Byte), NEW g \in Nat, NEW j \in 0 .. 3
  PROVE  Char(data, g, j) \in Sextet
<1>1. \A i \in 1 .. 3 : At(data, 3 * g + i, 0) \in Byte
  BY AtByte
<1>2. QED
  BY <1>1, Group DEF Char

\* What Encode gives, character by character.
LEMMA EncodeChars ==
  ASSUME NEW data \in Seq(Byte)
  PROVE  /\ Encode(data) \in Seq(0 .. Pad)
         /\ Len(Encode(data)) = 4 * ((Len(data) + 2) \div 3)
         /\ \A k \in 1 .. Len(Encode(data)) :
              Encode(data)[k] = IF k <= Chars(Len(data))
                                  THEN Char(data, (k - 1) \div 4, (k - 1) % 4) ELSE Pad
<1> DEFINE n == Len(data)
<1>0. n \in Nat
  OBVIOUS
<1>1. n \in Nat /\ 4 * ((n + 2) \div 3) \in Nat
  <2> HIDE DEF n
  <2>1. QED
    BY <1>0
<1>2. ASSUME NEW k \in 1 .. 4 * ((n + 2) \div 3)
      PROVE  /\ (k - 1) \div 4 \in Nat /\ (k - 1) % 4 \in 0 .. 3
             /\ 3 * ((k - 1) \div 4) + ((k - 1) % 4) <= n <=> k <= Chars(n)
             /\ Char(data, (k - 1) \div 4, (k - 1) % 4) \in Sextet
  <2>1. k - 1 \in Nat /\ (k - 1) \div 4 \in Nat /\ (k - 1) % 4 \in 0 .. 3
        /\ k - 1 = 4 * ((k - 1) \div 4) + ((k - 1) % 4)
    BY Split4, <1>1
  <2>2. (k - 1) \div 4 < (n + 2) \div 3
    BY <2>1, <1>1
  <2>3. 4 * ((k - 1) \div 4) + ((k - 1) % 4) + 1 = k
    BY <2>1
  <2>4. QED
    BY <2>1, <2>2, <2>3, <1>1, CharOrPad, CharIsSextet
<1>3. Encode(data) = [k \in 1 .. 4 * ((n + 2) \div 3) |->
                        IF k <= Chars(n) THEN Char(data, (k - 1) \div 4, (k - 1) % 4) ELSE Pad]
  BY <1>2 DEF Encode
<1>4. \A k \in 1 .. 4 * ((n + 2) \div 3) :
        (IF k <= Chars(n) THEN Char(data, (k - 1) \div 4, (k - 1) % 4) ELSE Pad) \in 0 .. Pad
  BY <1>2 DEF Sextet, Pad
<1> HIDE DEF n
<1>5. QED
  BY <1>1, <1>3, <1>4 DEF n

\* Decode reads all that is not padding.
LEMMA ReadsAll ==
  ASSUME NEW data \in Seq(Byte)
  PROVE  Readable(Encode(data)) = Chars(Len(data))
<1> DEFINE text == Encode(data)
           c == Chars(Len(data))
           P(m) == /\ \A k \in 1 .. m : text[k] \in Sextet
                   /\ m = Len(text) \/ text[m + 1] \notin Sextet
<1>1. c \in 0 .. Len(text) /\ Len(data) \in Nat /\ Len(text) \in Nat
  <2>1. Len(data) \in Nat /\ text \in Seq(0 .. Pad) /\ Len(text) = 4 * ((Len(data) + 2) \div 3)
    BY EncodeChars
  <2>2. Len(text) \in Nat
    BY <2>1
  <2>3. c \in Nat /\ c <= 4 * ((Len(data) + 2) \div 3)
    BY <2>1, CharsBound
  <2>4. QED
    BY <2>1, <2>2, <2>3
<1>2. \A k \in 1 .. Len(text) : text[k] \in Sextet <=> k <= c
  <2>1. ASSUME NEW k \in 1 .. Len(text) PROVE Char(data, (k - 1) \div 4, (k - 1) % 4) \in Sextet
    <3>1. k - 1 \in Nat
      BY <1>1
    <3>2. QED
      BY <3>1, Split4, CharIsSextet
  <2>2. Pad \notin Sextet
    BY DEF Pad, Sextet
  <2>3. QED
    BY <2>1, <2>2, EncodeChars
<1> HIDE DEF text, c
<1>3. P(c)
  BY <1>1, <1>2
<1>4. \A m \in 0 .. Len(text) : P(m) => m = c
  BY <1>1, <1>2
<1>5. QED
  BY <1>1, <1>3, <1>4 DEF Readable, text, c

\* Decoding is the inverse of encoding: the key that a user publishes is the key that
\* the others are told (Base64::Encode and Base64::Decode).
THEOREM RoundTrip ==
  ASSUME NEW data \in Seq(Byte)
  PROVE  Decode(Encode(data)) = data
<1> DEFINE n == Len(data)
           text == Encode(data)
           c == Chars(n)
           chars == SubSeq(text, 1, c)
<1>1. n \in Nat /\ c \in Nat /\ c <= Len(text) /\ text \in Seq(0 .. Pad) /\ Len(text) \in Nat
  <2>1. n \in Nat /\ text \in Seq(0 .. Pad) /\ Len(text) = 4 * ((n + 2) \div 3)
    BY EncodeChars
  <2>2. Len(text) \in Nat
    BY <2>1
  <2>3. c \in Nat /\ c <= 4 * ((n + 2) \div 3)
    BY <2>1, CharsBound
  <2>4. QED
    BY <2>1, <2>2, <2>3
<1>2. /\ chars \in Seq(0 .. Pad) /\ Len(chars) = c
      /\ \A k \in 1 .. c : chars[k] = Char(data, (k - 1) \div 4, (k - 1) % 4)
  <2>1. \A k \in 1 .. Len(text) :
          text[k] = IF k <= c THEN Char(data, (k - 1) \div 4, (k - 1) % 4) ELSE Pad
    BY EncodeChars
  <2> HIDE DEF text, c
  <2>2. chars \in Seq(0 .. Pad) /\ Len(chars) = c /\ \A k \in 1 .. c : chars[k] = text[k]
    <3>1. ASSUME NEW k \in 1 .. c PROVE text[k] \in 0 .. Pad
      <4>1. k \in 1 .. Len(text)
        BY <1>1
      <4>2. QED
        BY <4>1, <1>1, ElementOfSeq
    <3>2. /\ chars \in Seq(0 .. Pad)
          /\ Len(chars) = IF 1 <= c THEN c - 1 + 1 ELSE 0
          /\ \A k \in 1 .. c - 1 + 1 : chars[k] = text[1 + k - 1]
      BY <1>1, <3>1, SubSeqProperties
    <3>3. QED
      BY <1>1, <3>2
  <2>3. QED
    BY <1>1, <2>1, <2>2
<1>3. 3 * (c \div 4) + (IF c % 4 = 0 THEN 0 ELSE (c % 4) - 1) = n
  BY <1>1, CharsBound
<1>4. ASSUME NEW k \in 1 .. n
      PROVE  ByteAt(chars, (k - 1) \div 3, (k - 1) % 3) = data[k]
  <2> DEFINE g == (k - 1) \div 3
             j == (k - 1) % 3
             b(i) == At(data, 3 * g + i, 0)
             s(i) == At(chars, 4 * g + i, NoMatch)
  <2>1. g \in Nat /\ j \in 0 .. 2 /\ k = 3 * g + j + 1 /\ k <= n
    BY Split3, <1>1
  <2>2. data[k] = b(j + 1) /\ \A i \in 1 .. 3 : b(i) \in Byte
    BY <2>1, <1>1, AtByte DEF At
  <2>3. ASSUME NEW i \in 1 .. 4, i <= j + 2
        PROVE  s(i) = Char(data, g, i - 1)
    <3>1. 4 * g + i \in 1 .. c
      <4>1. i - 1 \in 0 .. 3 /\ 3 * g + (i - 1) <= n /\ g < (n + 2) \div 3
        BY <2>1, <2>3, <1>1
      <4>2. 4 * g + (i - 1) + 1 <= c
        BY <4>1, <2>1, <1>1, CharOrPad
      <4>3. QED
        BY <4>2, <2>1, <1>1
    <3>2. (4 * g + i - 1) \div 4 = g /\ (4 * g + i - 1) % 4 = i - 1
      BY <2>1
    <3>3. s(i) = chars[4 * g + i] /\ chars[4 * g + i] =
             Char(data, (4 * g + i - 1) \div 4, (4 * g + i - 1) % 4)
      <4>1. 4 * g + i <= Len(chars)
        BY <3>1, <1>2
      <4>2. s(i) = chars[4 * g + i]
        BY <4>1 DEF At
      <4> HIDE DEF g, c, chars, s
      <4>3. QED
        BY <3>1, <1>2, <4>2, <2>1
    <3>4. QED
      BY <3>2, <3>3
  <2> HIDE DEF g, j, b, s, c, chars, n, text
  <2>4. /\ Char(data, g, 0) = b(1) \div 4
        /\ Char(data, g, 1) = (b(1) % 4) * 16 + b(2) \div 16
        /\ Char(data, g, 2) = (b(2) % 16) * 4 + b(3) \div 64
        /\ Char(data, g, 3) = b(3) % 64
    BY DEF Char, b
  <2>5. b(1) \in Byte /\ b(2) \in Byte /\ b(3) \in Byte
    BY <2>2
  <2>6. /\ s(1) = b(1) \div 4 /\ s(2) = (b(1) % 4) * 16 + b(2) \div 16
             => ByteAt(chars, g, 0) = b(1)
        /\ s(2) = (b(1) % 4) * 16 + b(2) \div 16 /\ s(3) = (b(2) % 16) * 4 + b(3) \div 64
             => ByteAt(chars, g, 1) = b(2)
        /\ s(3) = (b(2) % 16) * 4 + b(3) \div 64 /\ s(4) = b(3) % 64
             => ByteAt(chars, g, 2) = b(3)
    BY <2>5, DecodedByte, ZenonT(60) DEF s
  <2>7. ByteAt(chars, g, j) = b(j + 1)
    <3>1. CASE j = 0
      <4>1. s(1) = Char(data, g, 0) /\ s(2) = Char(data, g, 1)
        BY <3>1, <2>3
      <4>2. ByteAt(chars, g, 0) = b(1)
        BY <4>1, <2>4, <2>6
      <4>3. QED
        BY <3>1, <4>2
    <3>2. CASE j = 1
      <4>1. s(2) = Char(data, g, 1) /\ s(3) = Char(data, g, 2)
        BY <3>2, <2>3
      <4>2. ByteAt(chars, g, 1) = b(2)
        BY <4>1, <2>4, <2>6
      <4>3. QED
        BY <3>2, <4>2
    <3>3. CASE j = 2
      <4>1. s(3) = Char(data, g, 2) /\ s(4) = Char(data, g, 3)
        BY <3>3, <2>3
      <4>2. ByteAt(chars, g, 2) = b(3)
        BY <4>1, <2>4, <2>6
      <4>3. QED
        BY <3>3, <4>2
    <3>4. QED
      BY <2>1, <3>1, <3>2, <3>3
  <2>8. QED
    BY <2>2, <2>7 DEF g, j
<1>5. Decode(text) = [k \in 1 .. n |-> ByteAt(chars, (k - 1) \div 3, (k - 1) % 3)]
  <2>1. Readable(text) = c
    BY ReadsAll
  <2> HIDE DEF c, n, text
  <2>2. QED
    BY <2>1, <1>2, <1>3 DEF Decode
<1>6. [k \in 1 .. n |-> ByteAt(chars, (k - 1) \div 3, (k - 1) % 3)] = [k \in 1 .. n |-> data[k]]
  BY <1>4
<1>7. QED
  BY <1>5, <1>6

-----------------------------------------------------------------------------
(* The way of the key.                                                       *)

\* What the server keeps, and sends, of a user whose keys h there were.
Kept(h, e, at) ==
  /\ at \in 0 .. Len(h)
  /\ e = IF at = 0 THEN Absent ELSE [known |-> TRUE, text |-> Encode(h[at])]

\* What a callback is told of it.
Told(h, users, at) ==
  /\ at \in 0 .. Len(h)
  /\ users = IF at = 0 THEN Absent
             ELSE IF h[at] = <<>> THEN NoKey
             ELSE [encryptionAlgo |-> "RSA_1024", encryptionPubKey |-> h[at]]

\* An item is at hand where one is used.
ItemsAtHand ==
  /\ \A t \in Threads : call[t].pc = "append" => call[t].item # Null
  /\ walk.pc = "fire" => walk.item # Null

KeysTravel ==
  /\ Kept(profiles, entry, Len(profiles))
  /\ \A i \in 1 .. Len(toClient) : Kept(profiles, toClient[i].entry, toClient[i].at)
  /\ Kept(profiles, walk.stanza.entry, walk.stanza.at)
  /\ \A r \in Requests : \A i \in 1 .. Len(answers[r]) : Told(profiles, answers[r][i].users, answers[r][i].at)

IInv == TypeOK /\ ItemsAtHand /\ KeysTravel

-----------------------------------------------------------------------------
\* The text is empty exactly for the empty key.
LEMMA EmptyText ==
  ASSUME NEW key \in Seq(Byte)
  PROVE  Encode(key) \in Seq(0 .. Pad) /\ (Encode(key) = <<>> <=> key = <<>>)
<1> DEFINE n == Len(key)
<1>1. n \in Nat /\ Encode(key) \in Seq(0 .. Pad) /\ Len(Encode(key)) = 4 * ((n + 2) \div 3)
  BY EncodeChars
<1>2. n = 0 <=> 4 * ((n + 2) \div 3) = 0
  <2> HIDE DEF n
  <2>1. QED
    BY <1>1
<1>3. Encode(key) = <<>> <=> Len(Encode(key)) = 0
  BY <1>1, EmptySeq
<1>4. key = <<>> <=> n = 0
  BY EmptySeq
<1>5. QED
  BY <1>1, <1>2, <1>3, <1>4

\* What is parsed of an entry that was kept is what may be told.
LEMMA ParsedIsTold ==
  ASSUME NEW h \in Seq(Seq(Byte)), NEW e, NEW at, Kept(h, e, at)
  PROVE  Told(h, Parsed(e), at) /\ Parsed(e) \in Policies \cup {Absent}
<1>1. CASE at = 0
  BY <1>1 DEF Kept, Told, Parsed, Absent
<1>2. CASE at # 0
  <2> DEFINE key == h[at]
  <2>1. at \in 1 .. Len(h) /\ key \in Seq(Byte)
    BY <1>2 DEF Kept
  <2>2. e = [known |-> TRUE, text |-> Encode(key)]
    BY <1>2 DEF Kept
  <2>3. e.known /\ e.text = Encode(key)
    BY <2>2
  <2>4. Encode(key) = <<>> <=> key = <<>>
    BY <2>1, EmptyText
  <2>5. Decode(Encode(key)) = key
    BY <2>1, RoundTrip
  <2> HIDE DEF key
  <2>6. Parsed(e) = IF key = <<>> THEN NoKey
                    ELSE [encryptionAlgo |-> "RSA_1024", encryptionPubKey |-> key]
    BY <2>3, <2>4, <2>5 DEF Parsed
  <2>7. Parsed(e) \in Policies
    BY <2>1, <2>6 DEF Policies
  <2>8. QED
    BY <1>2, <2>1, <2>6, <2>7 DEF Told, key
<1>3. QED
  BY <1>1, <1>2

\* What has been kept and told stays so when the entry changes again.
LEMMA History ==
  ASSUME NEW h \in Seq(Seq(Byte)), NEW key \in Seq(Byte), NEW e, NEW at
  PROVE  /\ Append(h, key) \in Seq(Seq(Byte)) /\ Len(Append(h, key)) = Len(h) + 1
         /\ Append(h, key)[Len(h) + 1] = key
         /\ Kept(h, e, at) => Kept(Append(h, key), e, at)
         /\ Told(h, e, at) => Told(Append(h, key), e, at)
<1>1. /\ Append(h, key) \in Seq(Seq(Byte)) /\ Len(Append(h, key)) = Len(h) + 1
      /\ Append(h, key)[Len(h) + 1] = key /\ Len(h) \in Nat
      /\ \A i \in 1 .. Len(h) : Append(h, key)[i] = h[i]
  BY AppendProperties
<1>2. QED
  BY <1>1 DEF Kept, Told

\* So everything that is remembered of the entry stays right.
LEMMA KeysTravelOn ==
  ASSUME TypeOK, KeysTravel, NEW key \in Seq(Byte), profiles' = Append(profiles, key),
         entry' = [known |-> TRUE, text |-> Encode(key)],
         UNCHANGED <<toClient, walk, answers>>
  PROVE  KeysTravel'
<1>1. profiles \in Seq(Seq(Byte)) /\ Len(profiles) \in Nat
  BY DEF TypeOK
<1>2. Kept(profiles', entry', Len(profiles'))
  <2>1. Len(profiles') = Len(profiles) + 1 /\ profiles'[Len(profiles) + 1] = key
    BY <1>1, History
  <2>2. QED
    BY <1>1, <2>1 DEF Kept
<1>3. \A i \in 1 .. Len(toClient) : Kept(profiles', toClient[i].entry, toClient[i].at)
  BY <1>1, History DEF KeysTravel
<1>4. Kept(profiles', walk.stanza.entry, walk.stanza.at)
  BY <1>1, History DEF KeysTravel
<1>5. \A r \in Requests : \A i \in 1 .. Len(answers[r]) :
        Told(profiles', answers[r][i].users, answers[r][i].at)
  BY <1>1, History DEF KeysTravel
<1>6. QED
  BY <1>2, <1>3, <1>4, <1>5 DEF KeysTravel

\* The operations of the hash table keep to pointers.
LEMMA HashTypes ==
  ASSUME TypeOK, NEW item \in Pointers
  PROVE  /\ HashGet \in Pointers
         /\ HashDrop \in Seq(Pointers)
         /\ HashAdd(item) \in Seq(Pointers)
<1>1. values \in Seq(Pointers) /\ Null \in Pointers
  BY DEF TypeOK, Pointers
<1>2. HashGet \in Pointers
  BY <1>1 DEF HashGet
<1>3. HashDrop \in Seq(Pointers)
  BY <1>1 DEF HashDrop
<1>4. <<item>> \o HashDrop \in Seq(Pointers)
  BY <1>1, <1>3
<1>5. QED
  BY <1>2, <1>3, <1>4 DEF HashAdd

\* A thread goes on in RequestActiveUsers, with the item it was at or another one.
LEMMA CallTypes ==
  ASSUME TypeOK, NEW t \in Threads, NEW pc \in {"idle", "compare", "link", "append", "send"},
         NEW item \in Pointers
  PROVE  /\ [call EXCEPT ![t].pc = pc] \in [Threads -> Calls]
         /\ [call EXCEPT ![t].item = item] \in [Threads -> Calls]
         /\ [call EXCEPT ![t].pc = pc, ![t].item = item] \in [Threads -> Calls]
<1>1. call \in [Threads -> Calls] /\ call[t] \in Calls
  BY DEF TypeOK
<1>2. [call[t] EXCEPT !.pc = pc] \in Calls
  BY <1>1 DEF Calls
<1>3. [call[t] EXCEPT !.item = item] \in Calls
  BY <1>1 DEF Calls
<1>4. [[call[t] EXCEPT !.pc = pc] EXCEPT !.item = item] \in Calls
  BY <1>1 DEF Calls
<1>5. [call EXCEPT ![t].pc = pc] \in [Threads -> Calls]
  BY <1>1, <1>2
<1>6. [call EXCEPT ![t].item = item] \in [Threads -> Calls]
  BY <1>1, <1>3
<1>7. [call EXCEPT ![t].pc = pc, ![t].item = item] \in [Threads -> Calls]
  BY <1>1, <1>4
<1>8. QED
  BY <1>5, <1>6, <1>7

-----------------------------------------------------------------------------
\* Before the first login nothing is registered.
LEMMA InitInv == Init => IInv
<1> SUFFICES ASSUME Init PROVE IInv
  OBVIOUS
<1> USE ActiveUsersAssumption DEF Init
<1>1. entry \in Entries /\ profiles \in Seq(Seq(Byte))
  BY DEF Absent, Entries
<1>2. toServer \in Nat /\ toClient \in Seq(Answers) /\ connected \in BOOLEAN
  OBVIOUS
<1>3. asked \in Seq(Nat)
  OBVIOUS
<1>14. crashed \in BOOLEAN
  OBVIOUS
<1>13. contended \in SUBSET Requests /\ freed \in SUBSET Requests
  OBVIOUS
<1>4. answers \in [Requests -> Seq([users : Policies \cup {Absent}, at : Nat])]
  OBVIOUS
<1>5. values \in Seq(Pointers) /\ next \in [Requests -> Pointers]
  BY DEF Pointers
<1>6. call \in [Threads -> Calls]
  BY DEF Idle, Calls, Pointers
<1>7. Rest.stanza \in Answers
  BY DEF Rest, Answers, Entries, Absent
<1>8. walk \in Walks
  BY <1>7 DEF Rest, Walks, Pointers
<1>9. TypeOK
  BY <1>1, <1>2, <1>3, <1>4, <1>5, <1>6, <1>8, <1>13, <1>14 DEF TypeOK
<1>10. ItemsAtHand
  BY DEF ItemsAtHand, Idle, Rest, Threads
<1>11. KeysTravel
  <2>1. Kept(profiles, Absent, 0)
    BY DEF Kept
  <2>2. QED
    BY <2>1 DEF KeysTravel, Rest
<1>12. QED
  BY <1>9, <1>10, <1>11 DEF IInv

\* Every step keeps the types.
LEMMA TypeStep == IInv /\ [Next]_vars => TypeOK'
<1> SUFFICES ASSUME IInv, [Next]_vars PROVE TypeOK'
  OBVIOUS
<1> USE ActiveUsersAssumption
<1>0. TypeOK /\ ItemsAtHand /\ KeysTravel
  BY DEF IInv
<1>1. /\ Null \in Pointers /\ HashGet \in Pointers /\ Requests \subseteq Pointers
      /\ HashDrop \in Seq(Pointers) /\ \A p \in Pointers : HashAdd(p) \in Seq(Pointers)
      /\ \A p \in Pointers \ {Null} : p \in Requests
      /\ Rest \in Walks /\ Idle \in Calls
  <2>1. Rest \in Walks /\ Idle \in Calls
    BY DEF Rest, Walks, Idle, Calls, Pointers, Answers, Entries, Absent
  <2>2. QED
    BY <1>0, <2>1, HashTypes DEF Pointers
<1> USE DEF server, wire, list
<1>2. ASSUME NEW t \in Threads, Request(t) PROVE TypeOK'
  <2>1. Len(asked) + 1 \in Requests /\ asked' \in Seq(Nat)
    BY <1>0, <1>2 DEF TypeOK, Request, Requests
  <2>2. call' \in [Threads -> Calls]
    <3> DEFINE new == [pc |-> IF HashGet = Null THEN "link" ELSE "compare",
                       request |-> Len(asked) + 1, item |-> HashGet]
    <3>1. new \in Calls
      BY <1>1, <2>1 DEF Calls
    <3>2. call' = [call EXCEPT ![t] = new]
      BY <1>2 DEF Request
    <3>3. QED
      BY <1>0, <3>1, <3>2 DEF TypeOK
  <2>3. contended' \in SUBSET Requests
    <3>1. Other(t) \in Threads
      BY DEF Other, Threads
    <3>2. call[Other(t)].request \in Pointers
      BY <1>0, <3>1 DEF TypeOK, Calls
    <3>3. contended \in SUBSET Requests
      BY <1>0 DEF TypeOK
    <3>4. contended' = contended \cup (IF HashGet # Null \/ Busy(Other(t)) THEN {Len(asked) + 1} ELSE {})
                                 \cup ({call[Other(t)].request} \ {Null})
      BY <1>2 DEF Request
    <3>5. QED
      BY <1>1, <2>1, <3>2, <3>3, <3>4
  <2>4. QED
    BY <1>0, <1>2, <2>1, <2>2, <2>3 DEF TypeOK, Request
<1>3. ASSUME NEW t \in Threads, Compare(t) PROVE TypeOK'
  <2>1. call' \in [Threads -> Calls]
    BY <1>0, <1>3 DEF TypeOK, Compare, Calls
  <2>2. crashed' \in BOOLEAN
    BY <1>0, <1>3 DEF TypeOK, Compare
  <2>3. QED
    BY <1>0, <1>3, <2>1, <2>2 DEF TypeOK, Compare
<1>4. ASSUME NEW t \in Threads, Link(t) PROVE TypeOK'
  <2>1. call[t].request \in Pointers
    BY <1>0 DEF TypeOK, Calls
  <2>2. call' \in [Threads -> Calls]
    <3>1. \/ call' = [call EXCEPT ![t].pc = "send"]
          \/ call' = [call EXCEPT ![t].pc = "append", ![t].item = HashGet]
      BY <1>4 DEF Link
    <3>2. /\ [call EXCEPT ![t].pc = "send"] \in [Threads -> Calls]
          /\ [call EXCEPT ![t].pc = "append", ![t].item = HashGet] \in [Threads -> Calls]
      BY <1>0, <1>1, CallTypes
    <3>3. QED
      BY <3>1, <3>2
  <2>3. values' \in Seq(Pointers)
    BY <1>0, <1>1, <1>4, <2>1 DEF TypeOK, Link
  <2>4. QED
    BY <1>0, <1>4, <2>2, <2>3 DEF TypeOK, Link
<1>5. ASSUME NEW t \in Threads, AppendItem(t) PROVE TypeOK'
  <2>1. /\ call[t].request \in Pointers /\ call[t].item \in Requests
        /\ next[call[t].item] \in Pointers
    BY <1>0, <1>1, <1>5 DEF TypeOK, Calls, ItemsAtHand, AppendItem
  <2>2. call' \in [Threads -> Calls]
    <3>1. \/ call' = call
          \/ call' = [call EXCEPT ![t].item = next[call[t].item]]
          \/ call' = [call EXCEPT ![t].pc = "send"]
      BY <1>5 DEF AppendItem
    <3>2. call \in [Threads -> Calls] /\ call[t].item \in Pointers
      BY <1>0, <1>1, <2>1 DEF TypeOK
    <3>3. /\ [call EXCEPT ![t].item = next[call[t].item]] \in [Threads -> Calls]
          /\ [call EXCEPT ![t].pc = "send"] \in [Threads -> Calls]
      BY <1>0, <2>1, CallTypes
    <3>4. QED
      BY <3>1, <3>2, <3>3
  <2>3. next' \in [Requests -> Pointers]
    BY <1>0, <1>5, <2>1 DEF TypeOK, AppendItem
  <2>4. crashed' \in BOOLEAN
    BY <1>0, <1>5 DEF TypeOK, AppendItem
  <2>5. QED
    BY <1>0, <1>5, <2>2, <2>3, <2>4 DEF TypeOK, AppendItem
<1>6. ASSUME NEW t \in Threads, Send(t) PROVE TypeOK'
  <2>1. call' \in [Threads -> Calls] /\ toServer' \in Nat
    BY <1>0, <1>1, <1>6 DEF TypeOK, Send
  <2>2. QED
    BY <1>0, <1>6, <2>1 DEF TypeOK, Send
<1>7. CASE Receive
  <2>1. Head(toClient) \in Answers /\ toClient' \in Seq(Answers)
    BY <1>0, <1>7, HeadTailProperties DEF TypeOK, Receive
  <2>2. walk' \in Walks
    BY <1>0, <1>1, <1>7, <2>1 DEF TypeOK, Receive, Walks, Rest
  <2>3. "app" \in Threads /\ call["app"].request \in Pointers
    BY <1>0 DEF TypeOK, Calls, Threads
  <2>4. contended' \in SUBSET Requests
    BY <1>0, <1>1, <1>7, <2>3 DEF TypeOK, Receive
  <2>5. QED
    BY <1>0, <1>7, <2>1, <2>2, <2>4 DEF TypeOK, Receive
<1>8. CASE Fire
  <2>1. walk.item \in Requests /\ next[walk.item] \in Pointers /\ walk.stanza \in Answers
    BY <1>0, <1>1, <1>8 DEF TypeOK, Walks, ItemsAtHand, Fire
  <2>2. walk' \in Walks
    BY <1>0, <1>8, <2>1 DEF TypeOK, Fire, Walks
  <2>3. answers' \in [Requests -> Seq([users : Policies \cup {Absent}, at : Nat])]
    <3> DEFINE told == [users |-> Parsed(walk.stanza.entry), at |-> walk.stanza.at]
    <3>1. Parsed(walk.stanza.entry) \in Policies \cup {Absent}
      BY <1>0, ParsedIsTold DEF TypeOK, KeysTravel
    <3> DEFINE All == [users : Policies \cup {Absent}, at : Nat]
    <3>2. told \in All
      BY <2>1, <3>1 DEF Answers
    <3>3. answers' = answers \/ answers' = [answers EXCEPT ![walk.item] = Append(@, told)]
      BY <1>8 DEF Fire
    <3>4. answers \in [Requests -> Seq(All)]
      BY <1>0 DEF TypeOK
    <3> HIDE DEF told, All
    <3>5. Append(answers[walk.item], told) \in Seq(All)
      BY <2>1, <3>2, <3>4
    <3>6. answers' \in [Requests -> Seq(All)]
      BY <2>1, <3>3, <3>4, <3>5
    <3>7. QED
      BY <3>6 DEF All
  <2>4. crashed' \in BOOLEAN
    BY <1>0, <1>8 DEF TypeOK, Fire
  <2>5. QED
    BY <1>0, <1>8, <2>2, <2>3, <2>4 DEF TypeOK, Fire
<1>9. CASE Return
  BY <1>0, <1>1, <1>9 DEF TypeOK, Return, Walks
<1>10. CASE Drop
  BY <1>0, <1>1, <1>10 DEF TypeOK, Drop, Walks
<1>11. CASE Add
  BY <1>0, <1>1, <1>11 DEF TypeOK, Add, Walks
<1>12. CASE SignUp
  <2>1. entry' \in Entries
    BY <1>0, <1>12 DEF TypeOK, SignUp, Entries
  <2>2. profiles' \in Seq(Seq(Byte))
    <3>1. <<>> \in Seq(Byte)
      OBVIOUS
    <3>2. QED
      BY <1>0, <1>12, <3>1, History DEF TypeOK, SignUp
  <2>3. QED
    BY <1>0, <1>12, <2>1, <2>2 DEF TypeOK, SignUp
<1>13. ASSUME NEW key \in Keys, Publish(key) PROVE TypeOK'
  <2>1. key \in Seq(Byte)
    OBVIOUS
  <2>2. entry' \in Entries
    BY <1>13, <2>1, EmptyText DEF Publish, Entries
  <2>3. profiles' \in Seq(Seq(Byte))
    BY <1>0, <1>13, <2>1, History DEF TypeOK, Publish
  <2>4. QED
    BY <1>0, <1>13, <2>2, <2>3 DEF TypeOK, Publish
<1>14. CASE ListUsers
  <2>1. [entry |-> entry, at |-> Len(profiles)] \in Answers
    BY <1>0 DEF TypeOK, Answers
  <2>2. toClient' \in Seq(Answers) /\ toServer' \in Nat
    BY <1>0, <1>14, <2>1 DEF TypeOK, ListUsers
  <2>3. QED
    BY <1>0, <1>14, <2>2 DEF TypeOK, ListUsers
<1>15. CASE Lose
  <2>1. toServer' \in Nat /\ toClient' \in Seq(Answers)
    BY <1>15 DEF Lose
  <2>2. connected' \in BOOLEAN
    BY <1>15 DEF Lose
  <2>3. QED
    BY <1>0, <1>15, <2>1, <2>2 DEF TypeOK, Lose
<1>16. CASE UNCHANGED vars
  BY <1>0, <1>16 DEF TypeOK, vars
<1>17. QED
  BY <1>2, <1>3, <1>4, <1>5, <1>6, <1>7, <1>8, <1>9, <1>10, <1>11, <1>12, <1>13, <1>14, <1>15, <1>16
  DEF Next, Step, Loop

\* An item that is looked at is there.
LEMMA ItemsStep == IInv /\ [Next]_vars => ItemsAtHand'
<1> SUFFICES ASSUME IInv, [Next]_vars PROVE ItemsAtHand'
  OBVIOUS
<1>0. ItemsAtHand /\ call \in [Threads -> Calls] /\ walk \in Walks
  BY DEF IInv, TypeOK
<1> USE DEF ItemsAtHand
<1>2. ASSUME NEW t \in Threads, Request(t) PROVE ItemsAtHand'
  BY <1>0, <1>2 DEF Request
<1>3. ASSUME NEW t \in Threads, Compare(t) PROVE ItemsAtHand'
  BY <1>0, <1>3 DEF Compare, Calls
<1>4. ASSUME NEW t \in Threads, Link(t) PROVE ItemsAtHand'
  BY <1>0, <1>4 DEF Link, Calls
<1>5. ASSUME NEW t \in Threads, AppendItem(t) PROVE ItemsAtHand'
  BY <1>0, <1>5 DEF AppendItem, Calls
<1>6. ASSUME NEW t \in Threads, Send(t) PROVE ItemsAtHand'
  BY <1>0, <1>6 DEF Send, Idle
<1>7. CASE Receive
  BY <1>0, <1>7 DEF Receive, Rest
<1>8. CASE Fire
  BY <1>0, <1>8 DEF Fire, Walks
<1>9. CASE Return
  BY <1>0, <1>9 DEF Return, Walks
<1>10. CASE Drop
  BY <1>0, <1>10 DEF Drop, Walks
<1>11. CASE Add
  BY <1>0, <1>11 DEF Add, Walks, Rest
<1>12. ASSUME UNCHANGED <<call, walk>> PROVE ItemsAtHand'
  BY <1>0, <1>12
<1>13. QED
  BY <1>2, <1>3, <1>4, <1>5, <1>6, <1>7, <1>8, <1>9, <1>10, <1>11, <1>12
  DEF Next, Step, Loop, SignUp, Publish, ListUsers, Lose, vars

\* The text of the key is handed on, parsed and told.
LEMMA KeysStep == IInv /\ [Next]_vars => KeysTravel'
<1> SUFFICES ASSUME IInv, [Next]_vars PROVE KeysTravel'
  OBVIOUS
<1>0. TypeOK /\ ItemsAtHand /\ KeysTravel
  BY DEF IInv
<1> USE DEF server, wire, list
<1>1. ASSUME UNCHANGED <<entry, profiles, toClient, answers>>,
             walk'.stanza = walk.stanza \/ walk' = Rest
      PROVE  KeysTravel'
  <2>1. profiles \in Seq(Seq(Byte))
    BY <1>0 DEF TypeOK
  <2>2. Kept(profiles, Rest.stanza.entry, Rest.stanza.at)
    BY <2>1 DEF Kept, Rest
  <2>3. Kept(profiles, walk'.stanza.entry, walk'.stanza.at)
    BY <1>0, <1>1, <2>2 DEF KeysTravel
  <2>4. QED
    BY <1>0, <1>1, <2>3 DEF KeysTravel
<1>2. ASSUME NEW t \in Threads, Request(t) \/ Step(t) PROVE KeysTravel'
  BY <1>1, <1>2 DEF Request, Step, Compare, Link, AppendItem, Send
<1>3. CASE Receive
  <2>1. /\ toClient \in Seq(Answers) /\ toClient # <<>> /\ toClient' = Tail(toClient)
        /\ UNCHANGED <<entry, profiles, answers>>
    BY <1>0, <1>3 DEF TypeOK, Receive
  <2>2. walk'.stanza = walk.stanza \/ walk'.stanza = Head(toClient)
    BY <1>3 DEF Receive, Rest
  <2>3. /\ 1 \in 1 .. Len(toClient) /\ Head(toClient) = toClient[1]
        /\ \A i \in 1 .. Len(toClient') :
             i + 1 \in 1 .. Len(toClient) /\ toClient'[i] = toClient[i + 1]
    BY <2>1
  <2>4. Kept(profiles, walk'.stanza.entry, walk'.stanza.at)
    BY <1>0, <2>2, <2>3 DEF KeysTravel
  <2>5. \A i \in 1 .. Len(toClient') : Kept(profiles, toClient'[i].entry, toClient'[i].at)
    BY <1>0, <2>3 DEF KeysTravel
  <2>6. QED
    BY <1>0, <2>1, <2>4, <2>5 DEF KeysTravel
<1>4. CASE Fire
  <2>1. CASE walk.item \in freed
    BY <1>1, <1>4, <2>1 DEF Fire
  <2>2. CASE walk.item \notin freed
    <3> DEFINE r == walk.item
               told == [users |-> Parsed(walk.stanza.entry), at |-> walk.stanza.at]
    <3>1. r \in Requests /\ answers \in [Requests -> Seq([users : Policies \cup {Absent}, at : Nat])]
      BY <1>0, <1>4 DEF TypeOK, Walks, Pointers, ItemsAtHand, Fire
    <3>2. /\ UNCHANGED <<entry, profiles, toClient>> /\ walk'.stanza = walk.stanza
          /\ answers' = [answers EXCEPT ![r] = Append(@, told)]
      BY <1>0, <1>4, <2>2 DEF Fire, TypeOK, Walks
    <3>3. Told(profiles, told.users, told.at)
      BY <1>0, ParsedIsTold DEF TypeOK, KeysTravel
    <3> HIDE DEF told
    <3>4. ASSUME NEW q \in Requests, NEW i \in 1 .. Len(answers'[q])
          PROVE  Told(profiles, answers'[q][i].users, answers'[q][i].at)
      <4>1. CASE q # r
        BY <1>0, <3>1, <3>2, <3>4, <4>1 DEF KeysTravel
      <4>2. CASE q = r
        <5>1. answers'[q] = Append(answers[q], told) /\ Len(answers[q]) \in Nat
          BY <3>1, <3>2, <4>2
        <5>2. answers[q] \in Seq([users : Policies \cup {Absent}, at : Nat])
          BY <3>1
        <5>3. \/ i = Len(answers[q]) + 1 /\ answers'[q][i] = told
              \/ i \in 1 .. Len(answers[q]) /\ answers'[q][i] = answers[q][i]
          <6> DEFINE a == answers[q]
          <6> HIDE DEF a
          <6>1. a \in Seq([users : Policies \cup {Absent}, at : Nat]) /\ answers'[q] = Append(a, told)
            BY <5>1, <5>2 DEF a
          <6>2. Len(Append(a, told)) = Len(a) + 1 /\ Append(a, told)[Len(a) + 1] = told
                /\ \A j \in 1 .. Len(a) : Append(a, told)[j] = a[j]
            BY <6>1, AppendProperties
          <6>3. i \in 1 .. Len(a) + 1 /\ Len(a) \in Nat
            BY <3>4, <6>1, <6>2
          <6>4. i = Len(a) + 1 \/ i \in 1 .. Len(a)
            BY <6>3
          <6>5. QED
            BY <6>1, <6>2, <6>4 DEF a
        <5>4. QED
          BY <1>0, <3>3, <5>3 DEF KeysTravel
      <4>3. QED
        BY <4>1, <4>2
    <3>5. QED
      BY <1>0, <3>2, <3>4 DEF KeysTravel
  <2>3. QED
    BY <2>1, <2>2
<1>5. CASE Return \/ Drop \/ Add
  <2>1. UNCHANGED <<entry, profiles, toClient, answers>>
    BY <1>5 DEF Return, Drop, Add
  <2>2. walk'.stanza = walk.stanza \/ walk' = Rest
    BY <1>0, <1>5 DEF Return, Drop, Add, TypeOK, Walks
  <2>3. QED
    BY <1>1, <2>1, <2>2
<1>6. CASE SignUp
  <2>1. <<>> \in Seq(Byte) /\ Encode(<<>>) = <<>>
    <3> DEFINE key == <<>>
    <3>1. key \in Seq(Byte)
      OBVIOUS
    <3> HIDE DEF key
    <3>2. Encode(key) = <<>> <=> key = <<>>
      BY <3>1, EmptyText
    <3>3. QED
      BY <3>1, <3>2 DEF key
  <2>2. entry = Absent
    BY <1>0, <1>6 DEF KeysTravel, Kept, SignUp
  <2>3. entry' = [known |-> TRUE, text |-> Encode(<<>>)]
    BY <1>6, <2>1, <2>2 DEF SignUp, Absent
  <2>4. profiles' = Append(profiles, <<>>) /\ UNCHANGED <<toClient, walk, answers>>
    BY <1>6 DEF SignUp
  <2>5. QED
    BY <1>0, <2>1, <2>3, <2>4, KeysTravelOn
<1>7. ASSUME NEW key \in Keys, Publish(key) PROVE KeysTravel'
  <2>1. key \in Seq(Byte)
    BY ActiveUsersAssumption
  <2>2. QED
    BY <1>0, <1>7, <2>1, KeysTravelOn DEF Publish
<1>8. CASE ListUsers
  <2> DEFINE new == [entry |-> entry, at |-> Len(profiles)]
  <2>1. UNCHANGED <<entry, profiles, answers, walk>> /\ toClient' = Append(toClient, new)
    BY <1>8 DEF ListUsers
  <2>2. toClient \in Seq(Answers) /\ Kept(profiles, new.entry, new.at)
    BY <1>0 DEF TypeOK, KeysTravel
  <2> HIDE DEF new
  <2>3. /\ Len(toClient') = Len(toClient) + 1 /\ toClient'[Len(toClient) + 1] = new
        /\ \A i \in 1 .. Len(toClient) : toClient'[i] = toClient[i]
        /\ Len(toClient) \in Nat
    BY <2>1, <2>2, AppendProperties
  <2>4. \A i \in 1 .. Len(toClient') : Kept(profiles, toClient'[i].entry, toClient'[i].at)
    <3>1. TAKE i \in 1 .. Len(toClient')
    <3>2. i = Len(toClient) + 1 \/ i \in 1 .. Len(toClient)
      BY <2>3
    <3>3. QED
      BY <1>0, <2>2, <2>3, <3>2 DEF KeysTravel
  <2>5. QED
    BY <1>0, <2>1, <2>4 DEF KeysTravel
<1>9. CASE Lose
  <2>1. UNCHANGED <<entry, profiles, answers, walk>> /\ Len(toClient') = 0
    BY <1>9 DEF Lose
  <2>2. QED
    BY <1>0, <2>1 DEF KeysTravel
<1>10. CASE UNCHANGED vars
  BY <1>1, <1>10 DEF vars
<1>11. QED
  BY <1>2, <1>3, <1>4, <1>5, <1>6, <1>7, <1>8, <1>9, <1>10 DEF Next, Loop

\* In every reachable state the invariant holds.
LEMMA Invariance == Spec => []IInv
<1>1. IInv /\ [Next]_vars => IInv'
  BY TypeStep, ItemsStep, KeysStep DEF IInv
<1>2. QED
  BY InitInv, <1>1, PTL DEF Spec

-----------------------------------------------------------------------------
\* RequestActiveUsers and its answers keep every variable in its type; above all,
\* what a callback is told is always a well-formed security policy.
THEOREM TypeCorrect == Spec => []TypeOK
<1>1. IInv => TypeOK
  BY DEF IInv
<1>2. QED
  BY <1>1, Invariance, PTL

\* The key that a callback is told is, byte by byte, the one the user had published when
\* the server listed it, for keys of any length and whatever the threads interleave.
THEOREM KeyArrivesIntact == Spec => []KeyArrives
<1>1. IInv => KeyArrives
  <2> SUFFICES ASSUME IInv, NEW r \in Requests, NEW i \in DOMAIN answers[r]
               PROVE  LET a == answers[r][i] IN
                        a.users = IF a.at = 0 THEN Absent
                                  ELSE IF profiles[a.at] = <<>> THEN NoKey
                                  ELSE [encryptionAlgo |-> "RSA_1024", encryptionPubKey |-> profiles[a.at]]
    BY DEF KeyArrives
  <2>1. answers[r] \in Seq([users : Policies \cup {Absent}, at : Nat])
    BY DEF IInv, TypeOK
  <2>2. i \in 1 .. Len(answers[r])
    BY <2>1
  <2>3. Told(profiles, answers[r][i].users, answers[r][i].at)
    BY <2>2 DEF IInv, KeysTravel
  <2>4. QED
    BY <2>3 DEF Told
<1>2. QED
  BY <1>1, Invariance, PTL

-----------------------------------------------------------------------------
(* The list of handlers.                                                     *)

\* The request is not made yet, or its item is not in the list yet.
Registering(r) ==
  \/ r > Len(asked)
  \/ \E t \in Threads : call[t].request = r /\ call[t].pc \in {"compare", "link", "append"}

\* Nothing is known of its item.
Unused(r) ==
  /\ answers[r] = <<>> /\ next[r] = Null /\ r \notin freed
  /\ HashGet # r /\ \A i \in Requests : next[i] # r

\* An item follows one other at most, and those that are not freed are linked to such.
ListInv ==
  /\ Len(values) <= 1
  /\ \A i, j \in Requests : next[i] = next[j] /\ next[i] # Null => i = j
  /\ HashGet # Null => HashGet \notin freed /\ \A i \in Requests \ freed : next[i] # HashGet
  /\ \A i \in Requests \ freed : next[i] \notin freed

\* A thread registers one request at a time, of which nothing is known before.
CallsInv ==
  /\ \A t \in Threads : /\ call[t].pc = "idle" <=> call[t].request = Null
                        /\ call[t].request <= Len(asked)
                        /\ call[t].pc \in {"compare", "append"} =>
                             call[t].item \in Requests /\ ~Registering(call[t].item)
  /\ \A t, u \in Threads : t # u /\ call[t].request # Null => call[t].request # call[u].request
  /\ \A r \in Requests : Registering(r) => Unused(r)

\* The walk is at the first item, which it takes off the list and frees; only such
\* items have been told anything.
WalkInv ==
  /\ walk.pc \in {"fire", "callback", "drop"} => walk.item # Null /\ HashGet = walk.item
  /\ walk.pc \in {"drop", "add"} => walk.dropped = walk.item
  /\ walk.pc = "add" =>
       /\ walk.item # Null /\ walk.item \notin freed /\ ~Registering(walk.item)
       /\ \A i \in Requests \ freed : next[i] # walk.item
  /\ walk.pc \in {"callback", "drop", "add"} /\ walk.next # Null => walk.next = next[walk.item]
  /\ \A r \in Requests :
       answers[r] # <<>> => r \in freed \/ (walk.item = r /\ walk.pc \in {"callback", "drop", "add"})

HandlersInv == AnsweredOnce /\ ListInv /\ CallsInv /\ WalkInv

\* What the hash table does to a list of one handler at most.
LEMMA HashFacts ==
  ASSUME TypeOK, Len(values) <= 1
  PROVE  /\ HashDrop = <<>>
         /\ \A p \in Pointers : HashAdd(p) = <<p>>
         /\ values' = <<>> => HashGet' = Null /\ Len(values') <= 1
         /\ \A p \in Pointers : values' = <<p>> => HashGet' = p /\ Len(values') <= 1
         /\ values' = values => HashGet' = HashGet
<1>1. HashDrop = <<>>
  <2>1. values \in Seq(Pointers)
    BY DEF TypeOK
  <2>2. CASE values = <<>>
    BY <2>2 DEF HashDrop
  <2>3. CASE values # <<>>
    <3> DEFINE n == Len(values)
    <3>0. n \in Nat /\ n # 0 /\ n <= 1
      BY <2>1, <2>3, EmptySeq
    <3> HIDE DEF n
    <3>1. n = 1
      BY <3>0
    <3>2. Tail(values) \in Seq(Pointers) /\ Len(Tail(values)) = 0
      BY <2>1, <2>3, <3>1, HeadTailProperties DEF n
    <3>3. QED
      BY <2>3, <3>2, EmptySeq DEF HashDrop
  <2>4. QED
    BY <2>2, <2>3
<1>2. ASSUME NEW p \in Pointers PROVE HashAdd(p) = <<p>>
  <2>1. <<p>> \in Seq(Pointers)
    OBVIOUS
  <2>2. QED
    BY <1>1, <2>1, ConcatEmptySeq DEF HashAdd
<1>3. values' = <<>> => HashGet' = Null /\ Len(values') <= 1
  BY DEF HashGet
<1>4. ASSUME NEW p \in Pointers, values' = <<p>> PROVE HashGet' = p /\ Len(values') <= 1
  <2>1. <<p>> # <<>> /\ <<p>>[1] = p /\ Len(<<p>>) = 1
    BY EmptySeq
  <2>2. QED
    BY <1>4, <2>1 DEF HashGet
<1>5. values' = values => HashGet' = HashGet
  BY DEF HashGet
<1>6. QED
  BY <1>1, <1>2, <1>3, <1>4, <1>5

\* The fields of the records.
LEMMA FieldTypes ==
  ASSUME TypeOK
  PROVE  /\ \A t \in Threads : /\ call[t] \in Calls
                               /\ call[t].pc \in {"idle", "compare", "link", "append", "send"}
                               /\ call[t].request \in Pointers /\ call[t].item \in Pointers
         /\ walk.pc \in {"idle", "fire", "callback", "drop", "add"}
         /\ walk.item \in Pointers /\ walk.next \in Pointers /\ walk.dropped \in Pointers
         /\ HashGet \in Pointers
         /\ Len(asked) \in Nat /\ \A p \in Pointers : p \in Nat /\ (p # Null => p \in Requests)
         /\ \A r \in Requests : r \in Nat /\ r # Null /\ next[r] \in Pointers
<1>1. call \in [Threads -> Calls] /\ walk \in Walks /\ next \in [Requests -> Pointers] /\ asked \in Seq(Nat)
  BY DEF TypeOK
<1>2. HashGet \in Pointers
  BY HashTypes DEF Pointers
<1>3. Null \notin Requests /\ \A p \in Pointers : p \in Nat
  BY ActiveUsersAssumption DEF Requests, Pointers, Null
<1>4. ASSUME NEW t \in Threads
      PROVE  /\ call[t] \in Calls
             /\ call[t].pc \in {"idle", "compare", "link", "append", "send"}
             /\ call[t].request \in Pointers /\ call[t].item \in Pointers
  BY <1>1 DEF Calls
<1>5. /\ walk.pc \in {"idle", "fire", "callback", "drop", "add"}
      /\ walk.item \in Pointers /\ walk.next \in Pointers /\ walk.dropped \in Pointers
  BY <1>1 DEF Walks
<1>6. Len(asked) \in Nat /\ \A r \in Requests : next[r] \in Pointers
  BY <1>1
<1>7. QED
  BY <1>2, <1>3, <1>4, <1>5, <1>6 DEF Pointers

\* A step that leaves the list and the walk alone, and registers nothing new, does no harm.
LEMMA CallOnly ==
  ASSUME IInv, HandlersInv, UNCHANGED <<answers, list, walk, asked>>,
         NEW t \in Threads, NEW new \in Calls, call' = [call EXCEPT ![t] = new],
         new.pc = "idle" <=> new.request = Null,
         new.request \in {call[t].request, Null},
         new.pc \in {"compare", "link", "append"} => call[t].pc \in {"compare", "link", "append"},
         new.pc \in {"compare", "append"} => new.item \in Requests /\ ~Registering(new.item)
  PROVE  HandlersInv'
<1>0. /\ call \in [Threads -> Calls] /\ TypeOK
      /\ HashGet' = HashGet
  <2>1. TypeOK
    BY DEF IInv
  <2>2. QED
    BY <2>1 DEF TypeOK, HashGet, list
<1>1. \A u \in Threads : call'[u] = IF u = t THEN new ELSE call[u]
  BY <1>0
<1>2. \A r \in Requests : Registering(r)' => Registering(r)
  <2> SUFFICES ASSUME NEW r \in Requests, Registering(r)' PROVE Registering(r)
    OBVIOUS
  <2>1. CASE r > Len(asked)
    BY <2>1 DEF Registering
  <2>2. ASSUME NEW u \in Threads, call'[u].request = r, call'[u].pc \in {"compare", "link", "append"}
        PROVE  Registering(r)
    <3>1. r # Null
      BY <1>0, FieldTypes
    <3>2. call[u].request = r /\ call[u].pc \in {"compare", "link", "append"}
      BY <1>1, <2>2, <3>1
    <3>3. QED
      BY <3>2 DEF Registering
  <2>3. QED
    BY <2>1, <2>2 DEF Registering
<1>3. \A r \in Requests : Unused(r)' <=> Unused(r)
  BY <1>0 DEF Unused, list
<1>4. ListInv'
  BY <1>0 DEF HandlersInv, ListInv, list
<1>5. CallsInv'
  <2>1. \A u \in Threads : /\ call'[u].pc = "idle" <=> call'[u].request = Null
                           /\ call'[u].request <= Len(asked')
                           /\ call'[u].pc \in {"compare", "append"} => call'[u].item \in Requests
    BY <1>0, <1>1, FieldTypes DEF HandlersInv, CallsInv, Null
  <2>2. \A u \in Threads : call'[u].pc \in {"compare", "append"} => ~Registering(call'[u].item)
    BY <1>1 DEF HandlersInv, CallsInv
  <2>3. \A u, v \in Threads : u # v /\ call'[u].request # Null => call'[u].request # call'[v].request
    BY <1>1 DEF HandlersInv, CallsInv
  <2>4. QED
    BY <1>2, <1>3, <2>1, <2>2, <2>3 DEF HandlersInv, CallsInv
<1>6. WalkInv'
  <2>1. walk.pc = "add" => walk.item \in Requests
    BY <1>0, FieldTypes DEF HandlersInv, WalkInv
  <2>2. QED
    BY <1>0, <1>2, <2>1 DEF HandlersInv, WalkInv, list
<1>7. QED
  BY <1>4, <1>5, <1>6 DEF HandlersInv, AnsweredOnce

\* A request is looked up, one at a time by each thread.
LEMMA RequestKeepsHandlers ==
  ASSUME IInv, HandlersInv, NEW t \in Threads, Request(t)
  PROVE  HandlersInv'
<1> DEFINE r == Len(asked) + 1
           new == [pc |-> IF HashGet = Null THEN "link" ELSE "compare", request |-> r, item |-> HashGet]
<1>0. /\ call \in [Threads -> Calls] /\ TypeOK /\ HashGet' = HashGet
      /\ call' = [call EXCEPT ![t] = new] /\ call[t].pc = "idle"
      /\ UNCHANGED <<answers, list, walk>>
      /\ r \in Nat \ {0} /\ Len(asked) \in Nat /\ r \in Requests
  <2>1. TypeOK
    BY DEF IInv
  <2>2. asked \in Seq(Nat) /\ Len(asked) < MaxRequests
    BY <2>1 DEF TypeOK, Request
  <2>3. r \in Requests /\ Len(asked) \in Nat
    BY <2>2, ActiveUsersAssumption DEF Requests
  <2>4. /\ call' = [call EXCEPT ![t] = new] /\ call[t].pc = "idle"
        /\ UNCHANGED <<answers, list, walk>>
    BY DEF Request
  <2>5. HashGet' = HashGet
    BY <2>4 DEF HashGet, list
  <2>6. call \in [Threads -> Calls]
    BY <2>1 DEF TypeOK
  <2>7. r \in Nat \ {0}
    BY <2>3
  <2> HIDE DEF new, r
  <2>8. QED
    BY <2>1, <2>3, <2>4, <2>5, <2>6, <2>7
<1>1. Len(asked') = r
  BY <1>0 DEF Request, TypeOK
<1>2. \A u \in Threads : call'[u] = IF u = t THEN new ELSE call[u]
  BY <1>0
<1>3. new.request = r /\ new.item = HashGet /\ new.pc \in {"link", "compare"} /\ (new.pc = "compare" => HashGet # Null)
  OBVIOUS
<1> HIDE DEF new, r
<1>4. Registering(r) /\ \A q \in Requests : Registering(q)' => Registering(q)
  <2>1. Registering(r)
    BY <1>0 DEF Registering, r
  <2>2. ASSUME NEW q \in Requests, Registering(q)' PROVE Registering(q)
    <3>1. CASE q > Len(asked')
      BY <1>0, <1>1, <3>1, FieldTypes DEF Registering, r
    <3>2. ASSUME NEW u \in Threads, call'[u].request = q, call'[u].pc \in {"compare", "link", "append"}
          PROVE  Registering(q)
      BY <1>2, <1>3, <2>1, <3>2 DEF Registering
    <3>3. QED
      BY <2>2, <3>1, <3>2 DEF Registering
  <2>3. QED
    BY <2>1, <2>2
<1>5. \A q \in Requests : Unused(q)' <=> Unused(q)
  BY <1>0 DEF Unused, list
<1>6. ListInv'
  BY <1>0 DEF HandlersInv, ListInv, list
<1>7. CallsInv'
  <2>1. \A u \in Threads : /\ call'[u].pc = "idle" <=> call'[u].request = Null
                           /\ call'[u].request <= Len(asked')
    BY <1>0, <1>1, <1>2, <1>3, FieldTypes DEF HandlersInv, CallsInv, Null, r
  <2>2. \A u \in Threads : call'[u].pc \in {"compare", "append"} =>
                            call'[u].item \in Requests /\ ~Registering(call'[u].item)
    <3>1. HashGet # Null => HashGet \in Requests /\ ~Registering(HashGet)
      BY <1>0, FieldTypes DEF HandlersInv, CallsInv, Unused
    <3>2. QED
      BY <1>2, <1>3, <3>1 DEF HandlersInv, CallsInv
  <2>3. \A u, v \in Threads : u # v /\ call'[u].request # Null => call'[u].request # call'[v].request
    <3>1. \A u \in Threads : call[u].request # r
      BY <1>0, FieldTypes DEF HandlersInv, CallsInv, r
    <3>2. QED
      BY <1>2, <1>3, <3>1 DEF HandlersInv, CallsInv
  <2>4. QED
    BY <1>4, <1>5, <2>1, <2>2, <2>3 DEF HandlersInv, CallsInv
<1>8. WalkInv'
  <2>1. walk.pc = "add" => walk.item \in Requests
    BY <1>0, FieldTypes DEF HandlersInv, WalkInv
  <2>2. QED
    BY <1>0, <1>4, <2>1 DEF HandlersInv, WalkInv, list
<1>9. QED
  BY <1>0, <1>6, <1>7, <1>8 DEF HandlersInv, AnsweredOnce

\* An item that was not in the list becomes the list, or is appended to it.
LEMMA LinkKeepsHandlers ==
  ASSUME IInv, HandlersInv, NEW t \in Threads, Link(t)
  PROVE  HandlersInv'
<1> DEFINE r == call[t].request
<1>0. TypeOK /\ call \in [Threads -> Calls] /\ call[t] \in Calls
  BY DEF IInv, TypeOK
<1>a. r \in Requests /\ Registering(r) /\ Unused(r) /\ call[t].pc = "link"
  BY <1>0, FieldTypes DEF Link, HandlersInv, CallsInv, Registering
<1>1. CASE HashGet # Null
  <2> DEFINE new == [[call[t] EXCEPT !.pc = "append"] EXCEPT !.item = HashGet]
  <2>1. call' = [call EXCEPT ![t] = new] /\ UNCHANGED <<answers, list, walk, asked>>
    BY <1>1 DEF Link, list
  <2>2. new \in Calls /\ new.pc = "append" /\ new.request = r /\ new.item = HashGet
    BY <1>0, FieldTypes DEF Calls
  <2>3. HashGet \in Requests /\ ~Registering(HashGet)
    BY <1>0, <1>1, FieldTypes DEF HandlersInv, CallsInv, Unused
  <2> HIDE DEF new
  <2>4. r # Null
    BY <1>0, <1>a, FieldTypes
  <2> HIDE DEF r
  <2>5. QED
    BY <1>a, <2>1, <2>2, <2>3, <2>4, CallOnly DEF r
<1>2. CASE HashGet = Null
  <2> DEFINE new == [call[t] EXCEPT !.pc = "send"]
  <2>1. /\ call' = [call EXCEPT ![t] = new] /\ values' = <<r>>
        /\ UNCHANGED <<answers, next, freed, walk, asked>>
    <3>1. r \in Pointers
      BY <1>0, FieldTypes
    <3>2. HashAdd(r) = <<r>>
      BY <1>0, <3>1, HashFacts DEF HandlersInv, ListInv
    <3>3. QED
      BY <1>2, <3>2 DEF Link
  <2>2. new.pc = "send" /\ new.request = r
    BY <1>0 DEF Calls
  <2>3. \A u \in Threads : call'[u] = IF u = t THEN new ELSE call[u]
    BY <1>0, <2>1
  <2>4. HashGet' = r /\ Len(values') <= 1
    BY <1>0, <2>1, FieldTypes, HashFacts DEF HandlersInv, ListInv
  <2> HIDE DEF new, r
  <2>5. \A q \in Requests : Registering(q)' => Registering(q) /\ q # r
    <3> SUFFICES ASSUME NEW q \in Requests, Registering(q)' PROVE Registering(q) /\ q # r
      OBVIOUS
    <3>1. CASE q > Len(asked')
      BY <1>0, <2>1, <3>1, FieldTypes DEF HandlersInv, CallsInv, Registering, r
    <3>2. ASSUME NEW u \in Threads, call'[u].request = q, call'[u].pc \in {"compare", "link", "append"}
          PROVE  Registering(q) /\ q # r
      <4>1. u # t
        BY <2>2, <2>3, <3>2
      <4>2. call[u].request = q /\ call[u].pc \in {"compare", "link", "append"}
        BY <2>3, <3>2, <4>1
      <4>3. q # Null
        BY <1>0, FieldTypes
      <4>4. QED
        BY <4>1, <4>2, <4>3 DEF HandlersInv, CallsInv, Registering, r
    <3>3. QED
      BY <3>1, <3>2 DEF Registering
  <2>6. \A q \in Requests : q # r /\ Unused(q) => Unused(q)'
    BY <2>1, <2>4 DEF Unused
  <2>7. ListInv'
    BY <1>a, <2>1, <2>4 DEF HandlersInv, ListInv, Unused
  <2>8. CallsInv'
    <3>1. \A u \in Threads : /\ call'[u].pc = "idle" <=> call'[u].request = Null
                             /\ call'[u].request <= Len(asked')
      BY <1>a, <2>1, <2>2, <2>3 DEF HandlersInv, CallsInv, r
    <3>2. \A u \in Threads : call'[u].pc \in {"compare", "append"} =>
                              call'[u].item \in Requests /\ ~Registering(call'[u].item)
      BY <2>2, <2>3 DEF HandlersInv, CallsInv
    <3>3. \A u, v \in Threads : u # v /\ call'[u].request # Null => call'[u].request # call'[v].request
      BY <2>2, <2>3 DEF HandlersInv, CallsInv, r
    <3>4. QED
      BY <2>5, <2>6, <3>1, <3>2, <3>3 DEF HandlersInv, CallsInv
  <2>9. WalkInv'
    <3>1. walk.pc = "add" => walk.item \in Requests
      BY <1>0, FieldTypes DEF HandlersInv, WalkInv
    <3>2. walk.pc \notin {"fire", "callback", "drop"}
      BY <1>2 DEF HandlersInv, WalkInv
    <3>3. QED
      BY <2>1, <2>5, <3>1, <3>2 DEF HandlersInv, WalkInv
  <2>10. QED
    BY <2>1, <2>7, <2>8, <2>9 DEF HandlersInv, AnsweredOnce
<1>3. QED
  BY <1>1, <1>2

\* The first loop of a registration ends, or the request is sent.
LEMMA CompareOrSendKeepsHandlers ==
  ASSUME IInv, HandlersInv, NEW t \in Threads, Compare(t) \/ Send(t)
  PROVE  HandlersInv'
<1>0. TypeOK /\ call \in [Threads -> Calls] /\ call[t] \in Calls
  BY DEF IInv, TypeOK
<1>1. CASE Send(t)
  <2>1. Idle \in Calls /\ Idle.pc = "idle" /\ Idle.request = Null
    BY DEF Idle, Calls, Pointers
  <2>2. call' = [call EXCEPT ![t] = Idle] /\ UNCHANGED <<answers, list, walk, asked>>
    BY <1>1 DEF Send
  <2> HIDE DEF Idle
  <2>3. QED
    BY <2>1, <2>2, CallOnly
<1>2. CASE Compare(t) /\ call' = call
  <2>1. /\ call' = [call EXCEPT ![t] = call[t]] /\ UNCHANGED <<answers, list, walk, asked>>
        /\ call[t].pc = "compare" /\ call[t].item \in Requests /\ ~Registering(call[t].item)
    BY <1>0, <1>2 DEF Compare, HandlersInv, CallsInv
  <2>2. call[t].pc = "idle" <=> call[t].request = Null
    BY DEF HandlersInv, CallsInv
  <2>3. QED
    BY <1>0, <2>1, <2>2, CallOnly
<1>3. CASE Compare(t) /\ call' # call
  <2> DEFINE new == [call[t] EXCEPT !.pc = "send"]
  <2>1. /\ call' = [call EXCEPT ![t] = new] /\ UNCHANGED <<answers, list, walk, asked>>
        /\ call[t].pc = "compare"
    BY <1>3 DEF Compare
  <2>2. new \in Calls /\ new.pc = "send" /\ new.request = call[t].request
    BY <1>0 DEF Calls
  <2> HIDE DEF new
  <2>3. new.request # Null
    BY <2>1, <2>2 DEF HandlersInv, CallsInv
  <2>4. QED
    BY <2>1, <2>2, <2>3, CallOnly
<1>4. QED
  BY <1>1, <1>2, <1>3

\* The end of the list is one that no other thread has got to first.
LEMMA AppendKeepsHandlers ==
  ASSUME IInv, HandlersInv, NEW t \in Threads, AppendItem(t)
  PROVE  HandlersInv'
<1> DEFINE r == call[t].request
           tail == call[t].item
<1>0. TypeOK /\ call \in [Threads -> Calls] /\ call[t] \in Calls /\ next \in [Requests -> Pointers]
  BY DEF IInv, TypeOK
<1>1. /\ r \in Requests /\ Registering(r) /\ Unused(r) /\ call[t].pc = "append" /\ r # Null
      /\ tail \in Requests /\ ~Registering(tail) /\ tail # r
  BY <1>0, FieldTypes DEF AppendItem, HandlersInv, CallsInv, Registering
<1>2. CASE tail \in freed
  <2>1. call' = [call EXCEPT ![t] = call[t]] /\ UNCHANGED <<answers, list, walk, asked>>
    BY <1>0, <1>2 DEF AppendItem, list
  <2> HIDE DEF r, tail
  <2>2. QED
    BY <1>0, <1>1, <2>1, CallOnly DEF r, tail
<1>3. CASE tail \notin freed /\ next[tail] # Null
  <2> DEFINE new == [call[t] EXCEPT !.item = next[tail]]
  <2>1. call' = [call EXCEPT ![t] = new] /\ UNCHANGED <<answers, list, walk, asked>>
    BY <1>3 DEF AppendItem, list
  <2>2. new \in Calls /\ new.pc = "append" /\ new.request = r /\ new.item = next[tail]
    BY <1>0, <1>1 DEF Calls
  <2>3. next[tail] \in Requests /\ ~Registering(next[tail])
    BY <1>0, <1>1, <1>3, FieldTypes DEF HandlersInv, CallsInv, Unused
  <2> HIDE DEF new, r, tail
  <2>4. QED
    BY <1>1, <2>1, <2>2, <2>3, CallOnly DEF r
<1>4. CASE tail \notin freed /\ next[tail] = Null
  <2> DEFINE new == [call[t] EXCEPT !.pc = "send"]
  <2>1. /\ call' = [call EXCEPT ![t] = new] /\ next' = [next EXCEPT ![tail] = r]
        /\ UNCHANGED <<answers, values, freed, walk, asked>>
    BY <1>4 DEF AppendItem
  <2>2. new.pc = "send" /\ new.request = r
    BY <1>0 DEF Calls
  <2>3. \A u \in Threads : call'[u] = IF u = t THEN new ELSE call[u]
    BY <1>0, <2>1
  <2>4. HashGet' = HashGet /\ \A i \in Requests : next'[i] = IF i = tail THEN r ELSE next[i]
    BY <1>0, <1>1, <2>1 DEF HashGet
  <2> HIDE DEF new, r, tail
  <2>5. \A q \in Requests : Registering(q)' => Registering(q) /\ q # r
    <3> SUFFICES ASSUME NEW q \in Requests, Registering(q)' PROVE Registering(q) /\ q # r
      OBVIOUS
    <3>1. CASE q > Len(asked')
      BY <1>0, <2>1, <3>1, FieldTypes DEF HandlersInv, CallsInv, Registering, r
    <3>2. ASSUME NEW u \in Threads, call'[u].request = q, call'[u].pc \in {"compare", "link", "append"}
          PROVE  Registering(q) /\ q # r
      <4>1. u # t
        BY <2>2, <2>3, <3>2
      <4>2. call[u].request = q /\ call[u].pc \in {"compare", "link", "append"}
        BY <2>3, <3>2, <4>1
      <4>3. q # Null
        BY <1>0, FieldTypes
      <4>4. QED
        BY <4>1, <4>2, <4>3 DEF HandlersInv, CallsInv, Registering, r
    <3>3. QED
      BY <3>1, <3>2 DEF Registering
  <2>6. \A q \in Requests : q # r /\ q # tail /\ Unused(q) => Unused(q)'
    BY <2>1, <2>4 DEF Unused
  <2>7. ListInv'
    BY <1>1, <1>4, <2>1, <2>4 DEF HandlersInv, ListInv, Unused
  <2>8. CallsInv'
    <3>1. \A u \in Threads : /\ call'[u].pc = "idle" <=> call'[u].request = Null
                             /\ call'[u].request <= Len(asked')
      BY <1>1, <2>1, <2>2, <2>3 DEF HandlersInv, CallsInv, r
    <3>2. \A u \in Threads : call'[u].pc \in {"compare", "append"} =>
                              call'[u].item \in Requests /\ ~Registering(call'[u].item)
      BY <2>2, <2>3 DEF HandlersInv, CallsInv
    <3>3. \A u, v \in Threads : u # v /\ call'[u].request # Null => call'[u].request # call'[v].request
      BY <2>2, <2>3 DEF HandlersInv, CallsInv, r
    <3>4. QED
      BY <1>1, <2>5, <2>6, <3>1, <3>2, <3>3 DEF HandlersInv, CallsInv
  <2>9. WalkInv'
    <3>1. walk.pc \in {"fire", "callback", "drop", "add"} => walk.item \in Requests /\ ~Registering(walk.item)
      BY <1>0, FieldTypes DEF HandlersInv, WalkInv, CallsInv, Unused
    <3>2. walk.pc = "add" => \A i \in Requests \ freed : next'[i] # walk.item
      BY <1>1, <2>4, <3>1 DEF HandlersInv, WalkInv
    <3>3. walk.pc \in {"callback", "drop", "add"} /\ walk.next # Null => walk.next = next'[walk.item]
      BY <1>4, <2>4, <3>1 DEF HandlersInv, WalkInv
    <3>4. QED
      BY <2>1, <2>4, <2>5, <3>1, <3>2, <3>3 DEF HandlersInv, WalkInv
  <2>10. QED
    BY <2>1, <2>7, <2>8, <2>9 DEF HandlersInv, AnsweredOnce
<1>5. QED
  BY <1>2, <1>3, <1>4

\* What the rest of the state has to do with the handlers.
LEMMA ListOnly ==
  ASSUME IInv, HandlersInv, UNCHANGED <<asked, call>>,
         \A r \in Requests : Registering(r) /\ Unused(r) => Unused(r)'
  PROVE  /\ \A r \in Requests : Registering(r)' <=> Registering(r)
         /\ CallsInv'
<1>1. \A r \in Requests : Registering(r)' <=> Registering(r)
  BY DEF Registering
<1>2. QED
  BY <1>1 DEF HandlersInv, CallsInv

\* An answer is handed to the first handler, and not twice.
LEMMA ReceiveKeepsHandlers ==
  ASSUME IInv, HandlersInv, Receive \/ Fire \/ Return
  PROVE  HandlersInv'
<1>0. /\ TypeOK /\ walk \in Walks /\ HashGet' = HashGet
      /\ UNCHANGED <<asked, call, list>>
  <2>1. UNCHANGED <<asked, call, list>>
    BY DEF Receive, Fire, Return
  <2>2. QED
    BY <2>1 DEF IInv, TypeOK, HashGet, list
<1>1. CASE Receive
  <2>1. UNCHANGED answers /\ walk.pc = "idle"
    BY <1>1 DEF Receive
  <2>2. \/ walk' = walk
        \/ walk'.pc = "fire" /\ walk'.item = HashGet /\ HashGet # Null
    BY <1>1 DEF Receive, Rest
  <2>3. \A r \in Requests : Unused(r)' <=> Unused(r)
    BY <1>0, <2>1 DEF Unused, list
  <2>4. CallsInv'
    BY <1>0, <2>3, ListOnly
  <2>5. ListInv'
    BY <1>0 DEF HandlersInv, ListInv, list
  <2>6. WalkInv'
    BY <1>0, <2>1, <2>2 DEF HandlersInv, WalkInv, list
  <2>7. QED
    BY <2>1, <2>4, <2>5, <2>6 DEF HandlersInv, AnsweredOnce
<1>2. CASE Fire
  <2>1. walk.item \in Requests /\ HashGet = walk.item /\ walk.item \notin freed /\ walk.pc = "fire"
    BY <1>0, <1>2, FieldTypes DEF Fire, HandlersInv, WalkInv, ListInv
  <2>2. /\ walk'.pc = "callback" /\ walk'.item = walk.item /\ walk'.next = next[walk.item]
        /\ walk'.dropped = walk.dropped
    BY <1>0, <1>2, <2>1 DEF Fire, Walks
  <2>3. /\ \A r \in Requests : r # walk.item => answers'[r] = answers[r]
        /\ Len(answers'[walk.item]) = Len(answers[walk.item]) + 1
    <3> DEFINE All == [users : Policies \cup {Absent}, at : Nat]
               told == [users |-> Parsed(walk.stanza.entry), at |-> walk.stanza.at]
    <3>1. answers \in [Requests -> Seq(All)]
      BY <1>0 DEF TypeOK
    <3>2. answers' = [answers EXCEPT ![walk.item] = Append(@, told)]
      BY <1>2, <2>1 DEF Fire
    <3> HIDE DEF All, told
    <3>3. answers'[walk.item] = Append(answers[walk.item], told) /\ answers[walk.item] \in Seq(All)
      BY <2>1, <3>1, <3>2
    <3>4. QED
      BY <3>1, <3>2, <3>3
  <2>4. answers[walk.item] = <<>>
    BY <2>1 DEF HandlersInv, WalkInv
  <2>5. AnsweredOnce'
    <3>1. Len(answers'[walk.item]) <= 1
      <4>1. Len(answers[walk.item]) = 0
        BY <2>4, EmptySeq
      <4>2. QED
        BY <2>3, <4>1
    <3>2. \A r \in Requests : r # walk.item => Len(answers'[r]) <= 1
      BY <2>3 DEF HandlersInv, AnsweredOnce
    <3>3. QED
      BY <3>1, <3>2 DEF AnsweredOnce
  <2>6. ~Registering(walk.item)
    BY <2>1 DEF HandlersInv, CallsInv, Unused
  <2>7. \A r \in Requests : Registering(r) /\ Unused(r) => Unused(r)'
    BY <1>0, <2>3, <2>6 DEF Unused, list
  <2>8. CallsInv'
    BY <1>0, <2>7, ListOnly
  <2>9. ListInv'
    BY <1>0 DEF HandlersInv, ListInv, list
  <2>10. WalkInv'
    BY <1>0, <2>1, <2>2, <2>3 DEF HandlersInv, WalkInv, list
  <2>11. QED
    BY <2>5, <2>8, <2>9, <2>10 DEF HandlersInv
<1>3. CASE Return
  <2>1. /\ walk.pc = "callback" /\ HashGet # Null /\ HashGet = walk.item /\ UNCHANGED answers
        /\ walk'.pc = "drop" /\ walk'.dropped = walk.item /\ walk'.item = walk.item /\ walk'.next = walk.next
    BY <1>0, <1>3 DEF Return, HandlersInv, WalkInv, Walks
  <2>2. \A r \in Requests : Unused(r)' <=> Unused(r)
    BY <1>0, <2>1 DEF Unused, list
  <2>3. CallsInv'
    BY <1>0, <2>2, ListOnly
  <2>4. ListInv'
    BY <1>0 DEF HandlersInv, ListInv, list
  <2>5. WalkInv'
    BY <1>0, <2>1 DEF HandlersInv, WalkInv, list
  <2>6. QED
    BY <2>1, <2>3, <2>4, <2>5 DEF HandlersInv, AnsweredOnce
<1>4. QED
  BY <1>1, <1>2, <1>3

\* The first handler is taken off the list, what follows it becomes the list, and it is
\* freed.
LEMMA DeleteKeepsHandlers ==
  ASSUME IInv, HandlersInv, Drop \/ Add
  PROVE  HandlersInv'
<1>0. /\ TypeOK /\ walk \in Walks /\ next \in [Requests -> Pointers]
      /\ UNCHANGED <<asked, call, next, answers>>
  <2>1. UNCHANGED <<asked, call, next, answers>>
    BY DEF Drop, Add
  <2>2. QED
    BY <2>1 DEF IInv, TypeOK
<1>1. CASE Drop
  <2>1. /\ walk.pc = "drop" /\ values' = <<>> /\ freed' = freed
        /\ walk' = [walk EXCEPT !.pc = "add"]
    BY <1>0, <1>1, HashFacts DEF Drop, HandlersInv, ListInv
  <2>2. HashGet' = Null /\ Len(values') <= 1
    BY <1>0, <2>1, HashFacts DEF HandlersInv, ListInv
  <2>3. /\ walk'.pc = "add" /\ walk'.item = walk.item /\ walk'.next = walk.next
        /\ walk'.dropped = walk.dropped
    BY <1>0, <2>1 DEF Walks
  <2>4. /\ walk.item # Null /\ HashGet = walk.item /\ walk.dropped = walk.item
        /\ walk.item \in Requests
    BY <1>0, <2>1, FieldTypes DEF HandlersInv, WalkInv
  <2>5. \A r \in Requests : Registering(r) /\ Unused(r) => Unused(r)'
    <3>1. \A r \in Requests : r # Null
      BY <1>0, FieldTypes
    <3>2. QED
      BY <1>0, <2>1, <2>2, <3>1 DEF Unused
  <2>6. ~Registering(walk.item)
    BY <2>4 DEF HandlersInv, CallsInv, Unused
  <2>7. CallsInv' /\ ~Registering(walk.item)'
    <3>1. CallsInv' /\ \A r \in Requests : Registering(r)' <=> Registering(r)
      BY <1>0, <2>5, ListOnly
    <3>2. QED
      BY <2>3, <2>6, <3>1, <1>0 DEF Registering
  <2>8. ListInv'
    BY <1>0, <2>1, <2>2 DEF HandlersInv, ListInv
  <2>9. WalkInv'
    <3>1. walk.item \notin freed /\ \A i \in Requests \ freed : next[i] # walk.item
      BY <2>4 DEF HandlersInv, ListInv
    <3>2. walk.next # Null => walk.next = next[walk.item]
      BY <2>1 DEF HandlersInv, WalkInv
    <3>3. ~Registering(walk.item)'
      BY <2>7
    <3>4. \A r \in Requests : answers[r] # <<>> => r \in freed \/ walk.item = r
      BY DEF HandlersInv, WalkInv
    <3>5. QED
      BY <1>0, <2>1, <2>3, <2>4, <3>1, <3>2, <3>3, <3>4 DEF WalkInv
  <2>10. QED
    BY <1>0, <2>7, <2>8, <2>9 DEF HandlersInv, AnsweredOnce
<1>2. CASE Add
  <2> DEFINE d == walk.item
             n == next[d]
  <2>1. /\ walk.pc = "add" /\ walk.dropped = d /\ d # Null /\ d \in Requests /\ n \in Pointers
        /\ d \notin freed /\ ~Registering(d) /\ \A i \in Requests \ freed : next[i] # d
        /\ walk.next # Null => walk.next = n
    BY <1>0, <1>2, FieldTypes DEF Add, HandlersInv, WalkInv
  <2>2. /\ values' = <<n>> /\ freed' = freed \cup {d}
        /\ walk' = IF walk.next = Null THEN Rest
                   ELSE [walk EXCEPT !.pc = "fire", !.item = walk.next, !.next = Null, !.dropped = Null]
    BY <1>0, <1>2, <2>1, HashFacts DEF Add, HandlersInv, ListInv
  <2>3. HashGet' = n /\ Len(values') <= 1
    BY <1>0, <2>1, <2>2, HashFacts DEF HandlersInv, ListInv
  <2>4. \/ walk'.pc = "idle"
        \/ walk'.pc = "fire" /\ walk'.item = n /\ n # Null
    BY <1>0, <2>1, <2>2 DEF Rest, Walks
  <2> HIDE DEF d, n
  <2>5. n # d /\ n \notin freed
    BY <2>1 DEF HandlersInv, ListInv, n
  <2>6. \A r \in Requests : Registering(r) /\ Unused(r) => Unused(r)'
    BY <1>0, <2>1, <2>2, <2>3 DEF Unused, n
  <2>7. CallsInv'
    BY <1>0, <2>6, ListOnly
  <2>8. ListInv'
    <3>1. n # Null => \A i \in Requests \ (freed \cup {d}) : next[i] # n
      BY <2>1 DEF HandlersInv, ListInv, n
    <3>2. \A i \in Requests \ (freed \cup {d}) : next[i] \notin freed \cup {d}
      BY <2>1 DEF HandlersInv, ListInv
    <3>3. QED
      BY <1>0, <2>2, <2>3, <2>5, <3>1, <3>2 DEF HandlersInv, ListInv
  <2>9. WalkInv'
    <3>1. \A r \in Requests : answers'[r] # <<>> => r \in freed'
      BY <1>0, <2>2 DEF HandlersInv, WalkInv, d
    <3>2. QED
      BY <2>3, <2>4, <3>1 DEF WalkInv
  <2>10. QED
    BY <1>0, <2>7, <2>8, <2>9 DEF HandlersInv, AnsweredOnce
<1>3. QED
  BY <1>1, <1>2

\* There is nothing in the list at first, and no item was given out.
LEMMA InitHandlersInv == Init => HandlersInv
<1> SUFFICES ASSUME Init PROVE HandlersInv
  OBVIOUS
<1>1. /\ \A r \in Requests : answers[r] = <<>> /\ next[r] = Null
      /\ values = <<>> /\ freed = {} /\ HashGet = Null /\ Len(values) = 0 /\ Len(asked) = 0
      /\ \A t \in Threads : call[t].pc = "idle" /\ call[t].request = Null
      /\ walk.pc = "idle"
  <2>1. Len(values) = 0 /\ Len(asked) = 0
    BY EmptySeq DEF Init
  <2>2. QED
    BY <2>1 DEF Init, HashGet, Idle, Rest
<1>2. AnsweredOnce
  BY <1>1, EmptySeq DEF AnsweredOnce
<1>3. ListInv
  BY <1>1 DEF ListInv, Null
<1>4. CallsInv
  <2>1. \A r \in Requests : Unused(r)
    <3>1. \A r \in Requests : r # Null
      BY ActiveUsersAssumption DEF Requests, Null
    <3>2. QED
      BY <1>1, <3>1 DEF Unused
  <2>2. QED
    BY <1>1, <2>1 DEF CallsInv, Null
<1>5. WalkInv
  BY <1>1 DEF WalkInv
<1>6. QED
  BY <1>2, <1>3, <1>4, <1>5 DEF HandlersInv

\* Every step keeps what is known of the handlers.
LEMMA NextHandlersInv == IInv /\ HandlersInv /\ [Next]_vars => HandlersInv'
<1> SUFFICES ASSUME IInv, HandlersInv, [Next]_vars PROVE HandlersInv'
  OBVIOUS
<1>1. CASE UNCHANGED <<answers, asked, list, call, walk>>
  <2>1. \A r \in Requests : Unused(r)' <=> Unused(r)
    BY <1>1 DEF Unused, HashGet, list
  <2>2. CallsInv'
    BY <1>1, <2>1, ListOnly
  <2>3. ListInv' /\ WalkInv' /\ AnsweredOnce'
    BY <1>1 DEF HandlersInv, ListInv, WalkInv, AnsweredOnce, HashGet, list, Registering
  <2>4. QED
    BY <2>2, <2>3 DEF HandlersInv
<1>2. ASSUME NEW t \in Threads, Request(t) PROVE HandlersInv'
  BY <1>2, RequestKeepsHandlers
<1>3. ASSUME NEW t \in Threads, Step(t) PROVE HandlersInv'
  BY <1>3, LinkKeepsHandlers, CompareOrSendKeepsHandlers, AppendKeepsHandlers DEF Step
<1>4. CASE Loop
  BY <1>4, ReceiveKeepsHandlers, DeleteKeepsHandlers DEF Loop
<1>5. CASE SignUp \/ (\E key \in Keys : Publish(key)) \/ ListUsers \/ Lose \/ UNCHANGED vars
  <2>1. UNCHANGED <<answers, asked, list, call, walk>>
    BY <1>5 DEF SignUp, Publish, ListUsers, Lose, vars
  <2>2. QED
    BY <1>1, <2>1
<1>6. QED
  BY <1>2, <1>3, <1>4, <1>5 DEF Next

-----------------------------------------------------------------------------
(* As long as no request meets another one or an answer.                     *)

\* The requests and the answers on the wire.
Owed == toServer + Len(toClient)

\* Nothing is owed once the connection is lost.
WireInv == ~connected => Owed = 0

\* There is one handler at most and none is linked to another; a thread that registers
\* one and the walk have the list and the wire to themselves.
Calm ==
  /\ ~crashed
  /\ \A t \in Threads : call[t].pc # "idle" =>
       /\ call[t].pc \in {"link", "send"} /\ call[Other(t)].pc = "idle"
       /\ walk.pc = "idle" /\ Owed = 0
       /\ call[t].pc = "link" => HashGet = Null
       /\ call[t].pc = "send" => HashGet # Null
  /\ \A r \in Requests : next[r] = Null
  /\ walk.pc # "idle" => Owed = 0
  /\ walk.pc = "add" => HashGet = Null
  /\ connected /\ (\A t \in Threads : call[t].pc = "idle") /\ walk.pc = "idle" =>
       Owed = (IF HashGet = Null THEN 0 ELSE 1)

CalmInv == WireInv /\ (contended = {} => Calm)

\* How the steps change what is owed.
LEMMA OwedFacts ==
  ASSUME TypeOK
  PROVE  /\ Owed \in Nat
         /\ UNCHANGED wire => Owed' = Owed /\ connected' = connected
         /\ Receive => Owed # 0 /\ (Owed = 1 => Owed' = 0) /\ connected' = connected
         /\ ListUsers => Owed' = Owed /\ connected' = connected
         /\ Lose => Owed' = 0 /\ ~connected'
         /\ \A t \in Threads : Send(t) => /\ Owed' = IF connected THEN Owed + 1 ELSE Owed
                                          /\ connected' = connected
<1> DEFINE n == Len(toClient)
<1>0. toServer \in Nat /\ toClient \in Seq(Answers) /\ n \in Nat /\ entry \in Entries /\ profiles \in Seq(Seq(Byte))
  BY DEF TypeOK
<1>1. Owed = toServer + n
  BY DEF Owed
<1>2. UNCHANGED wire => Owed' = Owed /\ connected' = connected
  BY DEF Owed, wire
<1>3. ASSUME Receive PROVE Owed # 0 /\ (Owed = 1 => Owed' = 0) /\ connected' = connected
  <2>1. toClient # <<>> /\ toClient' = Tail(toClient) /\ toServer' = toServer /\ connected' = connected
    BY <1>3 DEF Receive
  <2> DEFINE m == Len(toClient')
  <2>2. n = m + 1 /\ m \in Nat
    BY <1>0, <2>1, HeadTailProperties
  <2>3. Owed' = toServer + m
    BY <2>1 DEF Owed
  <2> HIDE DEF n, m
  <2>4. QED
    BY <1>0, <1>1, <2>1, <2>2, <2>3
<1>4. ASSUME ListUsers PROVE Owed' = Owed /\ connected' = connected
  <2> DEFINE answer == [entry |-> entry, at |-> Len(profiles)]
             m == Len(toClient')
  <2>0. answer \in Answers
    BY <1>0 DEF Answers
  <2>1. toServer > 0 /\ toClient' = Append(toClient, answer) /\ toServer' = toServer - 1 /\ connected' = connected
    BY <1>4 DEF ListUsers
  <2> HIDE DEF answer
  <2>2. m = n + 1
    BY <1>0, <2>0, <2>1
  <2>3. Owed' = (toServer - 1) + m
    BY <2>1 DEF Owed
  <2> HIDE DEF n, m
  <2>4. QED
    BY <1>0, <1>1, <2>1, <2>2, <2>3
<1>5. ASSUME Lose PROVE Owed' = 0 /\ ~connected'
  BY <1>5, EmptySeq DEF Lose, Owed
<1>6. ASSUME NEW t \in Threads, Send(t)
      PROVE  (Owed' = IF connected THEN Owed + 1 ELSE Owed) /\ connected' = connected
  <2>1. /\ toServer' = IF connected THEN toServer + 1 ELSE toServer
        /\ toClient' = toClient /\ connected' = connected
    BY <1>6 DEF Send
  <2>2. Owed' = toServer' + n
    BY <2>1 DEF Owed
  <2> HIDE DEF n
  <2>3. QED
    BY <1>0, <1>1, <2>1, <2>2
<1> HIDE DEF n
<1>7. Owed \in Nat
  BY <1>0, <1>1
<1>8. QED
  BY <1>2, <1>3, <1>4, <1>5, <1>6, <1>7

\* There are two threads.
LEMMA OtherThread ==
  ASSUME NEW t \in Threads
  PROVE  Other(t) \in Threads /\ Other(t) # t /\ Other(Other(t)) = t /\ \A u \in Threads : u = t \/ u = Other(t)
  BY DEF Other, Threads

\* A request that meets nothing finds nothing in the list, on the wire or in the walk.
LEMMA RequestStaysCalm ==
  ASSUME IInv, HandlersInv, CalmInv, ~crashed, contended' = {}, NEW t \in Threads, Request(t)
  PROVE  /\ contended = {} /\ HashGet = Null /\ Owed = 0
         /\ Calm'
<1>0. TypeOK /\ call \in [Threads -> Calls]
  BY DEF IInv, TypeOK
<1>1. contended = {} /\ HashGet = Null /\ ~Busy(Other(t)) /\ call[t].pc = "idle"
  BY DEF Request
<1>2. Calm
  BY <1>1 DEF CalmInv
<1>3. walk.pc = "idle"
  <2>1. CASE t = "app"
    BY <1>1, <2>1 DEF Busy, Other
  <2>2. CASE t = "loop"
    BY <1>1, <2>2 DEF Request, HandlersInv, WalkInv
  <2>3. QED
    BY <2>1, <2>2 DEF Threads
<1>4. call[Other(t)].pc = "idle" /\ \A u \in Threads : call[u].pc = "idle"
  BY <1>1, OtherThread DEF Busy
<1>5. Owed = 0
  BY <1>1, <1>2, <1>3, <1>4 DEF Calm, CalmInv, WireInv
<1>6. Owed' = 0 /\ HashGet' = Null /\ UNCHANGED <<next, walk, crashed>>
  BY <1>0, <1>1, <1>5, OwedFacts DEF Request, HashGet, list
<1>7. \A u \in Threads : call'[u].pc = IF u = t THEN "link" ELSE "idle"
  <2> DEFINE new == [pc |-> "link", request |-> Len(asked) + 1, item |-> HashGet]
  <2>1. call' = [call EXCEPT ![t] = new]
    BY <1>1 DEF Request
  <2>2. new.pc = "link"
    OBVIOUS
  <2> HIDE DEF new
  <2>3. QED
    BY <1>0, <1>4, <2>1, <2>2
<1>8. \A u \in Threads : u # t => Other(u) = t
  BY OtherThread
<1>9. Calm'
  BY <1>2, <1>3, <1>6, <1>7, <1>8, OtherThread DEF Calm
<1>10. QED
  BY <1>1, <1>5, <1>9

\* Registering and sending a request that has the list to itself.
LEMMA StepStaysCalm ==
  ASSUME IInv, HandlersInv, WireInv, Calm, NEW t \in Threads, Step(t)
  PROVE  WireInv' /\ Calm'
<1>0. TypeOK /\ call \in [Threads -> Calls] /\ call[t] \in Calls
  BY DEF IInv, TypeOK
<1>1. Link(t) \/ Send(t)
  BY DEF Step, Calm, Compare, AppendItem
<1>2. /\ call[t].pc \in {"link", "send"} /\ call[Other(t)].pc = "idle" /\ walk.pc = "idle" /\ Owed = 0
      /\ \A u \in Threads : u # t => call[u].pc = "idle"
  BY <1>1, OtherThread DEF Calm, Link, Send
<1>3. CASE Link(t)
  <2> DEFINE r == call[t].request
             new == [call[t] EXCEPT !.pc = "send"]
  <2>1. HashGet = Null /\ r \in Pointers /\ r # Null
    BY <1>0, <1>3, FieldTypes DEF Link, Calm, HandlersInv, CallsInv
  <2>2. values' = <<r>> /\ call' = [call EXCEPT ![t] = new] /\ UNCHANGED <<wire, next, walk, crashed>>
    BY <1>0, <1>3, <2>1, HashFacts DEF Link, HandlersInv, ListInv
  <2>3. HashGet' = r /\ Owed' = 0
    BY <1>0, <1>2, <2>1, <2>2, HashFacts, OwedFacts DEF HandlersInv, ListInv
  <2>4. new.pc = "send"
    BY <1>0 DEF Calls
  <2> HIDE DEF new, r
  <2>5. \A u \in Threads : call'[u].pc = IF u = t THEN "send" ELSE "idle"
    BY <1>0, <1>2, <2>2, <2>4
  <2>6. WireInv'
    BY <2>3 DEF WireInv
  <2>7. Calm'
    BY <1>2, <2>1, <2>2, <2>3, <2>5, OtherThread DEF Calm
  <2>8. QED
    BY <2>6, <2>7
<1>4. CASE Send(t)
  <2>1. /\ call' = [call EXCEPT ![t] = Idle] /\ UNCHANGED <<list, walk, crashed>> /\ Idle.pc = "idle"
        /\ HashGet # Null
    BY <1>4 DEF Send, Idle, Calm
  <2> HIDE DEF Idle
  <2>2. \A u \in Threads : call'[u].pc = "idle"
    BY <1>0, <1>2, <2>1
  <2>3. HashGet' = HashGet /\ next' = next
    BY <2>1 DEF HashGet, list
  <2>4. (Owed' = IF connected THEN 1 ELSE 0) /\ connected' = connected
    BY <1>0, <1>2, <1>4, OwedFacts
  <2>5. WireInv'
    BY <2>4 DEF WireInv
  <2>6. Calm'
    BY <1>2, <2>1, <2>2, <2>3, <2>4 DEF Calm
  <2>7. QED
    BY <2>5, <2>6
<1>5. QED
  BY <1>1, <1>3, <1>4

\* The answer that is owed is handed to the one handler, which is deleted.
LEMMA LoopStaysCalm ==
  ASSUME IInv, HandlersInv, WireInv, Calm, Loop
  PROVE  WireInv' /\ Calm'
<1>0. TypeOK /\ call \in [Threads -> Calls] /\ walk \in Walks /\ UNCHANGED <<call, next>>
  BY DEF IInv, TypeOK, Loop, Receive, Fire, Return, Drop, Add, list
<1>1. CASE Receive
  <2>1. Owed # 0 /\ (Owed = 1 => Owed' = 0) /\ connected' = connected
    BY <1>0, <1>1, OwedFacts
  <2>2. connected /\ \A t \in Threads : call[t].pc = "idle"
    BY <2>1 DEF Calm, WireInv
  <2>3. walk.pc = "idle"
    BY <1>1 DEF Receive
  <2>4. HashGet # Null /\ Owed' = 0
    <3>1. Owed = (IF HashGet = Null THEN 0 ELSE 1)
      BY <2>2, <2>3 DEF Calm
    <3>2. QED
      BY <2>1, <3>1
  <2>5. walk'.pc = "fire" /\ HashGet' = HashGet /\ crashed' = crashed
    BY <1>1, <2>4 DEF Receive, HashGet, list, Rest
  <2>6. QED
    BY <1>0, <2>2, <2>4, <2>5 DEF Calm, WireInv
<1>2. CASE Loop /\ ~Receive
  <2>1. /\ walk.pc # "idle" /\ UNCHANGED wire /\ Owed = 0 /\ \A t \in Threads : call[t].pc = "idle"
    BY <1>2 DEF Loop, Fire, Return, Drop, Add, Calm
  <2>2. Owed' = 0 /\ WireInv'
    BY <1>0, <2>1, OwedFacts DEF WireInv
  <2>3. CASE Fire
    <3>1. walk.item \notin freed
      BY <2>3 DEF Fire, HandlersInv, WalkInv, ListInv
    <3>2. crashed' = crashed /\ walk'.pc = "callback" /\ HashGet' = HashGet
      BY <1>0, <2>3, <3>1 DEF Fire, Walks, HashGet, list
    <3>3. QED
      BY <1>0, <2>1, <2>2, <3>2 DEF Calm
  <2>4. CASE Return
    <3>1. HashGet # Null
      BY <2>4 DEF Return, HandlersInv, WalkInv
    <3>2. crashed' = crashed /\ walk'.pc = "drop"
      BY <1>0, <2>4, <3>1 DEF Return, Walks
    <3>3. QED
      BY <1>0, <2>1, <2>2, <3>2 DEF Calm
  <2>5. CASE Drop
    <3>1. values' = <<>>
      BY <1>0, <2>5, HashFacts DEF Drop, HandlersInv, ListInv
    <3>2. crashed' = crashed /\ walk'.pc = "add" /\ HashGet' = Null
      BY <1>0, <2>5, <3>1 DEF Drop, Walks, HashGet
    <3>3. QED
      BY <1>0, <2>1, <2>2, <3>2 DEF Calm
  <2>6. CASE Add
    <3>1. /\ walk.item # Null /\ walk.dropped = walk.item /\ walk.item \in Requests
          /\ next[walk.item] = Null /\ walk.next = Null
      BY <1>0, <2>6, FieldTypes DEF Add, HandlersInv, WalkInv, Calm
    <3>2. values' = HashAdd(Null) /\ walk' = Rest /\ crashed' = crashed
      BY <2>6, <3>1 DEF Add
    <3>3. values' = <<Null>> /\ Null \in Pointers
      BY <1>0, <3>2, HashFacts DEF HandlersInv, ListInv, Pointers
    <3>4. HashGet' = Null
      BY <1>0, <3>3, HashFacts DEF HandlersInv, ListInv
    <3>5. walk'.pc = "idle"
      BY <3>2 DEF Rest
    <3>6. QED
      BY <1>0, <2>1, <2>2, <3>2, <3>4, <3>5 DEF Calm
  <2>7. QED
    BY <1>2, <2>3, <2>4, <2>5, <2>6 DEF Loop
<1>3. QED
  BY <1>1, <1>2

\* Every step stays calm unless a request meets something.
LEMMA NextCalmInv == IInv /\ HandlersInv /\ CalmInv /\ [Next]_vars => CalmInv'
<1> SUFFICES ASSUME IInv, HandlersInv, CalmInv, [Next]_vars PROVE CalmInv'
  OBVIOUS
<1>0. TypeOK
  BY DEF IInv
<1>1. contended' = {} => contended = {}
  BY DEF Next, Request, Step, Compare, Link, AppendItem, Send, Loop, Receive, Fire, Return, Drop, Add,
         SignUp, Publish, ListUsers, Lose, vars
<1>2. WireInv'
  <2>1. CASE UNCHANGED wire
    <3>1. Owed' = Owed /\ connected' = connected
      BY <1>0, <2>1, OwedFacts
    <3>2. QED
      BY <3>1 DEF CalmInv, WireInv
  <2>2. ASSUME NEW t \in Threads, Send(t) PROVE WireInv'
    BY <1>0, <2>2, OwedFacts DEF CalmInv, WireInv
  <2>3. CASE Receive \/ ListUsers \/ Lose
    <3>1. /\ Receive => Owed # 0 /\ (Owed = 1 => Owed' = 0) /\ connected' = connected
          /\ ListUsers => Owed' = Owed /\ connected' = connected
          /\ Lose => Owed' = 0
      BY <1>0, OwedFacts
    <3>2. QED
      BY <2>3, <3>1 DEF CalmInv, WireInv
  <2>4. UNCHANGED wire \/ (\E t \in Threads : Send(t)) \/ Receive \/ ListUsers \/ Lose
    BY DEF Next, Request, Step, Compare, Link, AppendItem, Loop, Fire, Return, Drop, Add,
           SignUp, Publish, vars
  <2>5. QED
    BY <2>1, <2>2, <2>3, <2>4
<1>3. ASSUME contended' = {} PROVE Calm'
  <2>0. contended = {} /\ WireInv /\ Calm
    BY <1>1, <1>3 DEF CalmInv
  <2>1. ASSUME NEW t \in Threads, Request(t) PROVE Calm'
    BY <1>3, <2>0, <2>1, RequestStaysCalm DEF Calm
  <2>2. ASSUME NEW t \in Threads, Step(t) PROVE Calm'
    BY <2>0, <2>2, StepStaysCalm
  <2>3. CASE Loop
    BY <2>0, <2>3, LoopStaysCalm
  <2>4. CASE SignUp \/ (\E key \in Keys : Publish(key)) \/ ListUsers \/ UNCHANGED vars
    <3>1. UNCHANGED <<crashed, list, call, walk>>
      BY <2>4 DEF SignUp, Publish, ListUsers, vars
    <3>2. Owed' = Owed /\ connected' = connected
      BY <1>0, <2>4, OwedFacts DEF SignUp, Publish, vars
    <3>3. QED
      BY <2>0, <3>1, <3>2 DEF Calm, HashGet, list
  <2>5. CASE Lose
    <3>1. UNCHANGED <<crashed, list, call, walk>>
      BY <2>5 DEF Lose
    <3>2. Owed' = 0 /\ ~connected'
      BY <1>0, <2>5, OwedFacts
    <3>3. QED
      BY <2>0, <3>1, <3>2 DEF Calm, HashGet, list
  <2>6. QED
    BY <2>1, <2>2, <2>3, <2>4, <2>5 DEF Next
<1>4. QED
  BY <1>2, <1>3 DEF CalmInv

\* Nothing is owed or under way at first.
LEMMA InitCalmInv == Init => CalmInv
<1> SUFFICES ASSUME Init PROVE CalmInv
  OBVIOUS
<1>1. Owed = 0 /\ HashGet = Null /\ walk.pc = "idle" /\ \A t \in Threads : call[t].pc = "idle"
  BY EmptySeq DEF Init, Owed, HashGet, Rest, Idle
<1>2. ~crashed /\ \A r \in Requests : next[r] = Null
  BY DEF Init
<1>3. QED
  BY <1>1, <1>2 DEF CalmInv, WireInv, Calm

-----------------------------------------------------------------------------
(* The answer a request gets is no older than the request.                   *)

\* No request before r has met another one or an answer.
EarlyAlone(r) == \A q \in contended : q >= r

\* The request found a handler, and its own is no more in the list than it was told
\* anything.
Stillborn(r) ==
  /\ answers[r] = <<>> /\ HashGet # r /\ \A i \in Requests : next[i] # r
  /\ \A t \in Threads : call[t].request = r => call[t].pc \notin {"link", "append"}
  /\ walk.pc # "idle" => walk.item # r

\* No answer that is under way, at hand or told to r is older than r.
Fresh(r) ==
  /\ \A i \in 1 .. Len(toClient) : toClient[i].at >= asked[r]
  /\ walk.pc = "idle" \/ walk.stanza.at >= asked[r] \/ (walk.pc = "add" /\ walk.next = Null)
  /\ answers[r] # <<>> => answers[r][1].at >= asked[r]

FreshInv ==
  /\ \A q \in contended : q <= Len(asked)
  /\ \A r \in Requests : r <= Len(asked) =>
       asked[r] <= Len(profiles) /\ (EarlyAlone(r) => Stillborn(r) \/ Fresh(r))

\* A request whose item is not in the list has no way to get there.
LEMMA StillbornStays ==
  ASSUME IInv, HandlersInv, [Next]_vars, NEW r \in Requests, r <= Len(asked), Stillborn(r)
  PROVE  Stillborn(r)'
<1>0. /\ TypeOK /\ call \in [Threads -> Calls] /\ walk \in Walks /\ next \in [Requests -> Pointers]
      /\ r \in Nat /\ r # Null /\ Len(asked) \in Nat
  BY FieldTypes DEF IInv, TypeOK
<1>1. ASSUME NEW t \in Threads, Request(t) PROVE Stillborn(r)'
  <2> DEFINE new == [pc |-> IF HashGet = Null THEN "link" ELSE "compare", request |-> Len(asked) + 1, item |-> HashGet]
  <2>1. call' = [call EXCEPT ![t] = new] /\ UNCHANGED <<answers, values, next, walk>>
    BY <1>1 DEF Request, list
  <2>2. new.request # r
    BY <1>0
  <2> HIDE DEF new
  <2>3. \A u \in Threads : call'[u] = IF u = t THEN new ELSE call[u]
    BY <1>0, <2>1
  <2>4. QED
    BY <2>1, <2>2, <2>3 DEF Stillborn, HashGet
<1>2. ASSUME NEW t \in Threads, Compare(t) \/ Send(t) PROVE Stillborn(r)'
  <2>1. UNCHANGED <<answers, values, next, walk>>
    BY <1>2 DEF Compare, Send, list
  <2>2. \A u \in Threads : call'[u] = call[u] \/ call'[u].pc \in {"idle", "send"}
    BY <1>0, <1>2 DEF Compare, Send, Idle, Calls
  <2>3. QED
    BY <2>1, <2>2 DEF Stillborn, HashGet
<1>3. ASSUME NEW t \in Threads, Link(t) PROVE Stillborn(r)'
  <2>1. call[t].request # r /\ call[t].request \in Pointers
    BY <1>0, <1>3, FieldTypes DEF Link, Stillborn
  <2>2. UNCHANGED <<answers, next, walk>>
    BY <1>3 DEF Link
  <2>3. HashGet' # r
    <3>1. CASE HashGet = Null
      <4>1. values' = <<call[t].request>>
        BY <1>0, <1>3, <2>1, <3>1, HashFacts DEF Link, HandlersInv, ListInv
      <4>2. QED
        BY <1>0, <2>1, <4>1, HashFacts DEF HandlersInv, ListInv
    <3>2. CASE HashGet # Null
      BY <1>3, <3>2 DEF Link, HashGet, Stillborn
    <3>3. QED
      BY <3>1, <3>2
  <2>4. \A u \in Threads : call'[u] = call[u] \/ call'[u].request # r
    BY <1>0, <1>3, <2>1 DEF Link, Calls
  <2>5. QED
    BY <2>2, <2>3, <2>4 DEF Stillborn
<1>4. ASSUME NEW t \in Threads, AppendItem(t) PROVE Stillborn(r)'
  <2>1. call[t].request # r
    BY <1>4 DEF AppendItem, Stillborn
  <2>2. UNCHANGED <<answers, values, walk>>
    BY <1>4 DEF AppendItem
  <2>3. \A i \in Requests : next'[i] # r
    BY <1>0, <1>4, <2>1 DEF AppendItem, Stillborn
  <2>4. \A u \in Threads : call'[u] = call[u] \/ call'[u].request # r
    BY <1>0, <1>4, <2>1 DEF AppendItem, Calls
  <2>5. QED
    BY <2>2, <2>3, <2>4 DEF Stillborn, HashGet
<1>5. CASE Receive \/ Return
  <2>1. UNCHANGED <<answers, values, next, call>>
    BY <1>5 DEF Receive, Return, list
  <2>2. walk'.pc # "idle" => walk'.item # r
    BY <1>0, <1>5 DEF Receive, Return, Rest, Walks, Stillborn
  <2>3. QED
    BY <2>1, <2>2 DEF Stillborn, HashGet
<1>6. CASE Fire
  <2>1. UNCHANGED <<values, next, call>> /\ walk.item # r
    BY <1>6 DEF Fire, list, Stillborn
  <2>2. answers'[r] = answers[r]
    BY <1>0, <1>6, <2>1 DEF Fire, TypeOK
  <2>3. walk'.item = walk.item
    BY <1>0, <1>6 DEF Fire, Walks
  <2>4. QED
    BY <2>1, <2>2, <2>3 DEF Stillborn, HashGet
<1>7. CASE Drop
  <2>1. UNCHANGED <<answers, next, call>> /\ walk.item # r
    BY <1>7 DEF Drop, Stillborn
  <2>2. values' = <<>> /\ walk'.item = walk.item
    BY <1>0, <1>7, HashFacts DEF Drop, Walks, HandlersInv, ListInv
  <2>3. HashGet' = Null
    BY <2>2 DEF HashGet
  <2>4. QED
    BY <1>0, <2>1, <2>2, <2>3 DEF Stillborn
<1>8. CASE Add
  <2> DEFINE n == next[walk.item]
  <2>1. UNCHANGED <<answers, next, call>> /\ walk.dropped = walk.item /\ walk.item # Null /\ walk.item \in Requests
    BY <1>0, <1>8, FieldTypes DEF Add, HandlersInv, WalkInv
  <2>2. n \in Pointers /\ n # r
    BY <1>0, <2>1 DEF Stillborn
  <2>3. values' = <<n>>
    BY <1>0, <1>8, <2>1, <2>2, HashFacts DEF Add, HandlersInv, ListInv
  <2>4. HashGet' # r
    BY <1>0, <2>2, <2>3, HashFacts DEF HandlersInv, ListInv
  <2>5. walk'.pc # "idle" => walk'.item = n
    BY <1>0, <1>8 DEF Add, Rest, Walks, HandlersInv, WalkInv
  <2> HIDE DEF n
  <2>6. QED
    BY <2>1, <2>2, <2>4, <2>5 DEF Stillborn
<1>9. CASE SignUp \/ (\E key \in Keys : Publish(key)) \/ ListUsers \/ Lose \/ UNCHANGED vars
  BY <1>9 DEF SignUp, Publish, ListUsers, Lose, vars, list, Stillborn, HashGet
<1>10. QED
  BY <1>1, <1>2, <1>3, <1>4, <1>5, <1>6, <1>7, <1>8, <1>9 DEF Next, Step, Loop

\* What was asked stays what it was.
LEMMA AskedStays ==
  ASSUME TypeOK, [Next]_vars
  PROVE  /\ Len(asked) \in Nat /\ Len(asked') \in Nat /\ Len(profiles) \in Nat
         /\ Len(profiles') \in Nat /\ Len(profiles) <= Len(profiles')
         /\ \A r \in Requests : r <= Len(asked) => /\ r <= Len(asked') /\ asked'[r] = asked[r]
                                                   /\ asked[r] \in Nat
         /\ \/ UNCHANGED asked
            \/ /\ \E t \in Threads : Request(t)
               /\ Len(asked') = Len(asked) + 1 /\ asked'[Len(asked')] = Len(profiles)
<1>0. asked \in Seq(Nat) /\ profiles \in Seq(Seq(Byte)) /\ Len(asked) \in Nat /\ Len(profiles) \in Nat
  BY DEF TypeOK
<1>1. /\ Len(profiles') \in Nat /\ Len(profiles) <= Len(profiles')
  <2>1. \/ UNCHANGED profiles
        \/ profiles' = Append(profiles, <<>>)
        \/ \E key \in Keys : profiles' = Append(profiles, key)
    BY DEF Next, Request, Step, Compare, Link, AppendItem, Send, Loop, Receive, Fire, Return, Drop, Add,
           SignUp, Publish, ListUsers, Lose, vars, server
  <2>2. \A p \in Seq(Byte) : Len(Append(profiles, p)) = Len(profiles) + 1
    BY <1>0, AppendProperties
  <2>3. <<>> \in Seq(Byte) /\ \A key \in Keys : key \in Seq(Byte)
    BY ActiveUsersAssumption
  <2>4. QED
    BY <1>0, <2>1, <2>2, <2>3
<1>2. \/ UNCHANGED asked
      \/ (\E t \in Threads : Request(t)) /\ asked' = Append(asked, Len(profiles))
  BY DEF Next, Request, Step, Compare, Link, AppendItem, Send, Loop, Receive, Fire, Return, Drop, Add,
         SignUp, Publish, ListUsers, Lose, vars
<1>3. \A r \in Requests : r \in Nat /\ r # 0
  BY ActiveUsersAssumption DEF Requests
<1>4. \A r \in Requests : r <= Len(asked) => r \in 1 .. Len(asked) /\ asked[r] \in Nat
  BY <1>0, <1>3
<1>5. CASE UNCHANGED asked
  BY <1>0, <1>1, <1>4, <1>5
<1>6. CASE (\E t \in Threads : Request(t)) /\ asked' = Append(asked, Len(profiles))
  <2> DEFINE v == Len(profiles)
  <2>1. /\ Len(asked') = Len(asked) + 1 /\ asked'[Len(asked) + 1] = v
        /\ \A i \in 1 .. Len(asked) : asked'[i] = asked[i]
    <3>1. v \in Nat /\ asked' = Append(asked, v)
      BY <1>0, <1>6
    <3> HIDE DEF v
    <3>2. QED
      BY <1>0, <3>1, AppendProperties
  <2> HIDE DEF v
  <2>2. \A r \in Requests : r <= Len(asked) => r <= Len(asked') /\ asked'[r] = asked[r] /\ asked[r] \in Nat
    BY <1>0, <1>3, <1>4, <2>1
  <2>3. Len(asked') \in Nat /\ asked'[Len(asked')] = v
    BY <1>0, <2>1
  <2>4. QED
    BY <1>0, <1>1, <1>6, <2>1, <2>2, <2>3 DEF v
<1>7. QED
  BY <1>2, <1>5, <1>6

\* The server answers with what the entry is like by then, and answers stay in order.
LEMMA FreshStays ==
  ASSUME IInv, HandlersInv, [Next]_vars, NEW r \in Requests, r <= Len(asked),
         asked[r] <= Len(profiles), Fresh(r)
  PROVE  Fresh(r)'
<1>0. /\ TypeOK /\ walk \in Walks /\ toClient \in Seq(Answers) /\ asked'[r] = asked[r] /\ asked[r] \in Nat
      /\ entry \in Entries /\ Len(profiles) \in Nat
  BY AskedStays DEF IInv, TypeOK
<1>1. \A i \in 1 .. Len(toClient') : toClient'[i].at >= asked[r]
  <2>1. CASE UNCHANGED toClient
    BY <2>1 DEF Fresh
  <2>2. CASE Receive
    <3>1. toClient # <<>> /\ toClient' = Tail(toClient)
      BY <2>2 DEF Receive
    <3>2. /\ Len(toClient') = Len(toClient) - 1 /\ Len(toClient) \in Nat
          /\ \A i \in 1 .. Len(toClient') : toClient'[i] = toClient[i + 1]
      BY <1>0, <3>1, HeadTailProperties
    <3> DEFINE n == Len(toClient)
    <3>3. ASSUME NEW i \in 1 .. Len(toClient') PROVE i + 1 \in 1 .. n
      BY <3>2
    <3>4. \A i \in 1 .. n : toClient[i].at >= asked[r]
      BY DEF Fresh
    <3> HIDE DEF n
    <3>5. QED
      BY <3>2, <3>3, <3>4
  <2>3. CASE ListUsers
    <3> DEFINE answer == [entry |-> entry, at |-> Len(profiles)]
               n == Len(toClient)
    <3>1. toClient' = Append(toClient, answer) /\ answer \in Answers /\ answer.at >= asked[r]
      BY <1>0, <2>3 DEF ListUsers, Answers
    <3> HIDE DEF answer
    <3>2. /\ Len(toClient') = n + 1 /\ n \in Nat /\ toClient'[n + 1] = answer
          /\ \A i \in 1 .. n : toClient'[i] = toClient[i]
      BY <1>0, <3>1, AppendProperties
    <3>3. \A i \in 1 .. n : toClient[i].at >= asked[r]
      BY DEF Fresh
    <3> HIDE DEF n
    <3>4. ASSUME NEW i \in 1 .. Len(toClient') PROVE i \in 1 .. n \/ i = n + 1
      BY <3>2
    <3>5. QED
      BY <3>1, <3>2, <3>3, <3>4
  <2>4. CASE Lose
    <3>1. toClient' = <<>>
      BY <2>4 DEF Lose
    <3>2. \A i \in 1 .. Len(toClient') : FALSE
      BY <3>1, EmptySeq
    <3>3. QED
      BY <3>2
  <2>5. QED
    BY <2>1, <2>2, <2>3, <2>4 DEF Next, Request, Step, Compare, Link, AppendItem, Send, Loop, Fire,
         Return, Drop, Add, SignUp, Publish, vars, wire
<1>2. walk'.pc = "idle" \/ walk'.stanza.at >= asked[r] \/ (walk'.pc = "add" /\ walk'.next = Null)
  <2>1. CASE UNCHANGED walk
    BY <2>1 DEF Fresh
  <2>2. CASE Receive
    <3>1. toClient # <<>> /\ Len(toClient) \in Nat /\ Head(toClient) = toClient[1]
      BY <1>0, <2>2 DEF Receive
    <3>2. 1 \in 1 .. Len(toClient)
      BY <1>0, <3>1, EmptySeq
    <3>3. Head(toClient).at >= asked[r]
      BY <3>1, <3>2 DEF Fresh
    <3>4. UNCHANGED walk \/ walk'.stanza = Head(toClient)
      BY <2>2 DEF Receive, Rest
    <3>5. QED
      BY <2>1, <3>3, <3>4
  <2>3. CASE Fire \/ Return \/ Drop
    <3>1. UNCHANGED walk \/ walk'.stanza = walk.stanza
      BY <1>0, <2>3 DEF Fire, Return, Drop, Walks
    <3>2. walk.pc \in {"fire", "callback", "drop"}
      BY <2>3 DEF Fire, Return, Drop
    <3>3. QED
      BY <2>1, <3>1, <3>2 DEF Fresh
  <2>4. CASE Add
    <3>1. walk'.pc = "idle" \/ (walk.next # Null /\ walk'.stanza = walk.stanza)
      BY <1>0, <2>4 DEF Add, Rest, Walks
    <3>2. walk.pc = "add"
      BY <2>4 DEF Add
    <3>3. QED
      BY <3>1, <3>2 DEF Fresh
  <2>5. QED
    BY <2>1, <2>2, <2>3, <2>4 DEF Next, Request, Step, Compare, Link, AppendItem, Send, Loop,
         SignUp, Publish, ListUsers, Lose, vars
<1>3. answers'[r] # <<>> => answers'[r][1].at >= asked[r]
  <2>1. CASE answers'[r] = answers[r]
    BY <2>1 DEF Fresh
  <2>2. CASE Fire /\ walk.item = r /\ walk.item \notin freed
    <3> DEFINE All == [users : Policies \cup {Absent}, at : Nat]
               told == [users |-> Parsed(walk.stanza.entry), at |-> walk.stanza.at]
    <3>1. answers \in [Requests -> Seq(All)] /\ answers' = [answers EXCEPT ![r] = Append(@, told)]
      BY <1>0, <2>2 DEF Fire, TypeOK
    <3>2. answers[r] = <<>>
      BY <2>2 DEF Fire, HandlersInv, WalkInv
    <3>3. told.at >= asked[r]
      BY <2>2 DEF Fire, Fresh
    <3> HIDE DEF All, told
    <3>4. answers'[r] = Append(<<>>, told)
      BY <3>1, <3>2
    <3>5. answers'[r][1] = told
      BY <3>4
    <3>6. QED
      BY <3>3, <3>5
  <2>3. CASE Fire /\ (walk.item # r \/ walk.item \in freed)
    BY <1>0, <2>1, <2>3 DEF Fire, TypeOK
  <2>4. QED
    BY <2>1, <2>2, <2>3 DEF Next, Request, Step, Compare, Link, AppendItem, Send, Loop, Receive,
         Return, Drop, Add, SignUp, Publish, ListUsers, Lose, vars
<1>4. QED
  BY <1>0, <1>1, <1>2, <1>3 DEF Fresh

\* A request before which none has met anything finds a handler, or nothing at all.
LEMMA NewRequestIsFresh ==
  ASSUME IInv, HandlersInv, CalmInv, FreshInv, ~crashed, NEW t \in Threads, Request(t),
         NEW r \in Requests, r = Len(asked) + 1, EarlyAlone(r)'
  PROVE  Stillborn(r)' \/ Fresh(r)'
<1>0. /\ TypeOK /\ call \in [Threads -> Calls] /\ walk \in Walks /\ toClient \in Seq(Answers)
      /\ Len(asked) \in Nat /\ r \in Nat /\ r # Null
  BY FieldTypes DEF IInv, TypeOK
<1>1. UNCHANGED <<wire, answers, list, walk>> /\ HashGet' = HashGet
  BY DEF Request, HashGet, list
<1>2. Registering(r) /\ Unused(r)
  <2>1. Registering(r)
    BY <1>0 DEF Registering
  <2>2. QED
    BY <2>1 DEF HandlersInv, CallsInv
<1>3. contended = {} /\ call[Other(t)].request = Null
  <2> DEFINE q == call[Other(t)].request
  <2>1. contended \subseteq contended' /\ (q # Null => q \in contended')
    BY DEF Request
  <2>2. \A p \in contended' : p >= r
    BY DEF EarlyAlone
  <2>3. \A p \in contended : p <= Len(asked) /\ p \in Nat
    <3>1. \A p \in contended : p \in Requests
      BY <1>0 DEF TypeOK
    <3>2. \A p \in Requests : p \in Nat
      BY DEF Requests
    <3>3. QED
      BY <3>1, <3>2 DEF FreshInv
  <2>4. q <= Len(asked) /\ q \in Nat
    BY <1>0, FieldTypes, OtherThread DEF HandlersInv, CallsInv
  <2> HIDE DEF q
  <2>5. contended = {}
    BY <1>0, <2>1, <2>2, <2>3
  <2>6. q = Null
    BY <1>0, <2>1, <2>2, <2>4
  <2>7. QED
    BY <2>5, <2>6 DEF q
<1>4. CASE HashGet # Null
  <2> DEFINE new == [pc |-> "compare", request |-> Len(asked) + 1, item |-> HashGet]
  <2>1. call' = [call EXCEPT ![t] = new] /\ new.pc = "compare"
    BY <1>4 DEF Request
  <2> HIDE DEF new
  <2>2. \A u \in Threads : call'[u] = IF u = t THEN new ELSE call[u]
    BY <1>0, <2>1
  <2>3. \A u \in Threads : call[u].request # r
    BY <1>0, FieldTypes DEF HandlersInv, CallsInv
  <2>4. walk.pc # "idle" => walk.item # r
    BY <1>0, <1>2, FieldTypes DEF HandlersInv, WalkInv, Unused
  <2>5. Stillborn(r)'
    BY <1>1, <1>2, <2>1, <2>2, <2>3, <2>4 DEF Unused, Stillborn, list
  <2>6. QED
    BY <2>5
<1>5. CASE HashGet = Null
  <2>1. Calm
    BY <1>3 DEF CalmInv
  <2>2. walk.pc = "idle" \/ (walk.pc = "add" /\ walk.next = Null)
    <3>1. walk.pc \notin {"fire", "callback", "drop"}
      BY <1>5 DEF HandlersInv, WalkInv
    <3>2. ASSUME walk.pc = "add" PROVE walk.next = Null
      BY <1>0, <2>1, <3>2, FieldTypes DEF HandlersInv, WalkInv, Calm
    <3>3. QED
      BY <1>0, <3>1, <3>2, FieldTypes
  <2>3. \A u \in Threads : call[u].pc = "idle"
    <3>1. call[t].pc = "idle"
      BY DEF Request
    <3>2. call[Other(t)].pc = "idle"
      BY <1>3, OtherThread DEF HandlersInv, CallsInv
    <3>3. QED
      BY <3>1, <3>2, OtherThread
  <2>4. Owed = 0
    BY <1>5, <2>1, <2>3 DEF Calm, CalmInv, WireInv
  <2>5. \A i \in 1 .. Len(toClient) : FALSE
    <3> DEFINE n == Len(toClient)
    <3>1. toServer \in Nat /\ n \in Nat /\ toServer + n = 0
      BY <1>0, <2>4 DEF TypeOK, Owed
    <3> HIDE DEF n
    <3>2. n = 0
      BY <3>1
    <3>3. QED
      BY <3>2 DEF n
  <2>6. Fresh(r)'
    BY <1>1, <1>2, <2>2, <2>5 DEF Fresh, Unused, wire
  <2>7. QED
    BY <2>6
<1>6. QED
  BY <1>4, <1>5

\* Every step keeps the answers fresh.
LEMMA NextFreshInv == IInv /\ HandlersInv /\ CalmInv /\ FreshInv /\ [Next]_vars => FreshInv'
<1> SUFFICES ASSUME IInv, HandlersInv, CalmInv, FreshInv, [Next]_vars PROVE FreshInv'
  OBVIOUS
<1>0. TypeOK /\ \A r \in Requests : r \in Nat
  BY DEF IInv, Requests
<1>1. \A q \in contended' : q <= Len(asked')
  <2>1. ASSUME NEW q \in contended PROVE q <= Len(asked')
    <3>1. q \in Requests
      BY <1>0 DEF TypeOK
    <3>2. QED
      BY <1>0, <3>1, AskedStays DEF FreshInv
  <2>2. \A t \in Threads : call[t].request <= Len(asked') /\ call[t].request \in Nat
    <3>1. \A t \in Threads : call[t].request \in Nat /\ call[t].request <= Len(asked)
      BY <1>0, FieldTypes DEF HandlersInv, CallsInv
    <3>2. Len(asked) <= Len(asked') /\ Len(asked) \in Nat /\ Len(asked') \in Nat
      BY <1>0, AskedStays
    <3>3. QED
      BY <3>1, <3>2
  <2>3. ASSUME NEW t \in Threads, Request(t) PROVE \A q \in contended' : q <= Len(asked')
    <3>1. Len(asked') = Len(asked) + 1 /\ Len(asked) \in Nat
      BY <1>0, <2>3 DEF Request, TypeOK
    <3>2. \A q \in contended' : q \in contended \/ q = Len(asked) + 1 \/ q = call[Other(t)].request
      BY <2>3 DEF Request
    <3>3. QED
      BY <2>1, <2>2, <3>1, <3>2, OtherThread
  <2>4. CASE Receive
    <3>1. \A q \in contended' : q \in contended \/ q = call["app"].request
      BY <2>4 DEF Receive
    <3>2. QED
      BY <2>1, <2>2, <3>1 DEF Threads
  <2>5. CASE UNCHANGED contended
    BY <2>1, <2>5
  <2>6. QED
    BY <2>3, <2>4, <2>5 DEF Next, Step, Compare, Link, AppendItem, Send, Loop, Fire,
         Return, Drop, Add, SignUp, Publish, ListUsers, Lose, vars
<1>2. contended \subseteq contended'
  BY DEF Next, Request, Step, Compare, Link, AppendItem, Send, Loop, Receive, Fire, Return, Drop, Add,
         SignUp, Publish, ListUsers, Lose, vars
<1>3. ASSUME NEW r \in Requests, r <= Len(asked')
      PROVE  asked'[r] <= Len(profiles') /\ (EarlyAlone(r)' => Stillborn(r)' \/ Fresh(r)')
  <2>1. CASE r <= Len(asked)
    <3>1. asked[r] <= Len(profiles) /\ (EarlyAlone(r) => Stillborn(r) \/ Fresh(r))
      BY <2>1 DEF FreshInv
    <3>2. asked'[r] <= Len(profiles')
      BY <1>0, <2>1, <3>1, AskedStays
    <3>3. EarlyAlone(r)' => EarlyAlone(r)
      BY <1>2 DEF EarlyAlone
    <3>4. QED
      BY <2>1, <3>1, <3>2, <3>3, StillbornStays, FreshStays
  <2>2. CASE ~(r <= Len(asked))
    <3>1. PICK t \in Threads : Request(t)
      BY <1>0, <1>3, <2>2, AskedStays
    <3>2. r = Len(asked) + 1 /\ r = Len(asked') /\ asked'[r] = Len(profiles)
      BY <1>0, <1>3, <2>2, AskedStays
    <3>3. asked'[r] <= Len(profiles')
      BY <1>0, <3>2, AskedStays
    <3>4. ~crashed
      <4>1. asked' # asked
        BY <1>3, <2>2
      <4>2. QED
        BY <4>1 DEF Next, vars
    <3>5. QED
      BY <3>1, <3>2, <3>3, <3>4, NewRequestIsFresh
  <2>3. QED
    BY <2>1, <2>2
<1>4. QED
  BY <1>1, <1>3 DEF FreshInv

\* Nothing was asked at first.
LEMMA InitFreshInv == Init => FreshInv
<1> SUFFICES ASSUME Init PROVE FreshInv
  OBVIOUS
<1>1. contended = {} /\ Len(asked) = 0
  BY EmptySeq DEF Init
<1>2. \A r \in Requests : ~(r <= Len(asked))
  BY <1>1, ActiveUsersAssumption DEF Requests
<1>3. QED
  BY <1>1, <1>2 DEF FreshInv

\* The inductive invariant holds of the specification.
LEMMA RequestsInvariance == Spec => [](IInv /\ HandlersInv /\ CalmInv /\ FreshInv)
<1>1. Init => IInv /\ HandlersInv /\ CalmInv /\ FreshInv
  BY InitInv, InitHandlersInv, InitCalmInv, InitFreshInv
<1>2. IInv /\ HandlersInv /\ CalmInv /\ FreshInv /\ [Next]_vars => (HandlersInv /\ CalmInv /\ FreshInv)'
  BY NextHandlersInv, NextCalmInv, NextFreshInv
<1>3. QED
  BY <1>1, <1>2, Invariance, PTL DEF Spec

\* No thread uses an item that was freed, as long as no request of the list has met
\* another one or an answer.
THEOREM SafeAlone == Spec => []NoCrashAlone
<1>1. IInv /\ HandlersInv /\ CalmInv /\ FreshInv => NoCrashAlone
  BY DEF CalmInv, Calm, NoCrashAlone
<1>2. QED
  BY <1>1, RequestsInvariance, PTL

\* The callback of a request is called once at most, with no older answer than the
\* request unless an earlier one has met something, and until then there is a handler
\* exactly while an answer is owed.
THEOREM AnswersMatch == Spec => []AnswersMatchRequests
<1>1. ASSUME IInv, HandlersInv, CalmInv, FreshInv PROVE AnswersMatchRequests
  <2>1. AnsweredOnce
    BY <1>1 DEF HandlersInv
  <2>2. OneAnswerOwed
    BY <1>1 DEF CalmInv, Calm, Owed, OneAnswerOwed, Looping, Threads
  <2>3. FreshUnlessContended
    <3> SUFFICES ASSUME NEW r \in Requests, answers[r] # <<>>, answers[r][1].at < asked[r],
                        \A q \in contended : ~(q < r)
                 PROVE  FALSE
      BY DEF FreshUnlessContended
    <3>0. TypeOK /\ Len(asked) \in Nat /\ asked \in Seq(Nat) /\ r \in Nat /\ r # 0
      <4>1. TypeOK /\ asked \in Seq(Nat)
        BY <1>1 DEF IInv, TypeOK
      <4>2. r \in Nat /\ r # 0
        BY ActiveUsersAssumption DEF Requests
      <4>3. QED
        BY <4>1, <4>2
    <3>1. ~Registering(r)
      BY <1>1 DEF HandlersInv, CallsInv, Unused
    <3>2. r <= Len(asked)
      BY <3>0, <3>1 DEF Registering
    <3>3. EarlyAlone(r)
      <4>1. \A q \in contended : q \in Nat
        BY <3>0 DEF TypeOK, Requests
      <4>2. QED
        BY <3>0, <4>1 DEF EarlyAlone
    <3>4. answers[r][1].at >= asked[r]
      BY <1>1, <3>2, <3>3 DEF FreshInv, Stillborn, Fresh
    <3>5. answers[r][1].at \in Nat
      <4> DEFINE All == [users : Policies \cup {Absent}, at : Nat]
      <4>1. answers[r] \in Seq(All)
        BY <3>0 DEF TypeOK
      <4>3. 1 \in 1 .. Len(answers[r])
        <5> DEFINE n == Len(answers[r])
        <5>1. n \in Nat /\ n # 0
          BY <4>1, EmptySeq
        <5> HIDE DEF n
        <5>2. 1 \in 1 .. n
          BY <5>1
        <5>3. QED
          BY <5>2 DEF n
      <4>2. \A a \in All : a.at \in Nat
        OBVIOUS
      <4> HIDE DEF All
      <4>4. answers[r][1] \in All
        BY <4>1, <4>3
      <4>5. QED
        BY <4>2, <4>4
    <3>6. asked[r] \in Nat
      BY <3>0, <3>2
    <3>7. QED
      BY <3>4, <3>5, <3>6
  <2>4. QED
    BY <2>1, <2>2, <2>3 DEF AnswersMatchRequests
<1>2. QED
  BY <1>1, RequestsInvariance, PTL
=============================================================================
