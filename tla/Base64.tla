------------------------------- MODULE Base64 -------------------------------
(***************************************************************************)
(* Keys and contents of messages travel as Base64 text (detail/base64.cpp). *)
(* A character of the alphabet is its position in Base64Characters, "=" is   *)
(* Pad.  The masks and shifts of the code are divisions and remainders.     *)
(***************************************************************************)
EXTENDS Naturals, Sequences

Byte    == 0 .. 255
Sextet  == 0 .. 63
Pad     == 64
NoMatch == 255     \* what find leaves in an unsigned char for a character it does not find

At(seq, k, other) == IF k <= Len(seq) THEN seq[k] ELSE other

\* Character j, counted from 0, of the four that stand for group g of three bytes,
\* which a last group is filled up to with zeros.
Char(data, g, j) ==
  LET byte(i) == At(data, 3 * g + i, 0) IN
  CASE j = 0 -> byte(1) \div 4
    [] j = 1 -> (byte(1) % 4) * 16 + byte(2) \div 16
    [] j = 2 -> (byte(2) % 16) * 4 + byte(3) \div 64
    [] j = 3 -> byte(3) % 64

\* Base64::Encode: a last group of i < 3 bytes gives i + 1 characters, and padding.
Encode(data) ==
  [k \in 1 .. 4 * ((Len(data) + 2) \div 3) |->
     LET g == (k - 1) \div 4
         j == (k - 1) % 4
     IN  IF 3 * g + j <= Len(data) THEN Char(data, g, j) ELSE Pad]

\* How far Base64::Decode reads: to the first character that is not of the alphabet.
Readable(text) ==
  CHOOSE m \in 0 .. Len(text) :
    /\ \A k \in 1 .. m : text[k] \in Sextet
    /\ m = Len(text) \/ text[m + 1] \notin Sextet

\* Byte j of the three that group g of four characters stands for; a last group is
\* filled up with characters that are not found.
ByteAt(chars, g, j) ==
  LET sextet(i) == At(chars, 4 * g + i, NoMatch) IN
  CASE j = 0 -> (sextet(1) * 4 + ((sextet(2) \div 16) % 4)) % 256
    [] j = 1 -> (sextet(2) % 16) * 16 + ((sextet(3) \div 4) % 16)
    [] j = 2 -> ((sextet(3) % 4) * 64 + sextet(4)) % 256

\* Variant: the last group gives all its bytes.
DecodeWhole(text) ==
  LET chars == SubSeq(text, 1, Readable(text)) IN
  [k \in 1 .. 3 * ((Len(chars) + 3) \div 4) |-> ByteAt(chars, (k - 1) \div 3, ((k - 1) % 3))]

\* Base64::Decode: a last group of i < 4 characters gives i - 1 bytes.
Decode(text) ==
  LET chars == SubSeq(text, 1, Readable(text))
      last == Len(chars) % 4
  IN  [k \in 1 .. 3 * (Len(chars) \div 4) + (IF last = 0 THEN 0 ELSE last - 1) |->
         ByteAt(chars, (k - 1) \div 3, ((k - 1) % 3))]

-----------------------------------------------------------------------------
\* The reference: the text is made of the bits of the data, six at a time, filled up
\* with zeros to a character and with padding to a group of four characters.
IsBase64Of(text, data) ==
  LET chars == (8 * Len(data) + 5) \div 6
      bit(i) == IF i < 8 * Len(data) THEN (data[i \div 8 + 1] \div 2 ^ (7 - (i % 8))) % 2 ELSE 0
  IN  /\ Len(text) = 4 * ((chars + 3) \div 4)
      /\ \A k \in 1 .. Len(text) :
           IF k > chars THEN text[k] = Pad
           ELSE /\ text[k] \in Sextet
                /\ \A b \in 0 .. 5 : (text[k] \div 2 ^ (5 - b)) % 2 = bit(6 * (k - 1) + b)
=============================================================================
