---------------------------- MODULE MCActiveUsers ----------------------------
(* Keys of one to four bytes: a last group of each length, and a whole one. *)
EXTENDS ActiveUsers

MCKeys == {<<255>>, <<250, 5>>, <<0, 128, 63>>, <<77, 97, 110, 1>>}

\* Base64::Encode gives the text that RFC 4648 defines, on all the data of up to four
\* bytes out of five.
Data == UNION {[1 .. n -> {0, 1, 77, 128, 255}] : n \in 0 .. 4}

ASSUME Base64IsStandard ==
  \A data \in Data : IsBase64Of(Encode(data), data)
=============================================================================
