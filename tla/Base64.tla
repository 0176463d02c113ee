------------------------------- MODULE Base64 -------------------------------
(***************************************************************************)
(* util::base64_encode and util::base64_decode (util.cpp), the coding of   *)
(* ListObjectsV2 continuation tokens, over the OpenSSL routines they call. *)
(* Text and bytes are sequences of byte values.  EVP_EncodeBlock and       *)
(* EVP_DecodeBlock are library code: they are written here from OpenSSL's  *)
(* behaviour (encode.c) and not mapped to the repository.                  *)
(***************************************************************************)
EXTENDS Integers, Sequences

\* The character of the 6-bit value v: "A".."Z", "a".."z", "0".."9", "+", "/".
B64Char(v) ==
  CASE v < 26 -> 65 + v
    [] v < 52 -> 71 + v
    [] v < 62 -> v - 4
    [] v = 62 -> 43
    [] OTHER  -> 47

Pad == 61   \* '='

IsAlpha(c) == (c >= 65 /\ c <= 90) \/ (c >= 97 /\ c <= 122) \/ (c >= 48 /\ c <= 57)
                \/ c \in {43, 47}

\* OpenSSL's conv_ascii2bin table: every byte is a base64 value ('=' reads
\* as 0), white space, a line end or '-' (not base64), or an error.
CharClass(c) ==
  CASE IsAlpha(c) \/ c = Pad  -> "value"
    [] c \in {32, 9}         -> "ws"
    [] c \in {10, 13, 45}    -> "eoln"
    [] OTHER                 -> "error"

\* The 6-bit value of each character of class "value".
Ascii2Bin(c) ==
  CASE c >= 65 /\ c <= 90  -> c - 65
    [] c >= 97 /\ c <= 122 -> c - 71
    [] c >= 48 /\ c <= 57  -> c + 4
    [] c = 43              -> 62
    [] c = 47              -> 63
    [] OTHER               -> 0

\* EVP_EncodeBlock: every three bytes become four characters, the last
\* group padded with '='.
RECURSIVE EVP_EncodeBlock(_)
EVP_EncodeBlock(in) ==
  IF in = <<>> THEN <<>>
  ELSE LET g == SubSeq(in, 1, IF Len(in) < 3 THEN Len(in) ELSE 3)
           byte(i) == IF i <= Len(g) THEN g[i] ELSE 0
           n == byte(1) * 65536 + byte(2) * 256 + byte(3)
           ch(j) == B64Char((n \div (2 ^ (6 * (4 - j)))) % 64)
           quad == [j \in 1..4 |-> IF j > Len(g) + 1 THEN Pad ELSE ch(j)]
       IN quad \o EVP_EncodeBlock(SubSeq(in, Len(g) + 1, Len(in)))

RECURSIVE DecodeQuads(_)
DecodeQuads(s) ==
  IF s = <<>> THEN <<>>
  ELSE LET v == [j \in 1..4 |-> Ascii2Bin(s[j])]
           n == v[1] * 262144 + v[2] * 4096 + v[3] * 64 + v[4]
       IN <<n \div 65536, (n \div 256) % 256, n % 256>>
          \o DecodeQuads(SubSeq(s, 5, Len(s)))

\* Index of the first character that is not leading white space.
RECURSIVE SkipWs(_, _)
SkipWs(s, i) == IF i <= Len(s) /\ CharClass(s[i]) = "ws" THEN SkipWs(s, i + 1) ELSE i

\* Length after dropping trailing characters that are not base64, while
\* more than three are left.
RECURSIVE TrimEnd(_, _)
TrimEnd(s, n) ==
  IF n > 3 /\ CharClass(s[n]) \in {"ws", "eoln"} THEN TrimEnd(s, n - 1) ELSE n

\* EVP_DecodeBlock: {} for -1, else the 3 bytes per quad it writes, the
\* bytes '=' stands for included.
EVP_DecodeBlock(in) ==
  LET s0 == SubSeq(in, SkipWs(in, 1), Len(in))
      s == SubSeq(s0, 1, TrimEnd(s0, Len(s0)))
  IN IF Len(s) % 4 # 0 \/ \E i \in 1..Len(s) : CharClass(s[i]) # "value"
     THEN {}
     ELSE {DecodeQuads(s)}

-----------------------------------------------------------------------------
(* util.cpp                                                                *)

base64_encode(in) == EVP_EncodeBlock(in)

\* A plausible bug: the second padding test reads the last character again.
PadCountLastTwice(in) ==
  (IF in # <<>> /\ in[Len(in)] = Pad THEN 1 ELSE 0)
  + (IF Len(in) >= 2 /\ in[Len(in)] = Pad THEN 1 ELSE 0)

\* The padding base64_decode removes: one for a last '=', one for an '='
\* before the last character, both read from the text as received.
PadCount(in) ==
  (IF in # <<>> /\ in[Len(in)] = Pad THEN 1 ELSE 0)
  + (IF Len(in) >= 2 /\ in[Len(in) - 1] = Pad THEN 1 ELSE 0)

\* base64_decode: {} for std::nullopt, else the decoded bytes.
base64_decode(in) ==
  {SubSeq(d, 1, Len(d) - PadCount(in)) : d \in EVP_DecodeBlock(in)}
====
