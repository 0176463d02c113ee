------------------------------ MODULE RangeRead ------------------------------
(***************************************************************************)
(* GetObject with a Range header (s3_api.cpp, Api::handle, and             *)
(* parse_single_range; util.cpp, trim_and_collapse_ws).  These are pure    *)
(* functions of the header text and the object size, so the module checks *)
(* them over every header of a bounded alphabet and length.  Characters    *)
(* are one-character strings and text is a sequence of them, because the   *)
(* properties are about the parse itself.                                  *)
(***************************************************************************)
EXTENDS Integers, Sequences, FiniteSets, SequencesExt

CONSTANTS
  Alphabet,   \* characters that may follow the range unit
  MaxRest,    \* longest text after the unit
  MaxSize,    \* largest object size
  NONE        \* no Range header / no range

Digit == [c \in {"0", "1", "2", "3", "4", "5", "6", "7", "8", "9"} |->
            CASE c = "0" -> 0 [] c = "1" -> 1 [] c = "2" -> 2 [] c = "3" -> 3
              [] c = "4" -> 4 [] c = "5" -> 5 [] c = "6" -> 6 [] c = "7" -> 7
              [] c = "8" -> 8 [] c = "9" -> 9]
IsDigit(c) == c \in DOMAIN Digit

\* std::isspace in the "C" locale, restricted to the characters used.
IsSpace(c) == c \in {" ", "\t"}

-----------------------------------------------------------------------------
(* trim_and_collapse_ws: drop leading and trailing white space, replace    *)
(* every run of white space inside by one blank.                           *)

RECURSIVE Collapse(_, _)
Collapse(s, in_ws) ==
  IF s = <<>> THEN <<>>
  ELSE IF IsSpace(Head(s))
       THEN (IF in_ws THEN <<>> ELSE <<" ">>) \o Collapse(Tail(s), TRUE)
       ELSE <<Head(s)>> \o Collapse(Tail(s), FALSE)

trim_and_collapse_ws(s) ==
  LET inner == {i \in 1..Len(s) : ~IsSpace(s[i])}
  IN IF inner = {} THEN <<>>
     ELSE Collapse(SubSeq(s, Min(inner), Max(inner)), FALSE)

-----------------------------------------------------------------------------
(* std::from_chars for std::int64_t: an optional '-', then the longest run *)
(* of digits; it fails when there is no digit, and it does not require the *)
(* digits to reach the end of the text.                                    *)

RECURSIVE DecimalValue(_)
DecimalValue(ds) ==
  IF ds = <<>> THEN 0 ELSE 10 * DecimalValue(Front(ds)) + Digit[Last(ds)]

from_chars(s) ==
  LET neg == s # <<>> /\ s[1] = "-"
      first == IF neg THEN 2 ELSE 1
      stop == {i \in first..Len(s) : ~IsDigit(s[i])}
      last == IF stop = {} THEN Len(s) ELSE Min(stop) - 1
      mag == DecimalValue(SubSeq(s, first, last))
  IN [ok |-> last >= first, val |-> IF neg THEN -mag ELSE mag]

\* parse_i64 in parse_single_range: an empty text is an error.
parse_i64(s) == IF s = <<>> THEN [ok |-> FALSE, val |-> 0] ELSE from_chars(s)

-----------------------------------------------------------------------------
(* parse_single_range(header_value, size)                                  *)

BytesUnit == <<"b", "y", "t", "e", "s", "=">>

Rng(s, e) == [start |-> s, end |-> e]

\* bytes=-suffix
SuffixRange(right, size) ==
  LET n == parse_i64(right) IN
  CASE ~n.ok          -> NONE
    [] n.val <= 0     -> NONE
    [] n.val >= size  -> Rng(0, size - 1)
    [] OTHER          -> Rng(size - n.val, size - 1)

\* A plausible bug: a start equal to the size accepted.
FirstLastRangeLoose(left, right, size) ==
  LET s == parse_i64(left)
      e == IF right = <<>> THEN [ok |-> TRUE, val |-> size - 1]
           ELSE parse_i64(right)
  IN CASE ~s.ok \/ ~e.ok                -> NONE
       [] s.val < 0 \/ s.val > size     -> NONE
       [] e.val < s.val                 -> NONE
       [] OTHER -> Rng(s.val, IF e.val >= size THEN size - 1 ELSE e.val)

\* A plausible bug: the end not clamped to the last byte.
FirstLastRangeUnclamped(left, right, size) ==
  LET s == parse_i64(left)
      e == IF right = <<>> THEN [ok |-> TRUE, val |-> size - 1]
           ELSE parse_i64(right)
  IN CASE ~s.ok \/ ~e.ok                -> NONE
       [] s.val < 0 \/ s.val >= size    -> NONE
       [] e.val < s.val                 -> NONE
       [] OTHER -> Rng(s.val, e.val)

\* bytes=start-end and bytes=start-
FirstLastRange(left, right, size) ==
  LET s == parse_i64(left)
      e == IF right = <<>> THEN [ok |-> TRUE, val |-> size - 1]
           ELSE parse_i64(right)
  IN CASE ~s.ok \/ ~e.ok                -> NONE
       [] s.val < 0 \/ s.val >= size    -> NONE
       [] e.val < s.val                 -> NONE
       [] OTHER -> Rng(s.val, IF e.val >= size THEN size - 1 ELSE e.val)

parse_single_range(header_value, size) ==
  LET v0 == trim_and_collapse_ws(header_value)
      v == SubSeq(v0, Len(BytesUnit) + 1, Len(v0))
      dash == SelectInSeq(v, LAMBDA c : c = "-")
      left == SubSeq(v, 1, dash - 1)
      right == SubSeq(v, dash + 1, Len(v))
  IN CASE size <= 0                   -> NONE
       [] ~IsPrefix(BytesUnit, v0)    -> NONE
       [] Contains(v, ",")            -> NONE
       [] dash = 0                    -> NONE
       [] left = <<>>                 -> SuffixRange(right, size)
       [] OTHER                       -> FirstLastRange(left, right, size)

-----------------------------------------------------------------------------
(* The Range part of the GetObject handler, after get_object returned the  *)
(* body `data`: no header gives 200 and the whole body, a header that does *)
(* not parse gives 416 with "bytes */size", a range gives 206, the slice   *)
(* data[start..end] and "bytes start-end/size".                            *)

\* res.body().assign(data.begin() + start, data.begin() + end + 1); a byte
\* outside data is whatever memory holds there, NONE.
Slice(data, s, e) ==
  [i \in 1..(e - s + 1) |-> IF s + i \in DOMAIN data THEN data[s + i] ELSE NONE]

GetResponse(hdr, data) ==
  LET size == Len(data)
      r == parse_single_range(hdr, size)
  IN CASE hdr = NONE -> [status |-> 200, body |-> data, crange |-> NONE]
       [] r = NONE   -> [status |-> 416, body |-> <<>>, crange |-> <<"*", size>>]
       [] OTHER      -> [status |-> 206, body |-> Slice(data, r.start, r.end),
                         crange |-> <<r.start, r.end, size>>]

\* Header values: the unit, the unit after white space, a misspelt unit,
\* each followed by any text of at most MaxRest characters.
Units == {BytesUnit, <<" ">> \o BytesUnit, <<"b", "y", "t", "e", "s">>}
Headers == {u \o rest : u \in Units, rest \in SeqOf(Alphabet, MaxRest)}

\* An object of n bytes, each byte its own index so that slices differ.
Body(n) == [i \in 1..n |-> i]

VARIABLES hdr, data, resp
vars == <<hdr, data, resp>>

\* One GET of an object of each size with each header.
Init ==
  /\ hdr \in Headers \cup {NONE}
  /\ data \in {Body(n) : n \in 0..MaxSize}
  /\ resp = GetResponse(hdr, data)

\* Nothing further happens: the handler is a function of its inputs.
Next == UNCHANGED vars

Spec == Init /\ [][Next]_vars

-----------------------------------------------------------------------------
(* The range forms of spec.md section 5 (Range handling), read strictly:   *)
(* "bytes=" then digits "-" digits, digits "-", or "-" digits, around      *)
(* which only the header's outer white space may stand.                    *)

AllDigits(s) == \A i \in 1..Len(s) : IsDigit(s[i])
OuterTrim(s) ==
  LET inner == {i \in 1..Len(s) : ~IsSpace(s[i])}
  IN IF inner = {} THEN <<>> ELSE SubSeq(s, Min(inner), Max(inner))

\* The text after "bytes=" split at its one dash: digits on both sides, at
\* least one side not empty.
SpecParts(h) ==
  LET t == OuterTrim(h)
      r == SubSeq(t, Len(BytesUnit) + 1, Len(t))
      dashes == {i \in 1..Len(r) : r[i] = "-"}
      d == CHOOSE i \in dashes : TRUE
  IN IF /\ IsPrefix(BytesUnit, t) /\ Cardinality(dashes) = 1
        /\ AllDigits(SubSeq(r, 1, d - 1)) /\ AllDigits(SubSeq(r, d + 1, Len(r)))
        /\ Len(r) > 1
     THEN {[first |-> SubSeq(r, 1, d - 1), last |-> SubSeq(r, d + 1, Len(r))]}
     ELSE {}

SpecWellFormed(h) == SpecParts(h) # {}

SpecRange(h, size) ==
  LET p == CHOOSE p \in SpecParts(h) : TRUE
      s == DecimalValue(p.first)
      e == DecimalValue(p.last)
  IN CASE p.first = <<>> ->                       \* bytes=-N
            CASE e = 0 \/ size = 0 -> NONE
              [] e >= size         -> Rng(0, size - 1)
              [] OTHER             -> Rng(size - e, size - 1)
       [] p.last = <<>> ->                        \* bytes=S-
            IF s < size THEN Rng(s, size - 1) ELSE NONE
       [] OTHER ->                                \* bytes=S-E
            IF s < size /\ s <= e THEN Rng(s, IF e < size THEN e ELSE size - 1)
            ELSE NONE

-----------------------------------------------------------------------------
(* Properties                                                              *)

(* A 206 response is a slice that lies inside the body, announced by a     *)
(* Content-Range whose bounds are those of the slice: the handler copies   *)
(* data.begin() + start .. data.begin() + end + 1 (s3_api.cpp:474), which  *)
(* reads out of bounds unless parse_single_range returned                  *)
(* 0 <= start <= end < size.                                               *)
PartialContentInBounds ==
  resp.status = 206 =>
    /\ 0 <= resp.crange[1] /\ resp.crange[1] <= resp.crange[2]
    /\ resp.crange[2] < Len(data) /\ resp.crange[3] = Len(data)
    /\ resp.body = [i \in 1..(resp.crange[2] - resp.crange[1] + 1) |->
                      data[resp.crange[1] + i]]

(* On a header of one of the three forms the specification allows, the    *)
(* handler answers as the specification says: 206 with the range it        *)
(* defines, or 416 (spec.md section 5, and section 8 property 3).          *)
WellFormedRangesAsSpecified ==
  hdr # NONE /\ SpecWellFormed(hdr) =>
    LET r == SpecRange(hdr, Len(data)) IN
    IF r = NONE THEN resp.status = 416
    ELSE resp.status = 206 /\ resp.crange = <<r.start, r.end, Len(data)>>
====
