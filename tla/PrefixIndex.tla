----------------------------- MODULE PrefixIndex -----------------------------
(***************************************************************************)
(* The index layer's PrefixMap (cache.cc) over its S3Storage backend       *)
(* (s3_storage.cc), with the backend's ranged GET answered by the          *)
(* gateway's GetObject Range handling (module RangeRead).                  *)
(*                                                                         *)
(* A PrefixMap is single-threaded: each method is one step.  Its two       *)
(* tables live in memory, the objects in the S3 bucket; Restart is a new   *)
(* process (the CLI runs one command per process), which keeps the bucket  *)
(* and loses the tables.  A token is a sequence of one-character strings;  *)
(* HashTokens joins the tokens with the 0x1F separator, and std::hash on   *)
(* the joined string is taken to be injective, so the prefix-map key is   *)
(* the joined string itself.  HashBytesHex is likewise injective: an       *)
(* object's id is its content.                                             *)
(***************************************************************************)
EXTENDS Integers, Sequences, FiniteSets, SequencesExt

CONSTANTS
  TokenSet,       \* the tokens clients send (non-empty, no ',')
  MaxTokens,      \* longest token sequence
  DataSet,        \* object bodies (byte sequences)
  BlockSize,      \* PrefixMap::block_size_
  BytesPerTokenFlags, \* values of --bytes-per-token a process is started with
  MaxUsable,      \* largest --usable-len given to load
  MaxStores,      \* Store calls per process
  MaxRestarts,    \* processes after the first
  NONE

ASSUME BlockSize \in Nat \ {0} /\ BytesPerTokenFlags \subseteq Nat

\* UsableBytes multiplies prefix_len by bytes_per_token_ in int (cache.cc:
\* 110), which overflows, undefined, once the product passes 2^31 - 1.  The
\* model covers the configurations where it does not.
ASSUME \A b \in BytesPerTokenFlags : MaxTokens * b <= 2147483647

\* The byte 0x1F that HashTokens puts between tokens.
US == "US"

RR == INSTANCE RangeRead WITH Alphabet <- {}, MaxRest <- 0, MaxSize <- 0,
                               NONE <- NONE, hdr <- NONE, data <- <<>>,
                               resp <- NONE

VARIABLES
  storage,        \* the bucket: object id -> bytes
  prefix_map,     \* prefix_map_: hash -> [obj_id, usable, version]
  obj_table,      \* obj_table_: object id -> total_bytes
  version_clock,  \* version_clock_
  res,            \* the result of the last call
  hist,           \* ghost: the successful Stores of this process, in order
  restarts,       \* processes started after the first
  bpt             \* bytes_per_token_ of this process's PrefixMap

vars == <<storage, prefix_map, obj_table, version_clock, res, hist,
          restarts, bpt>>

TokenSeqs == UNION {[1..n -> TokenSet] : n \in 1..MaxTokens}

-----------------------------------------------------------------------------
(* PrefixMap helpers                                                       *)

\* The text HashTokens hashes: the first `count` tokens joined by 0x1F.
RECURSIVE Joined(_, _)
Joined(tokens, count) ==
  IF count = 0 THEN <<>>
  ELSE IF count = 1 THEN tokens[1]
  ELSE Joined(tokens, count - 1) \o <<US>> \o tokens[count]

HashTokens(tokens, count) == Joined(tokens, count)

\* A plausible bug: the per-token clamp of bytes to total_bytes dropped.
UsableBytesUnclamped(prefix_len, total_tokens, total_bytes) ==
  IF bpt > 0 THEN prefix_len * bpt
  ELSE IF total_tokens = 0 \/ total_bytes = 0 THEN 0
  ELSE LET b == (prefix_len * total_bytes) \div total_tokens
       IN IF b < 1 THEN 1 ELSE IF b > total_bytes THEN total_bytes ELSE b

\* The proportional branch truncates frac * total_bytes; for the small
\* values checked the double arithmetic is exact, so this is the floor.
UsableBytes(prefix_len, total_tokens, total_bytes) ==
  IF bpt > 0
  THEN IF prefix_len * bpt > total_bytes THEN total_bytes
       ELSE prefix_len * bpt
  ELSE IF total_tokens = 0 \/ total_bytes = 0 THEN 0
  ELSE LET b == (prefix_len * total_bytes) \div total_tokens
       IN IF b < 1 THEN 1 ELSE IF b > total_bytes THEN total_bytes ELSE b

\* The aligned prefix lengths a loop `for (prefix_len = block_size_;
\* prefix_len <= n; prefix_len += block_size_)` visits.
Aligned(n) == {l \in 1..n : l % BlockSize = 0}

\* A plausible bug: Store's loop stops before the full length.
StoreLensShort(n) == {l \in 1..(n - 1) : l % BlockSize = 0}

StoreLens(n) == Aligned(n)

-----------------------------------------------------------------------------
(* S3Storage::GetRange against the gateway                                 *)

DigitChar(d) == CHOOSE c \in DOMAIN RR!Digit : RR!Digit[c] = d

RECURSIVE to_string(_)
to_string(n) ==
  IF n < 10 THEN <<DigitChar(n)>>
  ELSE to_string(n \div 10) \o <<DigitChar(n % 10)>>

\* A plausible bug: the inclusive end written as max_bytes.
RangeHeaderPastEnd(max_bytes) ==
  IF max_bytes > 0 THEN RR!BytesUnit \o <<"0", "-">> \o to_string(max_bytes)
  ELSE NONE

\* "bytes=0-" + std::to_string(max_bytes - 1), or no Range header.
RangeHeader(max_bytes) ==
  IF max_bytes > 0 THEN RR!BytesUnit \o <<"0", "-">> \o to_string(max_bytes - 1)
  ELSE NONE

\* The status and body of the GET; a missing object is NoSuchKey.
GatewayGet(obj_id, max_bytes) ==
  IF obj_id \notin DOMAIN storage THEN [status |-> 404, body |-> <<>>]
  ELSE LET r == RR!GetResponse(RangeHeader(max_bytes), storage[obj_id])
       IN [status |-> r.status, body |-> r.body]

-----------------------------------------------------------------------------
(* Operations                                                              *)

\* PrefixMap::Store.  ok is the outcome of storage_->Put (a transport
\* failure or a non-2xx status is FALSE, and Store returns "").
Store(tokens, data, ok) ==
  /\ Len(hist) < MaxStores
  /\ \/ /\ ~ok
        /\ res' = [op |-> "store", obj_id |-> NONE]
        /\ UNCHANGED <<storage, prefix_map, obj_table, version_clock, hist>>
     \/ /\ ok
        /\ storage' = (data :> data) @@ storage
        /\ version_clock' = version_clock + 1
        /\ obj_table' = (data :> Len(data)) @@ obj_table
        /\ prefix_map' =
             IF Len(tokens) < BlockSize THEN prefix_map
             ELSE [h \in {HashTokens(tokens, l) : l \in StoreLens(Len(tokens))} |->
                     LET l == CHOOSE l \in StoreLens(Len(tokens)) :
                                HashTokens(tokens, l) = h
                     IN [obj_id |-> data,
                         usable |-> UsableBytes(l, Len(tokens), Len(data)),
                         version |-> version_clock + 1]]
                  @@ prefix_map
        /\ res' = [op |-> "store", obj_id |-> data]
        /\ hist' = Append(hist, [tokens |-> tokens, data |-> data])
  /\ UNCHANGED <<restarts, bpt>>

\* PrefixMap::Lookup: the longest aligned prefix reached before the first
\* miss.
Lookup(tokens, max_len_tokens) ==
  LET lim == IF max_len_tokens <= 0 \/ max_len_tokens > Len(tokens)
             THEN Len(tokens) ELSE max_len_tokens
      reached == {l \in Aligned(lim) :
                    \A j \in Aligned(l) : HashTokens(tokens, j) \in DOMAIN prefix_map}
      last_prefix == IF reached = {} THEN 0 ELSE Max(reached)
      e == prefix_map[HashTokens(tokens, last_prefix)]
  IN /\ res' = IF Len(tokens) < BlockSize \/ last_prefix = 0
               THEN [op |-> "lookup", q |-> tokens, max |-> max_len_tokens,
                     hit |-> FALSE, obj_id |-> NONE, usable |-> 0, prefix |-> 0]
               ELSE [op |-> "lookup", q |-> tokens, max |-> max_len_tokens,
                     hit |-> TRUE, obj_id |-> e.obj_id, usable |-> e.usable,
                     prefix |-> last_prefix]
     /\ UNCHANGED <<storage, prefix_map, obj_table, version_clock, hist,
                    restarts, bpt>>

\* PrefixMap::Load, i.e. S3Storage::GetRange: ok when the transport
\* succeeded and the status is 200 or 206; out is the body received.
Load(obj_id, usable_len_bytes, transport_ok) ==
  LET g == GatewayGet(obj_id, usable_len_bytes)
      ok == transport_ok /\ g.status \in {200, 206}
  IN /\ res' = [op |-> "load", obj_id |-> obj_id, n |-> usable_len_bytes,
                ok |-> ok, out |-> IF transport_ok THEN g.body ELSE <<>>]
     /\ UNCHANGED <<storage, prefix_map, obj_table, version_clock, hist,
                    restarts, bpt>>

\* A new process: main parses its flags and constructs a fresh PrefixMap
\* over the same bucket (main.cpp:81-103, 145).
Restart ==
  /\ restarts < MaxRestarts
  /\ restarts' = restarts + 1
  /\ bpt' \in BytesPerTokenFlags
  /\ prefix_map' = <<>>
  /\ obj_table' = <<>>
  /\ version_clock' = 0
  /\ hist' = <<>>
  /\ res' = NONE
  /\ UNCHANGED storage

Init ==
  /\ storage = <<>>
  /\ prefix_map = <<>>
  /\ obj_table = <<>>
  /\ version_clock = 0
  /\ res = NONE
  /\ hist = <<>>
  /\ restarts = 0
  /\ bpt \in BytesPerTokenFlags

Next ==
  \/ \E t \in TokenSeqs, d \in DataSet, ok \in BOOLEAN : Store(t, d, ok)
  \/ \E t \in TokenSeqs, m \in 0..MaxTokens : Lookup(t, m)
  \/ \E d \in DataSet, n \in 0..MaxUsable, ok \in BOOLEAN : Load(d, n, ok)
  \/ Restart

Spec == Init /\ [][Next]_vars

-----------------------------------------------------------------------------
(* Properties                                                              *)

\* The answer spec.md section 4.F and section 8 property 7 give for a
\* lookup after the Stores of this process: the longest aligned L within
\* the limit such that the query's first L tokens are the first L tokens
\* of a stored sequence, with the object, and the usable bytes for L, of
\* the last such Store.
SpecLookup(q, m) ==
  LET lim == IF m <= 0 \/ m > Len(q) THEN Len(q) ELSE m
      stores(l) == {i \in 1..Len(hist) :
                      Len(hist[i].tokens) >= l
                      /\ SubSeq(hist[i].tokens, 1, l) = SubSeq(q, 1, l)}
      cands == {l \in Aligned(lim) : stores(l) # {}}
      l == Max(cands)
      i == Max(stores(l))
  IN IF Len(q) < BlockSize \/ cands = {}
     THEN [hit |-> FALSE, obj_id |-> NONE, usable |-> 0, prefix |-> 0]
     ELSE [hit |-> TRUE, obj_id |-> hist[i].data, prefix |-> l,
           usable |-> UsableBytes(l, Len(hist[i].tokens), Len(hist[i].data))]

(* Lookup answers as the specification says after any sequence of Stores  *)
(* in one process: the walk that stops at the first missing hash, and the  *)
(* overwriting of entries by later Stores, give the longest stored prefix  *)
(* and the object last stored under it (cache.cc Store and Lookup).        *)
LookupAsSpecified ==
  res # NONE /\ res.op = "lookup" =>
    LET r == SpecLookup(res.q, res.max) IN
    /\ res.hit = r.hit /\ res.obj_id = r.obj_id
    /\ res.usable = r.usable /\ res.prefix = r.prefix

\* UsableBytes as spec.md section 4.F states it: min(L * bytes_per_token,
\* total_bytes), or clamp(floor(L / total_tokens * total_bytes), 1,
\* total_bytes) when bytes_per_token is 0.
SpecUsableBytes(l, total_tokens, total_bytes) ==
  LET v == IF bpt > 0 THEN l * bpt ELSE (l * total_bytes) \div total_tokens
      lo == IF bpt > 0 THEN 0 ELSE 1
  IN IF v < lo THEN lo ELSE IF v > total_bytes THEN total_bytes ELSE v

\* The totals the reference check ranges over; for these the double
\* arithmetic of the proportional branch is exact.
UsableCheckMax == 4

(* The usable byte count the running process computes for a prefix of L    *)
(* tokens of an object of T tokens and B bytes is the one the              *)
(* specification gives, for every L <= T and T, B up to UsableCheckMax,    *)
(* whichever --bytes-per-token the process was started with: in particular *)
(* it is non-decreasing in L and never more than B (spec.md section 8      *)
(* property 8; cache.cc:109-131).                                          *)
UsableBytesAsSpecified ==
  \A t, b \in 1..UsableCheckMax : \A l \in 1..t :
    UsableBytes(l, t, b) = SpecUsableBytes(l, t, b)

(* A successful Load returns exactly the first usable_len_bytes bytes of   *)
(* the object (all of it when the count is 0 or beyond its size): the      *)
(* Range header GetRange writes and the gateway's parse of it agree        *)
(* (s3_storage.cc GetRange, s3_api.cpp parse_single_range).                *)
LoadReturnsUsablePrefix ==
  res # NONE /\ res.op = "load" /\ res.ok =>
    LET d == storage[res.obj_id] IN
    res.out = IF res.n > 0 /\ res.n < Len(d) THEN SubSeq(d, 1, res.n) ELSE d
====
