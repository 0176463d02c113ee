-------------------------------- MODULE SigV4 --------------------------------
(***************************************************************************)
(* The gateway's SigV4 verifier (sigv4.cpp, verify_sigv4) as the first     *)
(* step of Api::handle, with the routing that follows it (s3_api.cpp,     *)
(* parse_target: virtual-host style when a suffix is configured, else     *)
(* path style).  A client holding the secret signs          *)
(* requests; the network is hostile: it may deliver any signed request    *)
(* again, later, or with one part changed.  The server verifies each       *)
(* delivery at the current time.                                           *)
(*                                                                         *)
(* Paths are byte sequences, so percent coding is modelled exactly.        *)
(* Other text (header values, credentials, query values) is abstract:      *)
(* SHA-256 and HMAC-SHA256 are injective constructors that nobody can      *)
(* invert or forge, so a signature is a record of the key and the message  *)
(* it was computed from.                                                   *)
(***************************************************************************)
EXTENDS Integers, Sequences, FiniteSets, SequencesExt

CONSTANTS
  Mode,         \* auth::Mode: "None" or "SigV4"
  AccessKey,    \* Credentials::access_key
  Secret,       \* Credentials::secret_key
  Bodies,       \* request bodies
  Expires,      \* X-Amz-Expires values clients choose
  MaxTime,      \* the clock stops here
  MaxIssued,    \* requests the client signs
  VHostSuffix,  \* s3::Config::virtual_host_suffix, bytes (<<>>: not set)
  NONE

-----------------------------------------------------------------------------
(* Hashes and signatures                                                   *)

sha256_hex(x) == [sha256 |-> x]
hmac_sha256(k, m) == [hmac |-> k, msg |-> m]

\* derive_signing_key: "AWS4" + secret, then date, region, service and
\* "aws4_request".
derive_signing_key(secret, yyyymmdd, region, service) ==
  hmac_sha256(hmac_sha256(hmac_sha256(hmac_sha256(<<"AWS4", secret>>, yyyymmdd),
                                      region), service), "aws4_request")

-----------------------------------------------------------------------------
(* Percent coding (util.cpp) on byte sequences                             *)

HexDigits == <<48, 49, 50, 51, 52, 53, 54, 55, 56, 57, 65, 66, 67, 68, 69, 70>>

hex_value(c) ==
  CASE c \in 48..57  -> c - 48
    [] c \in 97..102 -> 10 + c - 97
    [] c \in 65..70  -> 10 + c - 65
    [] OTHER         -> -1

\* percent_decode: NONE when a '%' is not followed by two hex digits.
RECURSIVE percent_decode(_)
percent_decode(in) ==
  IF in = <<>> THEN <<>>
  ELSE IF Head(in) # 37 THEN
         LET rest == percent_decode(Tail(in))
         IN IF rest = NONE THEN NONE ELSE <<Head(in)>> \o rest
  ELSE IF Len(in) < 3 \/ hex_value(in[2]) < 0 \/ hex_value(in[3]) < 0 THEN NONE
  ELSE LET rest == percent_decode(SubSeq(in, 4, Len(in)))
       IN IF rest = NONE THEN NONE
          ELSE <<16 * hex_value(in[2]) + hex_value(in[3])>> \o rest

is_unreserved(c) ==
  c \in 48..57 \/ c \in 65..90 \/ c \in 97..122 \/ c \in {45, 46, 95, 126}

percent_encode(in, encode_slash) ==
  FoldLeft(LAMBDA out, c :
             IF ~encode_slash /\ c = 47 THEN Append(out, 47)
             ELSE IF is_unreserved(c) THEN Append(out, c)
             ELSE out \o <<37, HexDigits[(c \div 16) + 1], HexDigits[(c % 16) + 1]>>,
           <<>>, in)

\* canonical_uri: decode then encode, or encode the raw path when it does
\* not decode.
canonical_uri(path) ==
  LET d == percent_decode(path)
  IN IF d = NONE THEN percent_encode(path, FALSE) ELSE percent_encode(d, FALSE)

-----------------------------------------------------------------------------
(* Requests                                                                *)
(*                                                                         *)
(* A request: method; path; params, the query parameters other than the    *)
(* presigning ones, as a set of pairs (canonical_query_string sorts them); *)
(* presign, the X-Amz-* query parameters or NONE; hdrs, a function from    *)
(* lower-case header names to values; body.  An Authorization value is    *)
(* the key/value map its parser builds.                                    *)

\* The payload-hash sentinels, kept apart from every sha256_hex value.
Streaming == [sentinel |-> "STREAMING-AWS4-HMAC-SHA256-PAYLOAD"]
Unsigned == [sentinel |-> "UNSIGNED-PAYLOAD"]

Present(r, h) == h \in DOMAIN r.hdrs

\* parse_authorization_sigv4
parse_authorization_sigv4(r) ==
  IF ~Present(r, "authorization") THEN NONE
  ELSE LET a == r.hdrs["authorization"] IN
       IF a.alg # "AWS4-HMAC-SHA256" THEN NONE
       ELSE IF ~({"Credential", "SignedHeaders", "Signature"} \subseteq DOMAIN a.kv)
       THEN NONE
       ELSE IF Len(a.kv["Credential"]) < 5 THEN NONE
       ELSE IF ~Present(r, "x-amz-date") THEN NONE
       ELSE LET c == a.kv["Credential"] IN
            [access_key |-> c[1], date |-> c[2], region |-> c[3], service |-> c[4],
             signed_headers |-> a.kv["SignedHeaders"], signature |-> a.kv["Signature"],
             amz_date |-> r.hdrs["x-amz-date"],
             payload_hash |-> IF Present(r, "x-amz-content-sha256")
                              THEN r.hdrs["x-amz-content-sha256"]
                              ELSE sha256_hex(r.body)]

\* parse_presigned
parse_presigned(r) ==
  IF r.presign = NONE THEN NONE
  ELSE LET p == r.presign IN
       IF p.alg # "AWS4-HMAC-SHA256" \/ Len(p.cred) < 5 THEN NONE
       ELSE [access_key |-> p.cred[1], date |-> p.cred[2], region |-> p.cred[3],
             service |-> p.cred[4], signed_headers |-> p.sh, signature |-> p.sig,
             amz_date |-> p.date, payload_hash |-> Unsigned]

\* canonical_query_string, excluding X-Amz-Signature for presigned
\* requests: the other X-Amz-* parameters are part of it.
canonical_query(r, presigned) ==
  [params |-> r.params,
   presign |-> IF r.presign = NONE THEN NONE
               ELSE IF presigned THEN [f \in DOMAIN r.presign \ {"sig"} |-> r.presign[f]]
               ELSE r.presign]

\* canonical_headers: the signed names present in the request, in order,
\* with their values (trim_and_collapse_ws leaves the abstract values as
\* they are); the names it kept, joined.
canonical_headers(r, names) ==
  LET kept == SelectSeq(names, LAMBDA h : Present(r, h))
  IN <<[i \in 1..Len(kept) |-> <<kept[i], r.hdrs[kept[i]]>>], kept>>

\* A plausible bug: the query left out of the canonical request.
canonical_request_no_query(r, names, payload_hash, presigned) ==
  LET ch == canonical_headers(r, names)
  IN <<r.method, canonical_uri(r.path), NONE, ch[1], ch[2], payload_hash>>

\* The canonical request and the string to sign of verify_with_parts.
canonical_request(r, names, payload_hash, presigned) ==
  LET ch == canonical_headers(r, names)
  IN <<r.method, canonical_uri(r.path), canonical_query(r, presigned),
       ch[1], ch[2], payload_hash>>

string_to_sign(amz_date, yyyymmdd, region, service, cr) ==
  <<"AWS4-HMAC-SHA256", amz_date, <<yyyymmdd, region, service, "aws4_request">>,
    sha256_hex(cr)>>

\* A plausible bug: the byte loop never runs, so any signature of the
\* right length (every hex signature) matches.
constant_time_equal_length_only(a, b) == TRUE

\* util::constant_time_equal on the hex signatures.
constant_time_equal(a, b) == a = b

\* verify_with_parts
verify_with_parts(r, p, presigned) ==
  LET cr == canonical_request(r, p.signed_headers, p.payload_hash, presigned)
      sts == string_to_sign(p.amz_date, p.date, p.region, p.service, cr)
      sig == hmac_sha256(derive_signing_key(Secret, p.date, p.region, p.service), sts)
  IN CASE p.service # "s3"        -> "InvalidRequest"
       [] p.access_key # AccessKey -> "SignatureDoesNotMatch"
       [] ~constant_time_equal(sig, p.signature) -> "SignatureDoesNotMatch"
       [] OTHER                    -> "ok"

\* verify_sigv4: the result code and which form was verified.
verify_sigv4(r) ==
  LET ah == parse_authorization_sigv4(r)
      pq == parse_presigned(r)
  IN CASE Mode = "None"                  -> [code |-> "ok", form |-> NONE]
       [] ah # NONE /\ ah.payload_hash = Streaming
                                         -> [code |-> "NotImplemented", form |-> "header"]
       [] ah # NONE -> [code |-> verify_with_parts(r, ah, FALSE), form |-> "header"]
       [] pq # NONE -> [code |-> verify_with_parts(r, pq, TRUE), form |-> "presigned"]
       [] OTHER     -> [code |-> "AccessDenied", form |-> NONE]

\* parse_target's decoding of the bucket and key: the raw bytes when they
\* do not decode.
DecodeOrRaw(s) == IF percent_decode(s) = NONE THEN s ELSE percent_decode(s)

StripSlash(path) == IF path # <<>> /\ Head(path) = 47 THEN Tail(path) ELSE path

host_without_port(h) ==
  LET colon == SelectInSeq(h, LAMBDA c : c = 58)
  IN IF colon = 0 THEN h ELSE SubSeq(h, 1, colon - 1)

\* bucket_from_host: the bucket of a Host "<bucket>.<suffix>[:port]", or
\* NONE.
bucket_from_host(host, suffix) ==
  LET h == host_without_port(host)
      dotpos == Len(h) - Len(suffix)
  IN IF suffix = <<>> \/ Len(h) <= Len(suffix) THEN NONE
     ELSE IF SubSeq(h, dotpos + 1, Len(h)) # suffix THEN NONE
     ELSE IF dotpos = 0 \/ h[dotpos] # 46 THEN NONE
     ELSE IF dotpos = 1 THEN NONE
     ELSE SubSeq(h, 1, dotpos - 1)

\* A plausible bug: the virtual-host key taken undecoded.
VHostTargetUndecoded(bh, path) == [bucket |-> bh, key |-> StripSlash(path)]

\* Virtual-host style: the whole path, less its '/', decoded, is the key.
VHostTarget(bh, path) == [bucket |-> bh, key |-> DecodeOrRaw(StripSlash(path))]

\* Path style: the first segment, decoded, is the bucket; the rest,
\* decoded, the key.
PathTarget(path) ==
  LET p == StripSlash(path)
      slash == SelectInSeq(p, LAMBDA c : c = 47)
      b == IF slash = 0 THEN p ELSE SubSeq(p, 1, slash - 1)
      k == IF slash = 0 THEN <<>> ELSE SubSeq(p, slash + 1, Len(p))
  IN [bucket |-> DecodeOrRaw(b), key |-> DecodeOrRaw(k)]

\* parse_target: the Host header ("" when absent) picks the style.
Route(host, path) ==
  LET bh == bucket_from_host(host, VHostSuffix)
  IN IF bh # NONE THEN VHostTarget(bh, path) ELSE PathTarget(path)
-----------------------------------------------------------------------------
(* The client, the network and the server                                  *)

Region == "us-east-1"
Methods == {"GET", "PUT"}

VARIABLES
  now,      \* the clock (seconds, and the credential date)
  issued,   \* the requests the client signed and sent
  res       \* the last delivery: the request, the verdict, the time

vars == <<now, issued, res>>

\* Host header values, bytes: "gw", "a.gw", "b.gw" and "a.gw:1" when the
\* suffix is "gw".
HostGw == <<103, 119>>
VHost(b) == b \o <<46>> \o VHostSuffix

\* What a client sends: PUT of an object, or a listing with a prefix,
\* addressed path style, or virtual-host style when a suffix is set; then
\* also an empty PUT of the key "%", sent as /%25.
Originals ==
  IF VHostSuffix = <<>>
  THEN {[method |-> "PUT", host |-> HostGw, path |-> <<47, 97, 47, 98>>,
         params |-> {}, body |-> b] : b \in Bodies}
       \cup {[method |-> "GET", host |-> HostGw, path |-> <<47, 97>>,
              params |-> {<<"prefix", "a">>}, body |-> <<>>]}
  ELSE {[method |-> "PUT", host |-> VHost(<<97>>), path |-> <<47, 97, 47, 98>>,
         params |-> {}, body |-> b] : b \in Bodies}
       \cup {[method |-> "PUT", host |-> VHost(<<97>>), path |-> <<47, 37, 50, 53>>,
              params |-> {}, body |-> <<>>]}
       \cup {[method |-> "GET", host |-> VHost(<<97>>), path |-> <<47>>,
              params |-> {<<"prefix", "a">>}, body |-> <<>>]}

\* The request a client builds from an original, before signing.
Outgoing(o, hdrs) ==
  [method |-> o.method, path |-> o.path, params |-> o.params, body |-> o.body,
   presign |-> NONE, hdrs |-> hdrs]

\* A client signs as the SigV4 specification says: its path is already
\* in canonical form, and it signs host and x-amz-date, and
\* x-amz-content-sha256 when it sends one.
ClientCanonical(r, names, ph, presigned) ==
  <<r.method, r.path, canonical_query(r, presigned),
    [i \in 1..Len(names) |-> <<names[i], r.hdrs[names[i]]>>], names, ph>>

ClientSig(r, names, ph, presigned) ==
  hmac_sha256(derive_signing_key(Secret, now, Region, "s3"),
              string_to_sign(now, now, Region, "s3",
                             ClientCanonical(r, names, ph, presigned)))

Cred == <<AccessKey, now, Region, "s3", "aws4_request">>

ClientHeader(o, withHash) ==
  LET names == IF withHash THEN <<"host", "x-amz-date", "x-amz-content-sha256">>
               ELSE <<"host", "x-amz-date">>
      hdrs == ("host" :> o.host) @@ ("x-amz-date" :> now)
              @@ (IF withHash THEN "x-amz-content-sha256" :> sha256_hex(o.body) ELSE <<>>)
      r0 == Outgoing(o, hdrs)
      sig == ClientSig(r0, names, sha256_hex(o.body), FALSE)
      auth == [alg |-> "AWS4-HMAC-SHA256",
               kv |-> [Credential |-> Cred, SignedHeaders |-> names, Signature |-> sig]]
  IN /\ Cardinality(issued) < MaxIssued
     /\ issued' = issued \cup {[r0 EXCEPT !.hdrs = ("authorization" :> auth) @@ hdrs]}
     /\ UNCHANGED <<now, res>>

ClientPresign(o, exp) ==
  LET p0 == [alg |-> "AWS4-HMAC-SHA256", cred |-> Cred, date |-> now,
             expires |-> exp, sh |-> <<"host">>]
      r0 == [Outgoing(o, "host" :> o.host) EXCEPT !.presign = p0]
      sig == ClientSig(r0, <<"host">>, Unsigned, TRUE)
  IN /\ Cardinality(issued) < MaxIssued
     /\ issued' = issued \cup {[r0 EXCEPT !.presign = p0 @@ [sig |-> sig]]}
     /\ UNCHANGED <<now, res>>

\* What the network can make of a signed request: the request itself, or
\* the request with its path, body, query, method, Host or one header
\* changed.
AttackPaths == {<<47, 97, 47, 98>>, <<47, 97, 37, 50, 70, 98>>,
                <<47, 37, 54, 49, 47, 98>>, <<47, 98>>, <<47, 37>>}
AttackHosts == {HostGw, VHost(<<98>>), VHost(<<97>>) \o <<58, 49>>}
AttackParams == {{}, {<<"prefix", "a">>}, {<<"prefix", "b">>}}

Tampered(s) ==
  {s}
  \cup {[s EXCEPT !.path = p] : p \in AttackPaths}
  \cup {[s EXCEPT !.body = b] : b \in Bodies}
  \cup {[s EXCEPT !.params = q] : q \in AttackParams}
  \cup {[s EXCEPT !.method = m] : m \in Methods}
  \cup {[s EXCEPT !.hdrs = ("host" :> h) @@ s.hdrs] : h \in AttackHosts}
  \cup {[s EXCEPT !.hdrs = [h \in DOMAIN s.hdrs \ {d} |-> s.hdrs[h]]] : d \in DOMAIN s.hdrs}
  \cup {[s EXCEPT !.hdrs = ("x-amz-content-sha256" :> v) @@ s.hdrs] : v \in {Streaming, Unsigned}}

\* Api::handle's first step on a delivered request.
Deliver(r) ==
  LET v == verify_sigv4(r)
  IN /\ res' = [req |-> r, code |-> v.code, form |-> v.form, at |-> now]
     /\ UNCHANGED <<now, issued>>

Tick ==
  /\ now < MaxTime
  /\ now' = now + 1
  /\ UNCHANGED <<issued, res>>

Init ==
  /\ now = 0
  /\ issued = {}
  /\ res = NONE

Next ==
  \/ Tick
  \/ \E o \in Originals, h \in BOOLEAN : ClientHeader(o, h)
  \/ \E o \in Originals, e \in Expires : ClientPresign(o, e)
  \/ \E s \in issued : \E r \in Tampered(s) : Deliver(r)

Spec == Init /\ [][Next]_vars

-----------------------------------------------------------------------------
(* Properties                                                              *)

Accepted == res # NONE /\ res.code = "ok"

\* The Host parse_target reads: empty when the header is absent.
HostOf(r) == IF Present(r, "host") THEN r.hdrs["host"] ELSE <<>>

\* The payload hash a request is verified with.
PayloadHash(r) ==
  IF r.presign # NONE /\ ~Present(r, "authorization") THEN Unsigned
  ELSE IF Present(r, "x-amz-content-sha256") THEN r.hdrs["x-amz-content-sha256"]
  ELSE sha256_hex(r.body)

(* A request that passes verify_sigv4 agrees with one the key holder       *)
(* signed in everything the canonical request covers: the method, the      *)
(* canonical URI, the query parameters, and for header signing the payload *)
(* hash.  Any change the network makes to these is rejected (spec.md       *)
(* section 8 property 6), whether it came by header or presigned URL.      *)
SignedPartsAuthentic ==
  Accepted =>
    \E s \in issued :
      /\ res.req.method = s.method
      /\ canonical_uri(res.req.path) = canonical_uri(s.path)
      /\ res.req.params = s.params
      /\ res.form = "header" => PayloadHash(res.req) = PayloadHash(s)

(* A request the key holder signed, delivered as it was sent and, for a   *)
(* presigned URL, before X-Amz-Date plus X-Amz-Expires, is accepted: the   *)
(* verifier rebuilds the canonical request the signer built, for header    *)
(* signing with and without a payload hash and for presigned URLs         *)
(* (spec.md section 8 property 6, round trip; glossary, "Presigned URL").  *)
SignedRequestsAccepted ==
  /\ res # NONE /\ res.req \in issued
  /\ res.req.presign # NONE => res.at <= res.req.presign.date + res.req.presign.expires
  => res.code = "ok"

(* An accepted request addresses the bucket and key of a request the key   *)
(* holder signed, with its method: Api::handle routes by parse_target,    *)
(* from the Host header and the raw path, so what is authenticated (the   *)
(* signed Host and the canonical URI) must determine what is routed.      *)
AcceptedRouteAsSigned ==
  Accepted =>
    \E s \in issued :
      /\ res.req.method = s.method
      /\ Route(HostOf(res.req), res.req.path) = Route(HostOf(s), s.path)

(* A presigned URL is accepted only before its expiry, X-Amz-Date plus     *)
(* X-Amz-Expires seconds (spec.md glossary, "Presigned URL").            *)
PresignedWithinExpiry ==
  Accepted /\ res.form = "presigned" =>
    res.at <= res.req.presign.date + res.req.presign.expires
====
