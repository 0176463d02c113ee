----------------------------- MODULE ObjectStore -----------------------------
(***************************************************************************)
(* The gateway's object store (storage.cpp, RocksObjectStore) as driven by *)
(* the S3 request handlers (s3_api.cpp, Api::handle) on concurrent worker  *)
(* threads.  Buckets and objects live in one ordered key space:            *)
(*     B\0<bucket>          bucket marker                                  *)
(*     M\0<bucket>\0<key>   encoded object metadata                        *)
(*     D\0<bucket>\0<key>   object bytes                                   *)
(* Every RocksDB call (Get, Put, Delete, Write of a batch, creation of an  *)
(* iterator) is one atomic step; a handler is a sequence of such steps and *)
(* the steps of different threads interleave.  A handler's local work     *)
(* (validation, clamping, decoding) happens inside the step that follows  *)
(* it in the code.                                                         *)
(***************************************************************************)
EXTENDS Integers, Sequences, FiniteSets, Functions, KVOrder, Base64

CONSTANTS
  Threads,    \* worker threads running Api::handle
  Buckets,    \* bucket names the clients use (byte sequences)
  Keys,       \* object keys the clients use (byte sequences)
  Prefixes,   \* values of the prefix query parameter
  Data,       \* object bodies (model values)
  MaxKeysIn,  \* values of the max-keys query parameter
  Ops,        \* the S3 operations the clients issue
  InitBuckets,\* buckets that exist when the model starts
  FollowTokens,\* clients request the next page of every truncated listing
  IOFaults,   \* a RocksDB call may fail with an error Status (I/O error)
  WriteOptionsIn, \* the WriteOptions the gateway may be started with
  NONE        \* an absent field

AllOps == {"CreateBucket", "DeleteBucket", "HeadBucket", "ListBuckets",
           "PutObject", "GetObject", "HeadObject", "DeleteObject",
           "ListObjects"}

ASSUME /\ Threads # {} /\ Ops \subseteq AllOps /\ InitBuckets \subseteq Buckets
       /\ \A n \in Buckets \cup Keys \cup Prefixes : n \in Seq(0..255)
       /\ MaxKeysIn \subseteq Int /\ FollowTokens \in BOOLEAN /\ IOFaults \in BOOLEAN
       /\ WriteOptionsIn \subseteq [disableWAL : BOOLEAN, sync : BOOLEAN]

VARIABLES
  kv,    \* the RocksDB key space: present keys -> values
  pc,    \* pc[t]: the step thread t executes next ("idle" between requests)
  req,   \* req[t]: the request thread t handles (kept after it completes)
  loc,   \* loc[t]: locals of the handler carried from one step to the next
  resp,  \* resp[t]: the response of thread t's last completed request
  pg,    \* pg[t]: history of thread t's current listing pagination
  failed,\* failed[t]: a RocksDB call of t's current request returned an
         \* error Status (history variable, read only by properties)
  wo     \* wo_: the WriteOptions of every Put, Delete and Write, set from
         \* --disable_wal and --sync when the process starts

vars == <<kv, pc, req, loc, resp, pg, failed, wo>>

-----------------------------------------------------------------------------
(* Key encoding, storage.cpp                                               *)

NUL == 0
contains_nul(s) == \E i \in 1..Len(s) : s[i] = NUL
bucket_key(b) == <<66, NUL>> \o b
\* A plausible bug: the meta prefix without its closing separator.
meta_prefix_open(b) == <<77, NUL>> \o b
meta_prefix(b) == <<77, NUL>> \o b \o <<NUL>>
meta_key(b, k) == meta_prefix(b) \o k
data_key(b, k) == <<68, NUL>> \o b \o <<NUL>> \o k

\* ObjectMeta as put_object computes it.  size, mtime and content_type are
\* functions of the body, the clock and the request; the etag stands for
\* them.  encode_meta/decode_meta are a lossless round trip (the only NULs
\* are the three separators), so the stored value is the record itself.
md5_hex(d) == [md5 |-> d]
MetaOf(d) == [etag |-> md5_hex(d)]

\* Continuation tokens are the base64 text of the last emitted meta key
\* (Base64).  A client may send no token, or text that is not base64.
NoToken == <<>>
GarbageToken == <<33, 33, 33, 33>>   \* "!!!!"

\* err.rfind("Invalid", 0) == 0: the text starts with "Invalid".  (The
\* next test, a text containing "Invalid continuation-token", adds nothing:
\* the only such text starts with it.)
StartsWithInvalid(err) == Len(err) >= 7 /\ SubSeq(err, 1, 7) = "Invalid"

\* map_storage_error, s3_api.cpp: storage error string -> HTTP status.
map_storage_error(err) ==
  CASE err \in {"NoSuchBucket", "NoSuchKey"} -> 404
    [] err = "BucketNotEmpty"               -> 409
    [] StartsWithInvalid(err)               -> 400
    [] OTHER                                -> 500

ClampMaxKeys(m) == IF m <= 0 \/ m > 1000 THEN 1000 ELSE m

-----------------------------------------------------------------------------
(* Records                                                                 *)

Req0 == [op |-> NONE, b |-> NONE, k |-> NONE, d |-> NONE,
         prefix |-> NONE, maxk |-> NONE, token |-> NONE]
Loc0 == [meta |-> NONE, objs |-> <<>>]
Resp0 == [op |-> NONE, status |-> NONE, etag |-> NONE, body |-> NONE,
          objs |-> <<>>, truncated |-> FALSE, token |-> NoToken]
Pg0 == [seen |-> <<>>, persist |-> {}]

ErrResp(op, err) == [Resp0 EXCEPT !.op = op, !.status = map_storage_error(err)]
OkResp(op, st) == [Resp0 EXCEPT !.op = op, !.status = st]

\* The handler goes on to its next step; the client has no response yet.
Goto(t, step) ==
  /\ pc' = [pc EXCEPT ![t] = step]
  /\ resp' = [resp EXCEPT ![t] = Resp0]

\* The handler returns: its locals are gone.
Finish(t, r) ==
  /\ pc' = [pc EXCEPT ![t] = "idle"]
  /\ resp' = [resp EXCEPT ![t] = r]
  /\ loc' = [loc EXCEPT ![t] = Loc0]

Begin(t, r) ==
  /\ pc[t] = "idle"
  /\ r.op \in Ops
  /\ req' = [req EXCEPT ![t] = r]
  /\ loc' = [loc EXCEPT ![t] = Loc0]

Present(k) == k \in DOMAIN kv

\* The Status of one RocksDB call.  A Get of an absent key is NotFound,
\* which the model tells by Present; any other non-OK Status is an error
\* whose ToString() the store hands up as err.
CallStatus == IF IOFaults THEN {"OK", "IOError"} ELSE {"OK"}

\* The Status of a Put, Delete or Write: RocksDB rejects every write whose
\* options ask for sync without a WAL, before it touches the data.
WriteStatus ==
  IF wo.disableWAL /\ wo.sync THEN {"InvalidArgument"} ELSE CallStatus

\* Status::ToString of an error Status: its kind, then its message.
StatusText(st) ==
  IF st = "InvalidArgument" THEN "Invalid argument: Sync writes has to enable WAL."
  ELSE "IO error: "

\* t made a RocksDB call with Status st; the first call of a request (pc
\* idle) starts its history afresh.
Called(t, st) ==
  failed' = [failed EXCEPT ![t] = (pc[t] # "idle" /\ @) \/ st # "OK"]

\* A request rejected before any RocksDB call.
NoCall(t) == failed' = [failed EXCEPT ![t] = FALSE]

\* A plausible bug: an error Status reported like NotFound, err left empty.
bucket_exists_err_dropped(b, st) ==
  [ok |-> st = "OK" /\ Present(bucket_key(b)), err |-> ""]

\* bucket_exists after its NUL check: the Get of the marker with Status st.
\* ok is the result; err is what it leaves in *err.
bucket_exists(b, st) ==
  CASE st # "OK"              -> [ok |-> FALSE, err |-> StatusText(st)]
    [] Present(bucket_key(b)) -> [ok |-> TRUE, err |-> ""]
    [] OTHER                  -> [ok |-> FALSE, err |-> ""]

\* The callers' `if (!bucket_exists(bucket, err))`: err, or NoSuchBucket
\* when bucket_exists left it empty.
NoBucketErr(be) == IF be.err = "" THEN "NoSuchBucket" ELSE be.err

\* The first step of put_object, head_object (and get_object), delete_object
\* and delete_bucket: arguments holding a NUL are rejected with the error
\* invalid; then bucket_exists, and the step `next` when the bucket exists.
ExistsStep(t, op, b, nul, invalid, next) ==
  \/ /\ nul /\ NoCall(t)
     /\ Finish(t, ErrResp(op, invalid))
  \/ /\ ~nul
     /\ \E st \in CallStatus :
          LET be == bucket_exists(b, st) IN
          /\ Called(t, st)
          /\ \/ be.ok /\ Goto(t, next)
             \/ ~be.ok /\ Finish(t, ErrResp(op, NoBucketErr(be)))

\* A step whose RocksDB call failed: the handler returns err = st.ToString()
\* and the store is left as it was.
CallFailed(t, op, st) ==
  /\ Finish(t, ErrResp(op, StatusText(st)))
  /\ UNCHANGED kv

\* A request other than the next page of a listing ends the thread's
\* pagination history.
EndPagination(t) == pg' = [pg EXCEPT ![t] = Pg0]

\* The page objs joins the history.  A pagination that never revisits a
\* key records at most Cardinality(Keys) entries; the history stops
\* growing past that bound, so that a pagination that loops returns to an
\* earlier state.
SeenBound == Cardinality(Keys)
RecordPage(t, objs) ==
  pg' = [pg EXCEPT ![t].seen = IF Len(@) > SeenBound THEN @ ELSE @ \o objs]

-----------------------------------------------------------------------------
(* create_bucket: Get of the marker, then Put when it is absent.           *)

CreateBucketGet(t, b) ==
  /\ Begin(t, [Req0 EXCEPT !.op = "CreateBucket", !.b = b])
  /\ \/ /\ contains_nul(b) /\ NoCall(t)
        /\ Finish(t, ErrResp("CreateBucket", "Invalid bucket"))
     \/ /\ ~contains_nul(b)
        /\ \E st \in CallStatus :
             /\ Called(t, st)
             /\ \/ st = "OK" /\ Present(bucket_key(b))
                   /\ Finish(t, OkResp("CreateBucket", 200))
                \/ st = "OK" /\ ~Present(bucket_key(b))
                   /\ Goto(t, "create_put")
                \/ st # "OK" /\ Finish(t, ErrResp("CreateBucket", StatusText(st)))
  /\ EndPagination(t)
  /\ UNCHANGED kv

CreateBucketPut(t) ==
  /\ pc[t] = "create_put"
  /\ \E st \in WriteStatus :
       /\ Called(t, st)
       /\ \/ /\ st = "OK"
             /\ kv' = PutKeys(kv, bucket_key(req[t].b) :> "")
             /\ Finish(t, OkResp("CreateBucket", 200))
          \/ st # "OK" /\ CallFailed(t, "CreateBucket", st)
  /\ UNCHANGED <<req, pg>>

-----------------------------------------------------------------------------
(* delete_bucket: bucket_exists, a Seek to the meta prefix to test that no *)
(* object is left, then Delete of the marker.                              *)

DeleteBucketExists(t, b) ==
  /\ Begin(t, [Req0 EXCEPT !.op = "DeleteBucket", !.b = b])
  /\ ExistsStep(t, "DeleteBucket", b, contains_nul(b), "Invalid bucket",
                "delete_bucket_seek")
  /\ EndPagination(t)
  /\ UNCHANGED kv

BucketHasObject(b) ==
  LET pos == Seek(DOMAIN kv, meta_prefix(b))
  IN Valid(pos) /\ StartsWith(KeyAt(pos), meta_prefix(b))

\* The emptiness test with the iterator's Status st.  An iterator whose
\* status is not OK is not Valid, so the test falls through to the status
\* check.
EmptinessTest(b, st) ==
  CASE st # "OK"         -> "error"
    [] BucketHasObject(b) -> "not_empty"
    [] OTHER              -> "empty"

DeleteBucketSeek(t) ==
  /\ pc[t] = "delete_bucket_seek"
  /\ \E st \in CallStatus :
       LET test == EmptinessTest(req[t].b, st) IN
       /\ Called(t, st)
       /\ \/ test = "not_empty" /\ Finish(t, ErrResp("DeleteBucket", "BucketNotEmpty"))
          \/ test = "empty" /\ Goto(t, "delete_bucket_delete") /\ UNCHANGED loc
          \/ test = "error" /\ Finish(t, ErrResp("DeleteBucket", StatusText(st)))
  /\ UNCHANGED <<kv, req, pg>>

DeleteBucketDelete(t) ==
  /\ pc[t] = "delete_bucket_delete"
  /\ \E st \in WriteStatus :
       /\ Called(t, st)
       /\ \/ /\ st = "OK"
             /\ kv' = DeleteKeys(kv, {bucket_key(req[t].b)})
             /\ Finish(t, OkResp("DeleteBucket", 204))
          \/ st # "OK" /\ CallFailed(t, "DeleteBucket", st)
  /\ UNCHANGED <<req, pg>>

-----------------------------------------------------------------------------
(* put_object: bucket_exists, then one WriteBatch of the data and meta     *)
(* keys; PutObject answers 200 with the etag.                              *)

PutObjectExists(t, b, k, d) ==
  /\ Begin(t, [Req0 EXCEPT !.op = "PutObject", !.b = b, !.k = k, !.d = d])
  /\ ExistsStep(t, "PutObject", b, contains_nul(b) \/ contains_nul(k),
                "Invalid bucket/key", "put_write")
  /\ EndPagination(t)
  /\ UNCHANGED kv

\* A plausible bug: the two values of the batch exchanged.
ObjectBatchSwapped(b, k, d) == (data_key(b, k) :> MetaOf(d)) @@ (meta_key(b, k) :> d)

\* The WriteBatch of put_object: the body under the data key, the encoded
\* metadata under the meta key.
ObjectBatch(b, k, d) == (data_key(b, k) :> d) @@ (meta_key(b, k) :> MetaOf(d))

\* A failed Write applies none of the batch.
PutObjectWrite(t) ==
  LET r == req[t] IN
  /\ pc[t] = "put_write"
  /\ \E st \in WriteStatus :
       /\ Called(t, st)
       /\ \/ /\ st = "OK"
             /\ kv' = PutKeys(kv, ObjectBatch(r.b, r.k, r.d))
             /\ Finish(t, [OkResp("PutObject", 200) EXCEPT !.etag = md5_hex(r.d)])
          \/ st # "OK" /\ CallFailed(t, "PutObject", st)
  /\ UNCHANGED <<req, pg>>

-----------------------------------------------------------------------------
(* GetObject: head_object (bucket_exists, Get of the meta key), then a     *)
(* second Get of the data key; the response carries the etag of the meta  *)
(* read and the body of the data read.  No Range header: see RangeRead.   *)

GetObjectExists(t, b, k) ==
  /\ Begin(t, [Req0 EXCEPT !.op = "GetObject", !.b = b, !.k = k])
  /\ ExistsStep(t, "GetObject", b, contains_nul(b) \/ contains_nul(k),
                "Invalid bucket/key", "get_meta")
  /\ EndPagination(t)
  /\ UNCHANGED kv

GetObjectMeta(t) ==
  LET mk == meta_key(req[t].b, req[t].k) IN
  /\ pc[t] = "get_meta"
  /\ \E st \in CallStatus :
       /\ Called(t, st)
       /\ \/ st = "OK" /\ ~Present(mk)
             /\ Finish(t, ErrResp("GetObject", "NoSuchKey"))
          \/ st = "OK" /\ Present(mk)
             /\ loc' = [loc EXCEPT ![t].meta = kv[mk]]
             /\ Goto(t, "get_data")
          \/ st # "OK" /\ Finish(t, ErrResp("GetObject", StatusText(st)))
  /\ UNCHANGED <<kv, req, pg>>

GetObjectData(t) ==
  LET dk == data_key(req[t].b, req[t].k) IN
  /\ pc[t] = "get_data"
  /\ \E st \in CallStatus :
       /\ Called(t, st)
       /\ \/ st = "OK" /\ ~Present(dk)
             /\ Finish(t, ErrResp("GetObject", "NoSuchKey"))
          \/ st = "OK" /\ Present(dk)
             /\ Finish(t, [OkResp("GetObject", 200) EXCEPT
                             !.etag = loc[t].meta.etag, !.body = kv[dk]])
          \/ st # "OK" /\ Finish(t, ErrResp("GetObject", StatusText(st)))
  /\ UNCHANGED <<kv, req, pg>>

-----------------------------------------------------------------------------
(* delete_object: bucket_exists, then one WriteBatch deleting both keys;   *)
(* a missing object is not an error.                                       *)

DeleteObjectExists(t, b, k) ==
  /\ Begin(t, [Req0 EXCEPT !.op = "DeleteObject", !.b = b, !.k = k])
  /\ ExistsStep(t, "DeleteObject", b, contains_nul(b) \/ contains_nul(k),
                "Invalid bucket/key", "delete_write")
  /\ EndPagination(t)
  /\ UNCHANGED kv

\* A plausible bug: the batch deletes the meta key only.
ObjectKeysMetaOnly(b, k) == {meta_key(b, k)}

\* The keys of delete_object's WriteBatch.
ObjectKeys(b, k) == {meta_key(b, k), data_key(b, k)}

\* The pagination history of every thread forgets the deleted key.
DeleteObjectWrite(t) ==
  LET r == req[t] IN
  /\ pc[t] = "delete_write"
  /\ \E st \in WriteStatus :
       /\ Called(t, st)
       /\ \/ /\ st = "OK"
             /\ kv' = DeleteKeys(kv, ObjectKeys(r.b, r.k))
             /\ Finish(t, OkResp("DeleteObject", 204))
             /\ pg' = [u \in Threads |->
                         [pg[u] EXCEPT !.persist = @ \ {meta_key(r.b, r.k)}]]
          \/ st # "OK" /\ CallFailed(t, "DeleteObject", st) /\ UNCHANGED pg
  /\ UNCHANGED req

-----------------------------------------------------------------------------
(* HEAD /<bucket> (bucket_exists, one Get), HEAD /<bucket>/<key>           *)
(* (head_object: bucket_exists, then the Get of the meta key) and GET /    *)
(* (list_buckets: one iterator over the bucket markers).                  *)

\* The handler tests err before the result (s3_api.cpp:316-330); a NUL in
\* the name is bucket_exists' own "Invalid bucket".
HeadBucket(t, b) ==
  /\ Begin(t, [Req0 EXCEPT !.op = "HeadBucket", !.b = b])
  /\ \/ /\ contains_nul(b) /\ NoCall(t)
        /\ Finish(t, ErrResp("HeadBucket", "Invalid bucket"))
     \/ /\ ~contains_nul(b)
        /\ \E st \in CallStatus :
             LET be == bucket_exists(b, st) IN
             /\ Called(t, st)
             /\ \/ be.err # "" /\ Finish(t, ErrResp("HeadBucket", be.err))
                \/ be.err = "" /\ ~be.ok
                   /\ Finish(t, ErrResp("HeadBucket", "NoSuchBucket"))
                \/ be.err = "" /\ be.ok /\ Finish(t, OkResp("HeadBucket", 200))
  /\ EndPagination(t)
  /\ UNCHANGED kv

HeadObjectExists(t, b, k) ==
  /\ Begin(t, [Req0 EXCEPT !.op = "HeadObject", !.b = b, !.k = k])
  /\ ExistsStep(t, "HeadObject", b, contains_nul(b) \/ contains_nul(k),
                "Invalid bucket/key", "head_meta")
  /\ EndPagination(t)
  /\ UNCHANGED kv

\* The response carries the ETag of the metadata read (s3_api.cpp:493).
HeadObjectMeta(t) ==
  LET mk == meta_key(req[t].b, req[t].k) IN
  /\ pc[t] = "head_meta"
  /\ \E st \in CallStatus :
       /\ Called(t, st)
       /\ \/ st = "OK" /\ ~Present(mk)
             /\ Finish(t, ErrResp("HeadObject", "NoSuchKey"))
          \/ st = "OK" /\ Present(mk)
             /\ Finish(t, [OkResp("HeadObject", 200) EXCEPT !.etag = kv[mk].etag])
          \/ st # "OK" /\ Finish(t, ErrResp("HeadObject", StatusText(st)))
  /\ UNCHANGED <<kv, req, pg>>

BucketPrefix == <<66, NUL>>

\* The loop of list_buckets from the iterator position pos: the names of
\* consecutive bucket markers, up to the first key outside "B\0".
RECURSIVE BucketNamesFrom(_, _, _)
BucketNamesFrom(keys, pos, acc) ==
  IF ~Valid(pos) \/ ~StartsWith(KeyAt(pos), BucketPrefix) THEN acc
  ELSE BucketNamesFrom(keys, After(keys, KeyAt(pos)),
                       Append(acc, SubSeq(KeyAt(pos), 3, Len(KeyAt(pos)))))

\* GET /: list_buckets over one iterator, the names in key order.  An
\* iterator whose status is not OK sets err, and the handler answers the
\* error instead of the partial list (s3_api.cpp:281-285).
ListBuckets(t) ==
  /\ Begin(t, [Req0 EXCEPT !.op = "ListBuckets"])
  /\ \E st \in CallStatus :
       /\ Called(t, st)
       /\ \/ st = "OK"
             /\ Finish(t, [OkResp("ListBuckets", 200) EXCEPT
                  !.objs = BucketNamesFrom(DOMAIN kv, Seek(DOMAIN kv, BucketPrefix), <<>>)])
          \/ st # "OK" /\ Finish(t, ErrResp("ListBuckets", StatusText(st)))
  /\ EndPagination(t)
  /\ UNCHANGED kv

-----------------------------------------------------------------------------
(* list_objects_v2: bucket_exists (and the token decoded), one iterator    *)
(* scan over a snapshot, and, when max_keys entries were emitted, a probe  *)
(* with a second, fresh iterator that decides IsTruncated.                 *)

\* A plausible bug: the page is full one entry too late.
PageFullLate(count, maxk) == count > maxk

\* The scan has emitted max_keys entries.
PageFull(count, maxk) == count >= maxk

\* The scan loop from the iterator position `pos`: stop at the first key
\* outside the bucket's meta prefix or outside `prefix`; stop after the
\* max_keys-th entry (full).  Entries are meta keys.
RECURSIVE ScanFrom(_, _, _, _, _, _)
ScanFrom(keys, pos, mp, prefix, maxk, acc) ==
  IF ~Valid(pos) THEN [objs |-> acc, full |-> FALSE]
  ELSE LET ks == KeyAt(pos)
           obj_key == SubSeq(ks, Len(mp) + 1, Len(ks))
       IN IF ~StartsWith(ks, mp) THEN [objs |-> acc, full |-> FALSE]
          ELSE IF prefix # <<>> /\ ~StartsWith(obj_key, prefix)
               THEN [objs |-> acc, full |-> FALSE]
          ELSE IF PageFull(Len(acc) + 1, maxk)
               THEN [objs |-> Append(acc, ks), full |-> TRUE]
          ELSE ScanFrom(keys, After(keys, ks), mp, prefix, maxk, Append(acc, ks))

ListReq(b, prefix, maxk, token) ==
  [Req0 EXCEPT !.op = "ListObjects", !.b = b, !.prefix = prefix,
               !.maxk = maxk, !.token = token]

\* The arguments list_objects_v2 rejects before any RocksDB call.
ListArgsInvalid(r) == contains_nul(r.b) \/ contains_nul(r.prefix) \/ contains_nul(r.token)

\* The first step of list_objects_v2 for the request r: the NUL check,
\* bucket_exists, then the decoding of a continuation token.
ListObjectsExists(t, r) ==
  /\ Begin(t, r)
  /\ \/ /\ ListArgsInvalid(r) /\ NoCall(t)
        /\ Finish(t, ErrResp("ListObjects", "Invalid bucket/prefix/token"))
     \/ /\ ~ListArgsInvalid(r)
        /\ \E st \in CallStatus :
             LET be == bucket_exists(r.b, st) IN
             /\ Called(t, st)
             /\ \/ ~be.ok /\ Finish(t, ErrResp("ListObjects", NoBucketErr(be)))
                \/ /\ be.ok /\ r.token # NoToken /\ base64_decode(r.token) = {}
                   /\ Finish(t, ErrResp("ListObjects", "Invalid continuation-token"))
                \/ /\ be.ok /\ (r.token = NoToken \/ base64_decode(r.token) # {})
                   /\ Goto(t, "list_scan")
  /\ UNCHANGED kv

Matching(b, prefix) ==
  {mk \in DOMAIN kv : StartsWith(mk, meta_prefix(b) \o prefix)}

\* A fresh listing: no token, or one that is not base64.  The pagination
\* history restarts with the keys that match now.
ListObjectsStart(t, b, prefix, maxk, token) ==
  /\ ListObjectsExists(t, ListReq(b, prefix, maxk, token))
  /\ pg' = [pg EXCEPT ![t] = [seen |-> <<>>, persist |-> Matching(b, prefix)]]

\* The next page: the client repeats its request with the token of a
\* truncated response.
ListObjectsContinue(t) ==
  LET r == req[t] IN
  /\ resp[t].op = "ListObjects" /\ resp[t].status = 200 /\ resp[t].truncated
  /\ ListObjectsExists(t, ListReq(r.b, r.prefix, r.maxk, resp[t].token))
  /\ UNCHANGED pg

ListResp(objs, truncated, token) ==
  [OkResp("ListObjects", 200) EXCEPT !.objs = objs, !.truncated = truncated,
                                      !.token = token]

\* A plausible bug: a first page that seeks to the bucket's first object,
\* not to the first one with the prefix.
ListSeekKeyNoPrefix(r) ==
  IF r.token = NoToken THEN meta_prefix(r.b)
  ELSE CHOOSE s \in base64_decode(r.token) : TRUE

\* Where the scan starts: the decoded token, or the meta prefix followed by
\* the prefix.
ListSeekKey(r) ==
  IF r.token = NoToken THEN meta_prefix(r.b) \o r.prefix
  ELSE CHOOSE s \in base64_decode(r.token) : TRUE

\* A plausible bug: resuming at the token without stepping past it.
ResumePosNoSkip(keys, seek_key, token) == Seek(keys, seek_key)

\* Seek, then step past the token's key when the iterator lands on it.
ResumePos(keys, seek_key, token) ==
  LET pos0 == Seek(keys, seek_key) IN
  IF token # NoToken /\ Valid(pos0) /\ KeyAt(pos0) = seek_key
  THEN After(keys, seek_key) ELSE pos0

ListObjectsScan(t) ==
  LET r == req[t]
      mp == meta_prefix(r.b)
      keys == DOMAIN kv
      pos == ResumePos(keys, ListSeekKey(r), r.token)
      scan == ScanFrom(keys, pos, mp, r.prefix, ClampMaxKeys(r.maxk), <<>>)
  IN
  /\ pc[t] = "list_scan"
  /\ \/ /\ scan.full
        /\ loc' = [loc EXCEPT ![t].objs = scan.objs]
        /\ Goto(t, "list_probe") /\ UNCHANGED pg
     \/ /\ ~scan.full
        /\ Finish(t, ListResp(scan.objs, FALSE, NoToken))
        /\ RecordPage(t, scan.objs)
  /\ UNCHANGED <<kv, req, failed>>

\* The probe's second iterator: Seek to the page's last key, step once, and
\* test the next key against the bucket and the prefix.
ProbeMore(keys, last, mp, prefix) ==
  LET p0 == Seek(keys, last)
      p == IF Valid(p0) THEN After(keys, KeyAt(p0)) ELSE p0
  IN /\ Valid(p) /\ StartsWith(KeyAt(p), mp)
     /\ \/ prefix = <<>>
        \/ StartsWith(SubSeq(KeyAt(p), Len(mp) + 1, Len(KeyAt(p))), prefix)

ListObjectsProbe(t) ==
  LET r == req[t]
      last == loc[t].objs[Len(loc[t].objs)]
      more == ProbeMore(DOMAIN kv, last, meta_prefix(r.b), r.prefix)
  IN
  /\ pc[t] = "list_probe"
  /\ Finish(t, ListResp(loc[t].objs, more,
                        IF more THEN base64_encode(last) ELSE NoToken))
  /\ RecordPage(t, loc[t].objs)
  /\ UNCHANGED <<kv, req, failed>>

-----------------------------------------------------------------------------

Init ==
  /\ kv = [k \in {bucket_key(b) : b \in InitBuckets} |-> ""]
  /\ pc = [t \in Threads |-> "idle"]
  /\ req = [t \in Threads |-> Req0]
  /\ loc = [t \in Threads |-> Loc0]
  /\ resp = [t \in Threads |-> Resp0]
  /\ pg = [t \in Threads |-> Pg0]
  /\ failed = [t \in Threads |-> FALSE]
  /\ wo \in WriteOptionsIn

\* The last response of t is a truncated page of a listing.
Following(t) ==
  resp[t].op = "ListObjects" /\ resp[t].status = 200 /\ resp[t].truncated

\* A client that follows tokens asks for nothing else before the next page.
ClientMayStart(t) == ~(FollowTokens /\ Following(t))

\* The steps Api::handle runs after the first RocksDB call of a request.
ServerSteps(t) ==
  \/ CreateBucketPut(t)
  \/ DeleteBucketSeek(t)
  \/ DeleteBucketDelete(t)
  \/ PutObjectWrite(t)
  \/ GetObjectMeta(t)
  \/ GetObjectData(t)
  \/ HeadObjectMeta(t)
  \/ DeleteObjectWrite(t)
  \/ ListObjectsScan(t)
  \/ ListObjectsProbe(t)

\* The process's WriteOptions never change.
Next ==
  /\ UNCHANGED wo
  /\ \E t \in Threads :
      \/ /\ ClientMayStart(t)
         /\ \/ ListBuckets(t)
            \/ \E b \in Buckets :
                \/ CreateBucketGet(t, b)
                \/ DeleteBucketExists(t, b)
                \/ HeadBucket(t, b)
                \/ \E k \in Keys :
                     \/ \E d \in Data : PutObjectExists(t, b, k, d)
                     \/ GetObjectExists(t, b, k)
                     \/ HeadObjectExists(t, b, k)
                     \/ DeleteObjectExists(t, b, k)
                \/ \E p \in Prefixes, m \in MaxKeysIn, tok \in {NoToken, GarbageToken} :
                     ListObjectsStart(t, b, p, m, tok)
      \/ ListObjectsContinue(t)
      \/ ServerSteps(t)

Spec == Init /\ [][Next]_vars

\* Thread t has a step to take: a handler it is running, or the next page
\* of a truncated listing its client follows.  Every handler step is
\* guarded by pc alone (its disjuncts cover every outcome), and a next
\* page by the last response alone, so this is ENABLED of the fair action.
Pending(t) == pc[t] # "idle" \/ (FollowTokens /\ Following(t))

\* A worker thread runs a handler to its end: storage calls run inline on
\* it and none waits for another thread (no locks, no suspension inside
\* Api::handle).  A client that follows tokens sends the next page.  This
\* is WF_vars(ServerSteps(t) \/ ListObjectsContinue(t)) with ENABLED
\* written as Pending(t).
FairSpec ==
  /\ Spec
  /\ \A t \in Threads :
       <>[]Pending(t) => []<><<ServerSteps(t) \/ ListObjectsContinue(t)>>_vars

-----------------------------------------------------------------------------
(* Invariants and properties                                               *)

PCs == {"idle", "create_put", "delete_bucket_seek", "delete_bucket_delete",
        "put_write", "get_meta", "get_data", "delete_write", "list_scan",
        "list_probe", "head_meta"}

TypeOK ==
  /\ DOMAIN kv \subseteq {bucket_key(b) : b \in Buckets}
                         \cup {meta_key(b, k) : b \in Buckets, k \in Keys}
                         \cup {data_key(b, k) : b \in Buckets, k \in Keys}
  /\ \A x \in DOMAIN kv : /\ x[1] = 66 => kv[x] = ""
                          /\ x[1] = 77 => kv[x] \in {MetaOf(d) : d \in Data}
                          /\ x[1] = 68 => kv[x] \in Data
  /\ pc \in [Threads -> PCs]
  /\ \A t \in Threads :
       /\ req[t].op \in AllOps \cup {NONE}
       /\ resp[t].status \in {NONE, 200, 204, 400, 404, 409, 500}
       /\ Range(pg[t].seen) \subseteq {meta_key(b, k) : b \in Buckets, k \in Keys}
  /\ failed \in [Threads -> BOOLEAN]
  /\ wo \in WriteOptionsIn

\* The spec's key layout (section 4.B), written out independently of the
\* encoding functions above: the meta key of object k of bucket b.
SpecMetaKey(b, k) == <<77, 0>> \o b \o <<0>> \o k
SpecMatching(b, p) == {SpecMetaKey(b, k) : k \in {k \in Keys : StartsWith(k, p)}}
PageLimit(m) == IF m >= 1 /\ m <= 1000 THEN m ELSE 1000

(* Across the pages of one pagination every key list_objects_v2 emits is   *)
(* greater than every key it emitted before: resuming at a continuation    *)
(* token (storage.cpp:377-382, token = last emitted key at :420) never     *)
(* returns a key twice and never goes back, whatever other threads write   *)
(* between the pages.                                                      *)
ListingNoRevisit ==
  \A t \in Threads : \A i \in 1..(Len(pg[t].seen) - 1) :
    BytewiseLess(pg[t].seen[i], pg[t].seen[i + 1])

(* A successful ListObjectsV2 page holds at most max-keys entries (clamped *)
(* to [1, 1000]) and only objects of the requested bucket whose key starts *)
(* with the requested prefix: the scan loop (storage.cpp:386-426) stops at *)
(* the end of the bucket's meta prefix even when another bucket's name     *)
(* extends this one ("a" and "ab").                                        *)
ListedWithinBucket ==
  \A t \in Threads :
    pc[t] = "idle" /\ resp[t].op = "ListObjects" /\ resp[t].status = 200 =>
      /\ Len(resp[t].objs) <= PageLimit(req[t].maxk)
      /\ \A i \in 1..Len(resp[t].objs) :
           resp[t].objs[i] \in SpecMatching(req[t].b, req[t].prefix)

(* When delete_bucket's emptiness test runs (storage.cpp:193-209) it       *)
(* answers BucketNotEmpty only when an object of that bucket is stored at  *)
(* that instant, and goes on to delete the marker only when none is;       *)
(* objects of a bucket whose name extends this one's do not count, and an  *)
(* iterator that failed is neither.                                        *)
DeleteBucketEmptinessExact ==
  [][\A t \in Threads :
       pc[t] = "delete_bucket_seek" /\ pc'[t] # "delete_bucket_seek" =>
         LET stored == \E k \in Keys : SpecMetaKey(req[t].b, k) \in DOMAIN kv
         IN /\ pc'[t] = "idle" /\ resp'[t].status = 409 => stored
            /\ pc'[t] = "delete_bucket_delete" => ~stored]_vars

(* A request in which a RocksDB call returned an error Status is answered  *)
(* with an error of the request or of the server (400 or 500): never a     *)
(* success, never the partial list list_buckets returns with the error,    *)
(* never the 404 that tells the client the bucket or key is absent, nor    *)
(* the 409 of a bucket with objects.  The Status text travels up through   *)
(* bucket_exists' err (storage.cpp:129-132), the callers' `err->empty()`   *)
(* tests, the handlers' checks of err and map_storage_error (s3_api.cpp:   *)
(* 170-177): an I/O error becomes 500, and the InvalidArgument with which  *)
(* RocksDB rejects every write under --disable_wal --sync becomes 400 by   *)
(* the "Invalid" prefix.                                                   *)
StorageErrorsSurface ==
  \A t \in Threads : pc[t] = "idle" /\ failed[t] => resp[t].status \in {400, 500}

(* When a pagination ends (a successful page that is not truncated), every *)
(* object that matched when it began and was never deleted while it ran    *)
(* has been returned on some page (spec section 8, property 5).            *)
ListingComplete ==
  \A t \in Threads :
    pc[t] = "idle" /\ resp[t].op = "ListObjects" /\ resp[t].status = 200 /\ ~resp[t].truncated =>
      pg[t].persist \subseteq Range(pg[t].seen)

(* A successful GetObject returns the ETag of the body it returns (spec    *)
(* section 3, invariant 1: a reader sees metadata and data of one write).  *)
GetReturnsConsistentObject ==
  \A t \in Threads :
    pc[t] = "idle" /\ resp[t].op = "GetObject" /\ resp[t].status = 200 =>
      resp[t].etag = md5_hex(resp[t].body)

(* Every stored object belongs to an existing bucket: buckets are deleted  *)
(* only when empty (spec section 3, lifecycle).                            *)
NoOrphanObjects ==
  \A b \in Buckets, k \in Keys :
    SpecMetaKey(b, k) \in DOMAIN kv => <<66, 0>> \o b \in DOMAIN kv

(* A truncated page carries a continuation token that base64_decode turns  *)
(* back into the last key of the page (storage.cpp:420, util.cpp:238-267), *)
(* so the next request resumes exactly after it.                           *)
ContinuationTokenRoundTrip ==
  \A t \in Threads :
    pc[t] = "idle" /\ Following(t) =>
      base64_decode(resp[t].token) = {resp[t].objs[Len(resp[t].objs)]}

(* A client that requests the next page of every truncated response gets   *)
(* a page that is not truncated, whatever other threads put and delete in   *)
(* between: resuming after the token (storage.cpp:377-382) always moves     *)
(* forward, so a pagination cannot loop.                                    *)
ListingTerminates ==
  \A t \in Threads :
    pc[t] = "idle" /\ Following(t) ~>
      pc[t] = "idle" /\ resp[t].op = "ListObjects" /\ ~resp[t].truncated
-----------------------------------------------------------------------------
(* Refinement of S3Objects                                                 *)

\* The value of an object whose two keys disagree: no state of S3Objects.
Torn == [torn |-> TRUE]

\* The object the key space holds under b and k: the body when the meta
\* key holds that body's metadata, none when neither key is there.
StoredObject(b, k) ==
  LET mk == meta_key(b, k)
      dk == data_key(b, k)
  IN CASE ~Present(mk) /\ ~Present(dk)                     -> NONE
       [] Present(mk) /\ Present(dk) /\ kv[mk] = MetaOf(kv[dk]) -> kv[dk]
       [] OTHER                                             -> Torn

Abs == INSTANCE S3Objects
         WITH buckets <- {b \in Buckets : bucket_key(b) \in DOMAIN kv},
              objects <- [p \in Buckets \X Keys |-> StoredObject(p[1], p[2])],
              NoObject <- NONE

(* The key space, read as buckets and objects, changes only by atomic S3   *)
(* operations (spec.md section 5: writes are linearizable, a PUT's meta    *)
(* and data are one batch): every step of every thread is a step of        *)
(* S3Objects or leaves it unchanged, so put_object's and delete_object's   *)
(* WriteBatches (storage.cpp:242-247, 326-330) never expose half an object *)
(* and the read paths never write.                                         *)
RefinesS3Objects == Abs!Spec
====
