# TLA+ models of the S3 RocksDB gateway

This directory holds TLA+ models of the repository's C++ code, checked with TLC.
Every definition is translated from the source under `src/`. `PROJECT.json`
maps each definition to the lines it models.

## The system

The repository has two programs.

**`s3_rocksdb_gateway`** is an S3-compatible HTTP server backed by RocksDB.
- **HTTP front end** (`http_server.cpp`): a Boost.Beast `Listener` accepts
  connections. A `Session` per connection reads a request, calls `Api::handle`
  and writes the response. Its body limit is `max_request_body_bytes`.
  `main.cpp` runs `io_context::run` on `--threads` worker threads, so the
  handlers of different connections run concurrently.
- **S3 API** (`s3_api.cpp`): `Api::handle` does the following in order:
  1. verifies SigV4 (`sigv4.cpp`);
  2. rejects a PUT body above `max_object_bytes`;
  3. parses the target (path or virtual host style);
  4. dispatches to the bucket operations (PUT/HEAD/DELETE/GET=ListObjectsV2) or
     the object operations (PUT/GET with Range/HEAD/DELETE);
  5. maps storage errors to HTTP statuses (`map_storage_error`).
- **Object store** (`storage.cpp`, `RocksObjectStore`): buckets and objects
  live in one ordered key space:
  - `B\0<bucket>` is the bucket marker;
  - `M\0<bucket>\0<key>` is the encoded metadata (size, mtime, md5 ETag, content type);
  - `D\0<bucket>\0<key>` is the object body.

  A PUT writes the D and M keys in one `WriteBatch`. A listing is an iterator
  scan of `M\0<bucket>\0<prefix>…`, paginated with a base64 continuation token
  holding the last emitted meta key. Truncation is decided by a probe with a
  second iterator. No method takes a lock: every RocksDB call is atomic on its
  own, and an operation is a sequence of such calls.
- **Utilities and metrics** (`util.cpp`, `metrics.cpp`): percent coding,
  base64, hashes and time formatting; Prometheus counters, gauges and histograms.

**`index_layer`** is a prefix cache over an S3 bucket.
- `PrefixCache` (`cache.cc`) stores token sequences as objects named by a hash
  of their content. It keeps an in-memory map from prefix hashes to object
  names, which `Lookup` uses for the longest cached prefix.
- `S3Storage` (`s3_storage.cc`) is its HTTP client and fetches objects, or a
  byte range of one.
- `main.cpp` is a command-line tool that runs one command per process.

## Modules

| Module | Models | Source |
|---|---|---|
| `KVOrder` | The RocksDB semantics the store relies on: bytewise key order, `Seek`, `Next`, `Put`/`Delete` of a batch. This is library behaviour, not code of the repository, so it is not mapped. | (RocksDB) |
| `Base64` | `util::base64_encode` and `util::base64_decode` over OpenSSL's `EVP_EncodeBlock`/`EVP_DecodeBlock`, as recursive operators on byte sequences. The OpenSSL routines (the alphabet, white-space trimming, the `n % 4` check) are library behaviour and not mapped; the padding arithmetic of `base64_decode` is. | `util.cpp` |
| `S3Objects` | The abstract object store of spec.md sections 3 and 5: buckets and an object map, each S3 write one atomic step. It models the spec's promise, not code, so it is not mapped. | (spec.md) |
| `ObjectStore` | The object store as driven by `Api::handle` on concurrent threads; continuation tokens are coded with `Base64`. | `storage.cpp`, `s3_api.cpp`, `util.cpp` |
| `RangeRead` | `parse_single_range`, `trim_and_collapse_ws`, `std::from_chars`, and the Range branch of the GetObject handler, as pure operators. | `s3_api.cpp`, `util.cpp` |
| `HttpSession` | The per-connection cycle of `Session` (read, handle, write) on several threads, and the `Metrics` atomics it updates and a `/metrics` scrape loads. | `http_server.cpp`, `metrics.cpp`, `main.cpp` |
| `PrefixIndex` | `PrefixMap::Store`/`Lookup`/`Load` of the index layer over a bucket. A Range `Load` goes through `RangeRead`'s handler (`INSTANCE RangeRead`). | `cache.cc`, `s3_storage.cc`, `index_layer/main.cpp` |
| `SigV4` | `verify_sigv4` with both forms (Authorization header, presigned query), the canonical request and `parse_target`'s routing (`bucket_from_host`, virtual-host and path style), against a network that replays and tampers with signed requests. | `sigv4.cpp`, `util.cpp`, `s3_api.cpp` |
| `MCObjectStore`, `MCHttpSession`, `MCPrefixIndex`, `MCSigV4` | Constants for TLC: small names, bodies and sizes, and symmetry sets. | — |

### ObjectStore: state and actions

**State.**
- `kv` is the RocksDB key space, a function from present keys to values. Keys
  are byte sequences, encoded exactly as `bucket_key`, `meta_key` and
  `data_key` do.
- Each thread `t` has:
  - `pc[t]`, the next RocksDB call of its handler;
  - `req[t]`, the request;
  - `loc[t]`, the locals carried across calls: the metadata read by
    `head_object` and the entries of a full page;
  - `resp[t]`, the response of its last request.
- `pg[t]` is a history variable. It is not in the code and holds what the
  listing properties need:
  - `seen`: the keys emitted by the current pagination;
  - `persist`: the matching keys present when the pagination began and not
    deleted since.
- `failed[t]` is a second history variable: a RocksDB call of `t`'s current
  request returned an error Status.

**Actions.** Each action is one RocksDB call together with the local code
around it. An early return (NUL in a name, missing bucket, bad token) ends the
handler with the status `map_storage_error` gives.

**I/O faults.** When the constant `IOFaults` is TRUE, every RocksDB call of
the table below may return an error Status (`CallStatus`), except the scan
and probe iterators of `list_objects_v2`. The fault is chosen inside the
action of that call, and the action follows the code's error path:
- `bucket_exists` is an operator returning the result and `err`
  (`st.ToString()`, `StatusText`: "IO error: ..." for a fault); its callers turn an empty `err` into
  NoSuchBucket (`NoBucketErr`), and `ExistsStep` is the shared first step of
  `put_object`, `head_object`, `delete_object` and `delete_bucket`;
- `EmptinessTest` is `delete_bucket`'s seek: a failed iterator is not Valid,
  so the test reaches the status check and returns the error;
- a failed Put, Delete or Write leaves `kv` unchanged (`CallFailed`): RocksDB
  applies a batch whole or not at all;
- `list_buckets` returns its partial list together with `err`, and the
  handler answers the error.

**Write options.** The constant `WriteOptionsIn` is the set of `WriteOptions`
the process may start with (`main.cpp:104-106`), and `wo` is the one chosen
in `Init`, fixed for the run. With `--disable_wal --sync`, RocksDB rejects
every write with `InvalidArgument` ("Invalid argument: Sync writes has to
enable WAL."), so in that case `WriteStatus` is that status for every
Put/Delete/Write. `map_storage_error` classifies the text as the code does,
by its "Invalid" prefix (`StartsWithInvalid`, `s3_api.cpp:174`): such a write
is answered 400 InvalidRequest, while an I/O error gets 500.

The failure assumption is the one RocksDB's API makes: any call can fail,
independently of the others, and a failed write applies nothing. The model
does not retry: neither the gateway nor RocksDB's callers here do.

| Operation | Actions (one per RocksDB call) |
|---|---|
| `create_bucket` | `CreateBucketGet` (Get of the marker), `CreateBucketPut` |
| `bucket_exists` (HEAD bucket) | `HeadBucket` (one Get) |
| `list_buckets` (GET /) | `ListBuckets` (one iterator over `B\0`, `BucketNamesFrom`) |
| `delete_bucket` | `DeleteBucketExists` (bucket_exists), `DeleteBucketSeek` (emptiness seek), `DeleteBucketDelete` |
| `put_object` | `PutObjectExists`, `PutObjectWrite` (one batch) |
| `get_object` | `GetObjectExists`, `GetObjectMeta` (head_object's Get), `GetObjectData` |
| `head_object` (HEAD object) | `HeadObjectExists`, `HeadObjectMeta` |
| `delete_object` | `DeleteObjectExists`, `DeleteObjectWrite` (one batch) |
| `list_objects_v2` | `ListObjectsStart` / `ListObjectsContinue` (bucket_exists and token decode), `ListObjectsScan` (the main iterator over its snapshot), `ListObjectsProbe` (the fresh truncation iterator) |

`ListObjectsContinue` is the client re-issuing its request with the token of a
truncated response. Its body abstractions are as follows:
- an object body is a model value;
- `md5_hex` is an injective digest;
- `encode_meta`/`decode_meta` is a lossless round trip, since the only NULs are
  the separators;
- a continuation token is text: empty, the `base64_encode` of a page's last
  meta key (as the probe issues it), or `!!!!`, which `EVP_DecodeBlock`
  rejects.

A request other than a next page ends the thread's pagination history. When
the constant `FollowTokens` is TRUE, a client whose last response was a
truncated page sends nothing but the next page (`ClientMayStart`). `pg.seen`
stops growing once it holds more than `Cardinality(Keys)` entries
(`SeenBound`). A pagination that never revisits a key cannot get that far. A
pagination that loops therefore returns to an earlier state, and TLC can see
the cycle.

## ObjectStore runs

All runs use `MCObjectStore` with two threads. The names are as follows:
- buckets `a`, `ab` (an extension of `a`) and, where validation matters, `a\0`;
- keys `a`, `b`;
- prefixes: `""` and `\0` in `listing`, `""` and `b` in `listing_complete`
  (which exercises the prefix filter), `""` elsewhere;
- `max-keys` values 0 (clamped to 1000) and 1 (several pages).

| Run | Expect | Checks |
|---|---|---|
| `listing` | pass | `TypeOK`, `ListingNoRevisit`, `ListedWithinBucket`, `ContinuationTokenRoundTrip`, `ListingTerminates`, `RefinesS3Objects`, with puts, deletes and one-key pages of buckets `a` and `ab`, clients following every token, under `FairSpec` |
| `buckets` | pass | `StorageErrorsSurface`, `DeleteBucketEmptinessExact`, with create/HEAD/delete bucket, ListBuckets, put/get/HEAD/delete object, NUL names, every RocksDB call able to fail (`IOFaults`), and the process started either with the default options or with `--disable_wal --sync` |
| `listing_complete` | pass | `ListingComplete`, with puts, listings and deletes of empty buckets |
| `list_probe_race` | violation | `ListingComplete` once objects can be deleted |
| `get_torn_read` | violation | `GetReturnsConsistentObject` |
| `bucket_delete_race` | violation | `NoOrphanObjects` |

What the properties say:
- **`ListingNoRevisit`**: across the pages of one pagination, every emitted
  key is greater than the ones before. This is spec §8 property 5, "never
  revisits".
- **`ContinuationTokenRoundTrip`**: the token of a truncated page
  `base64_decode`s to exactly the page's last key, so the next request
  resumes after it. A mutant that counts the padding from the wrong character
  breaks it.
- **`ListingTerminates`** (liveness): a client that follows every token gets
  a page that is not truncated. This holds even while the other thread puts
  and deletes keys. Resuming at the token without stepping past it makes the
  pagination loop.
- **`ListedWithinBucket`**: a page has at most `max-keys` entries (clamped),
  all of the requested bucket and prefix.
- **`DeleteBucketEmptinessExact`** (an action property): `delete_bucket`'s
  seek reports BucketNotEmpty only when an object of that bucket exists at
  that instant, and goes on to delete the marker only when none does. The
  meta prefix without its closing NUL breaks the first half (bucket `a` sees
  the objects of `ab`); dropping the `it->status()` check after the Seek
  breaks the second, since a failed iterator then reads as empty.
- **`StorageErrorsSurface`**: a request in which a RocksDB call failed is
  answered 400 or 500, never as a success, a NoSuchBucket/NoSuchKey or the partial
  bucket list. The error has to pass through `bucket_exists`' `err`, the
  callers' `err->empty()` tests, the handlers' checks of `err` and
  `map_storage_error`. A `bucket_exists` that reports a failed Get like
  NotFound (no `err`) breaks it: the client is told the bucket does not
  exist. Which of 400 and 500 depends on the Status text: under
  `--disable_wal --sync` a write's `InvalidArgument` gives 400, while
  spec.md §7 maps every KV error to 500. That disagreement is recorded as a
  hazard (`s3_api.cpp:174`) rather than a violation run.
- **`ListingComplete`**: a finished pagination has returned every key that
  matched throughout it.
- **`GetReturnsConsistentObject`**: a 200 GET returns the ETag of the body it
  returns.
- **`NoOrphanObjects`**: every stored object has a bucket marker.
- **`RefinesS3Objects`**: `ObjectStore` implements `S3Objects`. The
  refinement mapping reads the buckets from the `B\0` markers and the object
  under `(b, k)` from the two keys: the body when the meta key holds that
  body's metadata, none when neither key exists, and a `Torn` value that no
  `S3Objects` state has otherwise. Every step of every thread is then a
  `CreateBucket`, `DeleteBucket`, `PutObject` or `DeleteObject` of the
  abstract map, or leaves it unchanged. A delete batch short of the data key
  breaks it. It is checked in `listing`, where buckets are not deleted. With
  `DeleteBucket` racing `PutObject` it fails, which is the orphan-object
  finding below: the marker is deleted while the bucket is not empty.

The last three properties are stated in spec.md. TLC finds counterexamples to
them, recorded as findings in `PROJECT.json`:
- **Torn GET.** `get_object` reads M and D with two Gets, so an overwriting
  PUT between them mixes two versions.
- **Orphan objects.** `delete_bucket` checks emptiness and then deletes the
  marker, while `put_object` checks the marker and then writes; interleaved,
  the object outlives its bucket.
- **Lost key in a listing.** If the last key of a full page is deleted before
  the truncation probe runs, the probe's `Seek` lands on the next key and its
  `Next` skips it. `IsTruncated` is then false although a matching key
  remains, and the pagination never returns that key.

**Bounds.** Two threads are enough for every race above, since each involves
two handlers. Two buckets, one extending the other, are the smallest case in
which the NUL separator matters. Two keys and `max-keys=1` give two pages and a
continuation token. Each run restricts the operations to those its question
needs, to stay within a few minutes:
- `listing` has about 45k distinct states, with no symmetry, because it
  checks liveness (about 40 s);
- `buckets` has about 49k (about 30 s) with faults on and two start-up
  option sets;
- `listing_complete` has about 125k.

Symmetry over threads and object bodies is sound for the safety runs because
no property names a particular thread or body. `listing` checks a liveness
property, so it runs without symmetry.

## RangeRead

The module enumerates every Range header of the form unit + text, where the
unit is `bytes=`, ` bytes=` or the misspelt `bytes`. The text is up to four
characters of `0 1 2 - , ␠ x`, and objects are 0 to 3 bytes. Each state is
one GET: `resp = GetResponse(hdr, data)`. Characters are one-character
strings, because the property is about the parse itself. `from_chars` is
modelled as it behaves: an optional `-`, then the longest run of digits. It
fails only when there is no digit. The handler's copy
`data.begin()+start .. end+1` is `Slice`, which yields `NONE` for a byte
outside the body (undefined behaviour).

| Run | Expect | Checks |
|---|---|---|
| `range_parse` (33,616 states) | pass | `PartialContentInBounds`: a 206 slice lies in the body and matches its Content-Range. `WellFormedRangesAsSpecified`: the three forms of spec.md §5 get the range the spec defines, or 416. |

**Observation, not kept as a run.** `parse_i64` never checks that `from_chars`
reached the end of the text. `bytes=0 -`, `bytes=1x-2` and `bytes=-1-` are
therefore answered 206, although spec.md §5 says malformed values yield 416.
A strict "malformed → 416" invariant fails on them. It is recorded as a hazard.

## HttpSession

**State.**
- `phase[s]` is where session `s`'s chain of asynchronous operations stands:
  reading, rendering (a `/metrics` render between its loads), writing,
  observed (between the two halves of `Observe`), closed or dropped.
- `start[s]` is `request_start_`, and `lat[s]` is the latency of the last
  `Observe`.
- `inflight`, `latCount` and `bucketCnt` are the `Metrics` atomics.
- `scrape[s]` is what a render loaded.

**Actions.**
- `Accept` is a new `Session` on a free slot.
- `ReadEndOfStream`, `ReadError` (the body limit, or a broken connection),
  `OnReadApi` and `OnReadMetrics` are the outcomes of `async_read`.
- `RenderCount` is the load of `latency_count_` after the bucket loads.
- `OnWriteObserve` and `OnWriteFinish` are `on_write`: the first half of
  `Observe`, then the second half, `DecInFlight`, and drop, close or read again.
- `Tick` advances the clock.

Each step is one atomic access or one handler's local code. Sessions on
different threads interleave between those steps.

| Run | Expect | Checks |
|---|---|---|
| `http_session` (1,073,444 states) | pass | `InFlightDrains`: once the clients stop sending, the gauge returns to zero. `InFlightMatchesSessions`: the gauge equals the number of sessions between IncInFlight and DecInFlight, even after failed writes. |

**Relaxed metrics.** `Observe` increments `latency_count_` and then one
bucket with `memory_order_relaxed` (`metrics.cpp:60-69`). Nothing orders the
two increments for another thread, so the model makes them visible in either
order (`ObserveHalves`): `OnWriteObserve` applies one half and records the
other in `rest`, and `OnWriteFinish` applies it. A scrape between the two
can then print a bucket above `_count`. With this model TLC violates the
invariant "every scraped bucket <= `_count`". That is a hazard of the code,
not a run, because the runs are already spent on other questions.

Bounds: two sessions, three requests, three ticks, and the histogram bounds
1 and 2 ms. This lets a latency fall into either bucket or beyond both. The
sizes 0 and 2 against a limit of 1 reach both body-limit outcomes.

**Observations, not kept as runs.** Both are recorded as hazards.
- `do_read` sets `request_start_` before `async_read`. The recorded latency
  therefore includes a keep-alive client's idle time, while spec.md §4.E
  measures from read completion.
- `main.cpp:126` sets `max_request_body_bytes = max_object_bytes`. An
  oversize PUT therefore fails in the parser and the connection is dropped
  with no response, so the 413 guard of `Api::handle` is unreachable.

## PrefixIndex

**State.**
- `storage` is the bucket: object id to bytes.
- `prefix_map` and `obj_table` are the in-memory tables.
- `version_clock` is the version counter.
- `res` is the result of the last call.
- `hist` is a history variable: this process's successful Stores.
- `restarts` counts processes after the first.

`HashTokens` is the 0x1F-joined text. `std::hash` is taken as injective, so
only collisions of the join itself can happen. Object ids are the data,
because ids are content hashes.

**Actions.**
- `Store`: a failed `Put` changes only `res`. A successful one writes the
  object and entries for every aligned prefix length, with `UsableBytes`.
- `Lookup`: the longest aligned prefix reached before the first miss.
- `Load`: `GetRange` with the `bytes=0-(n-1)` header, answered by the
  gateway's Range handler from `RangeRead`.
- `Restart`: the CLI runs one command per process and parses its flags
  (`bpt`) anew, so a restart gives a fresh
  `PrefixMap` over the same bucket.

| Run | Expect | Checks |
|---|---|---|
| `index` (26,760 states) | pass | `LookupAsSpecified`: Lookup returns the longest stored prefix and the last object stored under it, compared with a reference over `hist`. `UsableBytesAsSpecified`: `UsableBytes` (its clamps and its proportional double arithmetic) equals spec.md §8's definition, the floor of `l * bytes / tokens` at least 1, or `l * bytes_per_token` at most the object size, for every length, token count and size up to 4. `LoadReturnsUsablePrefix`: Load returns exactly the usable bytes through the gateway's parse. |

`UsableBytes` multiplies `prefix_len` by `bytes_per_token_` in `int`, which overflows past 2^31 - 1. TLC's integers have the same width, so the wrapped value cannot be computed: the module ASSUMEs `MaxTokens * b` stays in range for every `--bytes-per-token` value `b` of `BytesPerTokenFlags`, and the overflow is a hazard without a property.

Bounds: tokens `a` and `b`, sequences of up to two tokens, two bodies of 1
and 3 bytes, two Stores per process and one restart. `bpt` is the
`--bytes-per-token` flag, chosen at each process start from {0, 1}: 0 is the
CLI default (proportional), 1 takes the multiplying branch. `BlockSize` is
1, so every prefix length is aligned; no token holds the 0x1F separator, so
the join's ambiguity (a hazard) is not reached by this run.

**Observations, not kept as runs.** Both are recorded as hazards.
- A token containing 0x1F makes `["a\x1fb"]` collide with `["a","b"]`.
  Spec.md §4.F says the separator prevents this. The pass run uses tokens
  free of 0x1F.
- Because every CLI command is a new process, a `lookup` after a separate
  `store` always misses.

`cache.h` declares `Store` with a fifth `skip_put` parameter that `cache.cc`
does not define. The model follows the definition in `cache.cc`.

## SigV4

`VHostSuffix` is `--virtual_host_suffix`, as bytes. When it is empty (the
default) the client signs a PUT `/a/b` with a body, or a GET `/a?prefix=a`,
with Host `gw`. When it is `gw`, the client addresses bucket `a` by Host
`a.gw` instead: PUT `/a/b` (key `a/b`), an empty PUT `/%25` (key `%`), or GET `/?prefix=a`. The network may send the
last as `/%`, which does not decode: `parse_target` then routes the raw bytes and
`canonical_uri` encodes them, and the two fallbacks agree. Either way it
signs with the Authorization header (with or without `x-amz-content-sha256`) or as a
presigned URL. The network (`Tampered`) then replays the request or changes
one of these fields:
- the path, among `/a/b`, `/a%2Fb`, `/%61/b`, `/b` and the undecodable `/%`;
- the Host, among `gw`, `b.gw` and `a.gw:1`;
- the query, the method, the body, or a signed header (removed).

`Deliver` runs `verify_sigv4` at the current time. `Route(host, path)` is
`parse_target`: `bucket_from_host` (port stripped, suffix and dot boundary
required, empty bucket refused) picks virtual-host style, whose key is the
whole path less its `/`, decoded; otherwise the path is split at the first
raw `/` and both parts decoded.

The abstractions are these:
- SHA-256 and HMAC are injective constructors, so a signature can only be
  made with the secret.
- Percent coding is exact over byte values.
- The header and query parsing follow the code's branches, including the
  fallback from the header form to the presigned form.

| Run | Expect | Checks |
|---|---|---|
| `sigv4` (64,627 states) | pass | `SignedPartsAuthentic`: an accepted request has the method, canonical URI, canonical query and payload hash of a request the client signed. `SignedRequestsAccepted`: an untouched signed request is accepted, a presigned one only until its `X-Amz-Date` plus `X-Amz-Expires`. `AcceptedRouteAsSigned`, under virtual-host style: every accepted request routes to the bucket and key that were signed, because Host is signed and a decoded `%2F` stays inside the key. |
| `sigv4_route` | violation | `AcceptedRouteAsSigned`, path style: the PUT signed for `/a/b` is accepted as `/a%2Fb`, which routes to bucket `a/b`. `canonical_uri` decodes `%2F` before re-encoding, while routing splits at the raw `/`. |
| `sigv4_expiry` | violation | `PresignedWithinExpiry`: a presigned URL is accepted after `X-Amz-Date + X-Amz-Expires`, because nothing compares them with the clock. |

**Observation, not kept as a run.** The value of `x-amz-content-sha256` is
signed but never compared with the hash of the body. A header-signed PUT is
therefore accepted with any body. It is recorded as a hazard.

**Observation, not kept as a run.** `verify_with_parts` does not require
`host` among the signed headers. Under virtual-host style a request signed
without it could be re-addressed to another bucket by its Host. The modelled
clients sign `host`, as SigV4 requires of them; the hazard list records it.

## Fairness and deadlock

Two properties need fairness.

**`InFlightDrains`** is checked under `HttpSession!FairSpec`, which conjoins
`WF_vars` of each session's `RenderCount`, `OnWriteObserve` and
`OnWriteFinish`. The render runs synchronously inside `on_read`, so it
cannot be postponed forever. `on_write` runs when the client has taken the
response, which the property assumes: `Session` sets no timeout, so a client
that stops reading holds its session (a hazard). Accepting, reading and the
clock get no fairness, since they wait on clients. The run has no symmetry,
because TLC's liveness checking is unsound under it.

**`ListingTerminates`** is checked under `ObjectStore!FairSpec`. This is weak fairness, per thread, of that thread's
server steps (`ServerSteps(t)`: every RocksDB call after the first of a
handler) and of `ListObjectsContinue(t)`. The code justifies it:
- a handler runs inline on one worker thread;
- it takes no lock and never waits for another thread;
- so once started, it keeps being able to take its next call.

The next page stands for a client that follows tokens, which is what
`FollowTokens` assumes. Starting a fresh request stays unfair: a client may
stop at any time.

`FairSpec` writes this weak fairness out as
`<>[]Pending(t) => []<><<...>>_vars`, with `Pending(t)` in place of
`ENABLED`. TLC does not cache LET values while it evaluates `ENABLED`, and the
nested `Seek`/`After` of the list steps then cost too much. `Pending(t)` is
"pc is not idle, or the last response is a truncated page the client
follows". It equals `ENABLED (ServerSteps(t) \/ ListObjectsContinue(t))`,
because:
- each handler step is guarded by its pc alone;
- its disjuncts cover every outcome.

The equality was checked as an invariant over every reachable state of a
one-thread listing instance (769 states, both page sizes, all three prefixes).

Deadlock checking stays on in every run:
- in `ObjectStore`, an idle thread can always start a request;
- in `HttpSession`, a closed slot can always be re-accepted;
- in `PrefixIndex`, `Lookup` and `Load` are always enabled;
- in `SigV4`, `Deliver` of any issued request is always enabled.

`RangeRead` is a pure function whose `Next` is a stuttering step.

## Not modelled yet, and the plan

- **Pure algorithms** still to check against reference definitions: a
  percent-coding round trip.
- **Altered continuation tokens**: `base64_decode` counts the padding from
  the raw text, while OpenSSL trims white space first. A token with a
  trailing newline therefore keeps a spurious byte. The clients of the model
  send only issued tokens or non-base64 text.
- **Repeated query parameters**: `qp_get` takes the first occurrence, while the
  canonical query sorts all of them.
- **The 405 answers** to unsupported methods (one status per route).
- **Crash and restart** with `--disable_wal`: acknowledged writes can be lost.
  With the WAL on, a restart recovers every acknowledged write and there is
  nothing for a crash model to show; with it off the loss is by design of the
  flag.
- **Faults of the listing iterators**: a failed probe iterator ends a
  pagination as not truncated (its status is never checked). It shows as the
  same `ListingComplete` violation the `list_probe_race` run reports, so no
  run of its own is given to it.
- **A refinement** of `PrefixIndex` to an abstract prefix-to-object map.
- **Left out for good**: metrics text rendering, XML formatting and flag
  parsing (formatting only); RocksDB internals (an external collaborator); the
  tests and the stress harness.
