----------------------------- MODULE HttpSession -----------------------------
(***************************************************************************)
(* The gateway's HTTP front end (http_server.cpp: Listener, Session) and   *)
(* the metrics it records (metrics.cpp).  Each connection is a Session     *)
(* whose asynchronous operations are chained (read, handle, write, read    *)
(* again), so a session has one step pending at a time; the sessions run  *)
(* on several io_context threads and meet only in the Metrics object,      *)
(* whose counters are separate atomics.  A GET /metrics request renders    *)
(* the counters with one load per counter while other sessions observe.   *)
(* Time is a discrete clock; latency is measured in its ticks.            *)
(***************************************************************************)
EXTENDS Integers, Sequences, FiniteSets

CONSTANTS
  Sessions,        \* connection slots (a closed slot is reused by accept)
  Sizes,           \* request body sizes the clients send
  MaxObjectBytes,  \* s3::Config::max_object_bytes
  MaxBodyBytes,    \* server::Config::max_request_body_bytes (main.cpp:126)
  BucketsMs,       \* the histogram's upper bounds, a sequence
  MaxTime,         \* the clock stops here
  MaxRequests,     \* requests answered in one behaviour
  NONE

ASSUME /\ MaxTime \in Nat /\ MaxRequests \in Nat
       /\ Sizes \subseteq Nat /\ BucketsMs \in Seq(Nat)

\* Api requests are told apart only by the PUT size guard.
Kinds == {"PUT", "METRICS"}

VARIABLES
  now,       \* the steady clock
  phase,     \* phase[s]: "reading", "writing", "observed", "closed", "dropped"
  start,     \* start[s]: request_start_
  req,       \* req[s]: the request being served [kind, size, keep]
  status,    \* status[s]: status of the last response written, or NONE
  scrape,    \* scrape[s]: what a /metrics render loaded [cum, count]
  inflight,  \* Metrics::inflight_
  latCount,  \* Metrics::latency_count_
  bucketCnt, \* Metrics::bucket_counts_
  served,    \* requests read so far (bounded by MaxRequests)
  lat,       \* lat[s]: the latency of s's Observe in progress (0 outside)
  rest       \* rest[s]: the increment of s's Observe not yet visible

vars == <<now, phase, start, req, status, scrape, inflight, latCount,
          bucketCnt, served, lat, rest>>

NB == Len(BucketsMs)

-----------------------------------------------------------------------------
(* Metrics                                                                 *)

\* The first bucket whose bound is not below the latency (0: none, the
\* latency only counts towards +Inf).
BucketOf(l) ==
  LET I == {i \in 1..NB : l <= BucketsMs[i]}
  IN IF I = {} THEN 0 ELSE CHOOSE i \in I : \A j \in I : i <= j

\* The bucket counts RenderPrometheus prints: running sums.
Cumulative(b) ==
  LET RECURSIVE S(_) S(i) == IF i = 0 THEN 0 ELSE S(i - 1) + b[i]
  IN [i \in 1..NB |-> S(i)]

-----------------------------------------------------------------------------
(* Session                                                                 *)

\* Api::handle's size guard (s3_api.cpp:257); every other outcome is an
\* S3 response the front end treats alike.
ApiStatus(r) == IF r.kind = "PUT" /\ r.size > MaxObjectBytes THEN 413 ELSE 200

\* do_read: a new parser with the body limit, the start of the latency
\* measurement, then async_read.
DoRead(s) ==
  /\ phase' = [phase EXCEPT ![s] = "reading"]
  /\ start' = [start EXCEPT ![s] = now]

\* on_accept: a new Session, with fresh members, on the slot; its run()
\* calls do_read.
Accept(s) ==
  /\ phase[s] \in {"closed", "dropped"}
  /\ DoRead(s)
  /\ req' = [req EXCEPT ![s] = NONE]
  /\ status' = [status EXCEPT ![s] = NONE]
  /\ scrape' = [scrape EXCEPT ![s] = NONE]
  /\ lat' = [lat EXCEPT ![s] = 0]
  /\ UNCHANGED <<now, inflight, latCount, bucketCnt, served, rest>>

\* async_read completes with end_of_stream: do_close.
ReadEndOfStream(s) ==
  /\ phase[s] = "reading"
  /\ phase' = [phase EXCEPT ![s] = "closed"]
  /\ UNCHANGED <<now, start, req, status, scrape, inflight, latCount,
                 bucketCnt, served, lat, rest>>

\* async_read fails: the body is over the parser's body_limit, or the
\* connection broke.  on_read returns and the session is dropped without a
\* response.
ReadError(s, r) ==
  /\ phase[s] = "reading"
  /\ served < MaxRequests
  /\ \/ r.size > MaxBodyBytes
     \/ r.size <= MaxBodyBytes   \* a reset or malformed request
  /\ phase' = [phase EXCEPT ![s] = "dropped"]
  /\ req' = [req EXCEPT ![s] = r]
  /\ status' = [status EXCEPT ![s] = NONE]
  /\ served' = served + 1
  /\ UNCHANGED <<now, start, scrape, inflight, latCount, bucketCnt, lat, rest>>

\* on_read of a request within the limit: IncInFlight, Api::handle, then
\* async_write of the response.
OnReadApi(s, r) ==
  /\ phase[s] = "reading"
  /\ served < MaxRequests
  /\ r.kind # "METRICS" /\ r.size <= MaxBodyBytes
  /\ inflight' = inflight + 1
  /\ phase' = [phase EXCEPT ![s] = "writing"]
  /\ req' = [req EXCEPT ![s] = r]
  /\ status' = [status EXCEPT ![s] = ApiStatus(r)]
  /\ served' = served + 1
  /\ UNCHANGED <<now, start, scrape, latCount, bucketCnt, lat, rest>>

\* on_read of GET /metrics: IncInFlight, then RenderPrometheus, which loads
\* the bucket counts one by one and, after them, latency_count_.  The loads
\* of the buckets are this step, the load of the count the next.
OnReadMetrics(s, r) ==
  /\ phase[s] = "reading"
  /\ served < MaxRequests
  /\ r.kind = "METRICS" /\ r.size = 0
  /\ inflight' = inflight + 1
  /\ phase' = [phase EXCEPT ![s] = "rendering"]
  /\ req' = [req EXCEPT ![s] = r]
  /\ scrape' = [scrape EXCEPT ![s] = [cum |-> Cumulative(bucketCnt), count |-> NONE]]
  /\ served' = served + 1
  /\ UNCHANGED <<now, start, status, latCount, bucketCnt, lat, rest>>

RenderCount(s) ==
  /\ phase[s] = "rendering"
  /\ scrape' = [scrape EXCEPT ![s].count = latCount]
  /\ status' = [status EXCEPT ![s] = 200]
  /\ phase' = [phase EXCEPT ![s] = "writing"]
  /\ UNCHANGED <<now, start, req, inflight, latCount, bucketCnt,
                 served, lat, rest>>

\* Metrics::Observe increments latency_count_ (metrics.cpp:60) and then a
\* bucket (:64-69), both with memory_order_relaxed: no other thread is
\* ordered after either, so a render may see them in either order.  Each
\* becomes visible in a step of its own, in an order chosen per Observe.
ObserveHalves == {"count", "bucket"}

\* One half of Observe for latency l: the count, or the bucket of l.
ObserveHalf(which, l) ==
  IF which = "count"
  THEN /\ latCount' = latCount + 1 /\ UNCHANGED bucketCnt
  ELSE /\ bucketCnt' = IF BucketOf(l) = 0 THEN bucketCnt
                       ELSE [bucketCnt EXCEPT ![BucketOf(l)] = @ + 1]
       /\ UNCHANGED latCount

\* A plausible bug: the gauge left up when the write failed.
GaugeOnWriteAfterEc(g, ec) == IF ec THEN g ELSE g - 1

\* DecInFlight, before the error check of on_write (http_server.cpp:83-85).
GaugeOnWrite(g, ec) == g - 1

\* async_write completes: on_write takes the latency from request_start_
\* and calls Observe.
OnWriteObserve(s) ==
  /\ phase[s] = "writing"
  /\ lat' = [lat EXCEPT ![s] = now - start[s]]
  /\ \E first \in ObserveHalves :
       /\ ObserveHalf(first, now - start[s])
       /\ rest' = [rest EXCEPT ![s] = CHOOSE h \in ObserveHalves : h # first]
  /\ phase' = [phase EXCEPT ![s] = "observed"]
  /\ UNCHANGED <<now, start, req, status, scrape, inflight, served>>

\* The rest of on_write: the other half of Observe, DecInFlight, then drop
\* on a write error, close when the response needs EOF, else read again.
OnWriteFinish(s, ec) ==
  /\ phase[s] = "observed"
  /\ ObserveHalf(rest[s], lat[s])
  /\ rest' = [rest EXCEPT ![s] = NONE]
  /\ lat' = [lat EXCEPT ![s] = 0]
  /\ inflight' = GaugeOnWrite(inflight, ec)
  /\ \/ /\ ec
        /\ phase' = [phase EXCEPT ![s] = "dropped"] /\ UNCHANGED start
     \/ /\ ~ec /\ ~req[s].keep
        /\ phase' = [phase EXCEPT ![s] = "closed"] /\ UNCHANGED start
     \/ /\ ~ec /\ req[s].keep
        /\ DoRead(s)
  /\ UNCHANGED <<now, req, status, scrape, served>>

\* Time passes; a client may be slow to send its next request.
Tick ==
  /\ now < MaxTime
  /\ now' = now + 1
  /\ UNCHANGED <<phase, start, req, status, scrape, inflight, latCount,
                 bucketCnt, served, lat, rest>>

Requests == [kind : Kinds, size : Sizes, keep : BOOLEAN]

Init ==
  /\ now = 0
  /\ phase = [s \in Sessions |-> "reading"]
  /\ start = [s \in Sessions |-> 0]
  /\ req = [s \in Sessions |-> NONE]
  /\ status = [s \in Sessions |-> NONE]
  /\ scrape = [s \in Sessions |-> NONE]
  /\ inflight = 0
  /\ latCount = 0
  /\ bucketCnt = [i \in 1..NB |-> 0]
  /\ served = 0
  /\ lat = [s \in Sessions |-> 0]
  /\ rest = [s \in Sessions |-> NONE]

Next ==
  \/ Tick
  \/ \E s \in Sessions :
       \/ Accept(s)
       \/ ReadEndOfStream(s)
       \/ \E r \in Requests :
            \/ ReadError(s, r)
            \/ OnReadApi(s, r)
            \/ OnReadMetrics(s, r)
       \/ RenderCount(s)
       \/ OnWriteObserve(s)
       \/ \E ec \in BOOLEAN : OnWriteFinish(s, ec)

Spec == Init /\ [][Next]_vars

(* Once a request is read, the rest of its handling is the session's own   *)
(* chain: RenderPrometheus runs synchronously inside on_read, and on_write *)
(* runs when the client takes the response (the gateway assumes clients   *)
(* read what they asked for).  Each of these steps stays enabled until it  *)
(* is taken, so weak fairness on each is what the io_context gives.        *)
(* Reading, accepting and the clock are the clients' and get no fairness.  *)
FairSpec ==
  /\ Spec
  /\ \A s \in Sessions :
       /\ WF_vars(RenderCount(s))
       /\ WF_vars(OnWriteObserve(s))
       /\ WF_vars(\E ec \in BOOLEAN : OnWriteFinish(s, ec))

-----------------------------------------------------------------------------
(* Properties                                                              *)

(* The in-flight gauge counts exactly the sessions between IncInFlight in  *)
(* on_read and DecInFlight in on_write, whatever the write's outcome: a   *)
(* response whose write fails must not leave the gauge up.                 *)
InFlightMatchesSessions ==
  inflight = Cardinality({s \in Sessions :
                            phase[s] \in {"rendering", "writing", "observed"}})

(* When the clients stop sending, http_requests_inflight returns to zero:  *)
(* every session that passed IncInFlight in on_read reaches DecInFlight in *)
(* on_write, whether the write succeeded or failed, so the gauge a scraper *)
(* reads after traffic ends shows no phantom requests.                     *)
InFlightDrains == served = MaxRequests ~> inflight = 0
====
