------------------------------ MODULE S3Objects ------------------------------
(***************************************************************************)
(* What the object store promises its clients (spec.md sections 3 and 5):  *)
(* a set of buckets and, for every bucket and key, the body of the object  *)
(* stored there or none.  Each S3 write is one atomic, linearizable step:  *)
(* a PUT replaces the whole object at once, a DELETE removes it at once,   *)
(* buckets are created idempotently and deleted only when empty.  Reads   *)
(* change nothing and are not steps of this specification.                 *)
(***************************************************************************)
CONSTANTS
  Buckets,      \* bucket names
  Keys,         \* object keys
  Data,         \* object bodies
  InitBuckets,  \* buckets that exist at the start
  NoObject      \* the value of a (bucket, key) holding no object

VARIABLES
  buckets,  \* the buckets that exist
  objects   \* objects[<<b, k>>]: the body stored under k in b, or NoObject

absVars == <<buckets, objects>>

Init ==
  /\ buckets = InitBuckets
  /\ objects = [p \in Buckets \X Keys |-> NoObject]

Empty(b) == \A k \in Keys : objects[<<b, k>>] = NoObject

CreateBucket(b) ==
  /\ buckets' = buckets \cup {b}
  /\ UNCHANGED objects

DeleteBucket(b) ==
  /\ b \in buckets /\ Empty(b)
  /\ buckets' = buckets \ {b}
  /\ UNCHANGED objects

PutObject(b, k, d) ==
  /\ b \in buckets
  /\ objects' = [objects EXCEPT ![<<b, k>>] = d]
  /\ UNCHANGED buckets

DeleteObject(b, k) ==
  /\ b \in buckets
  /\ objects' = [objects EXCEPT ![<<b, k>>] = NoObject]
  /\ UNCHANGED buckets

Next ==
  \E b \in Buckets :
    \/ CreateBucket(b)
    \/ DeleteBucket(b)
    \/ \E k \in Keys : \/ \E d \in Data : PutObject(b, k, d)
                       \/ DeleteObject(b, k)

Spec == Init /\ [][Next]_absVars
====
