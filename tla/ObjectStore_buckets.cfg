\* Bucket lifecycle: two threads create and delete buckets "a" and "ab" and
\* put, get and delete objects in them; names with a NUL byte are rejected.
CONSTANTS
  Threads = {t1, t2}
  Data = {d1}
  NONE = NONE
  Buckets <- MCBucketsNul
  InitBuckets <- MCNoBuckets
  FollowTokens = FALSE
  IOFaults = TRUE
  WriteOptionsIn <- MCWriteOptionsSyncNoWal
  Keys <- MCKeysNul
  Prefixes <- MCPrefixesEmpty
  MaxKeysIn <- MCMaxKeysOne
  Ops <- MCOpsBucketLifecycle
SYMMETRY MCSymmetry
SPECIFICATION Spec
INVARIANT StorageErrorsSurface
PROPERTY DeleteBucketEmptinessExact
