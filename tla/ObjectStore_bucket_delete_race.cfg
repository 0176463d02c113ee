\* DeleteBucket racing a PutObject into the same bucket.
CONSTANTS
  Threads = {t1, t2}
  Data = {d1}
  NONE = NONE
  Buckets <- MCBucketA
  InitBuckets <- MCBucketA
  FollowTokens = FALSE
  IOFaults = FALSE
  WriteOptionsIn <- MCWriteOptionsDefault
  Keys <- MCKeys
  Prefixes <- MCPrefixesEmpty
  MaxKeysIn <- MCMaxKeysOne
  Ops <- MCOpsBucketRace
SYMMETRY MCSymmetry
SPECIFICATION Spec
INVARIANT NoOrphanObjects
