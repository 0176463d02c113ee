\* GetObject racing a PutObject that overwrites the same object.
CONSTANTS
  Threads = {t1, t2}
  Data = {d1, d2}
  NONE = NONE
  Buckets <- MCBucketA
  InitBuckets <- MCBucketA
  FollowTokens = FALSE
  IOFaults = FALSE
  WriteOptionsIn <- MCWriteOptionsDefault
  Keys <- MCKeys
  Prefixes <- MCPrefixesEmpty
  MaxKeysIn <- MCMaxKeysOne
  Ops <- MCOpsGet
SYMMETRY MCSymmetry
SPECIFICATION Spec
INVARIANT GetReturnsConsistentObject
