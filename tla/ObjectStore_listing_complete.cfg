\* Pagination while objects are only put and empty buckets deleted: two
\* threads, buckets "a" and "ab", prefixes "" and "b".
CONSTANTS
  Threads = {t1, t2}
  Data = {d1}
  NONE = NONE
  Buckets <- MCBuckets
  InitBuckets <- MCBuckets
  FollowTokens = FALSE
  IOFaults = FALSE
  WriteOptionsIn <- MCWriteOptionsDefault
  Keys <- MCKeys
  Prefixes <- MCPrefixesB
  MaxKeysIn <- MCMaxKeys
  Ops <- MCOpsNoObjectDelete
SYMMETRY MCSymmetry
SPECIFICATION Spec
INVARIANT ListingComplete
