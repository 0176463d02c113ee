\* Listing under concurrent writes: two threads, buckets "a" and "ab" already
\* created, objects "a" and "b" put, deleted and listed one key per page
\* (the prefix is "" or one holding a NUL byte); the clients follow every
\* continuation token.  No symmetry: the run checks a liveness property.
CONSTANTS
  Threads = {t1, t2}
  Data = {d1}
  NONE = NONE
  Buckets <- MCBuckets
  InitBuckets <- MCBuckets
  FollowTokens = TRUE
  IOFaults = FALSE
  WriteOptionsIn <- MCWriteOptionsDefault
  Keys <- MCKeys
  Prefixes <- MCPrefixesEmptyNul
  MaxKeysIn <- MCMaxKeysOne
  Ops <- MCOpsListing
SPECIFICATION FairSpec
INVARIANT TypeOK
INVARIANT ListingNoRevisit
INVARIANT ListedWithinBucket
INVARIANT ContinuationTokenRoundTrip
PROPERTY ListingTerminates
PROPERTY RefinesS3Objects
