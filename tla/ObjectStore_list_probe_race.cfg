\* Pagination while another thread deletes the last key of a page.
CONSTANTS
  Threads = {t1, t2}
  Data = {d1}
  NONE = NONE
  Buckets <- MCBuckets
  InitBuckets <- MCBuckets
  FollowTokens = FALSE
  IOFaults = FALSE
  WriteOptionsIn <- MCWriteOptionsDefault
  Keys <- MCKeys
  Prefixes <- MCPrefixesEmpty
  MaxKeysIn <- MCMaxKeysOne
  Ops <- MCOpsListing
SYMMETRY MCSymmetry
SPECIFICATION Spec
INVARIANT ListingComplete
