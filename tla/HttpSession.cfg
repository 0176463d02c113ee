\* Two sessions, bodies up to twice the limit, max_request_body_bytes equal
\* to max_object_bytes as main.cpp sets them.  No symmetry: the run
\* checks a liveness property.
CONSTANTS
  Sessions = {s1, s2}
  NONE = NONE
  Sizes <- MCSizes
  MaxObjectBytes = 1
  MaxBodyBytes = 1
  BucketsMs <- MCBucketsMs
  MaxTime = 3
  MaxRequests = 3
SPECIFICATION FairSpec
INVARIANT InFlightMatchesSessions
PROPERTY InFlightDrains
