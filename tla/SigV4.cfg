\* SigV4
CONSTANTS
  Mode = "SigV4"
  AccessKey = "AK"
  Secret = "SK"
  Bodies <- MCBodies
  Expires = {1}
  MaxTime = 2
  MaxIssued = 2
  NONE = NONE
  VHostSuffix <- MCVHostGw
SPECIFICATION Spec
INVARIANT SignedPartsAuthentic
INVARIANT SignedRequestsAccepted
INVARIANT AcceptedRouteAsSigned
