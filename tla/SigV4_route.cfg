\* SigV4_route
CONSTANTS
  Mode = "SigV4"
  AccessKey = "AK"
  Secret = "SK"
  Bodies <- MCBodies
  Expires = {1}
  MaxTime = 2
  MaxIssued = 2
  NONE = NONE
  VHostSuffix <- MCNoVHost
SPECIFICATION Spec
INVARIANT AcceptedRouteAsSigned
