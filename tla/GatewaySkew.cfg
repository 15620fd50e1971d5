\* The instance of Gateway.cfg: a gateway whose clock is ahead of the auth service.
SPECIFICATION Safety
CONSTANTS
  Requests = {q1, q2}
  Users = {u1}
  Unusable = Unusable
  Second = 2
  Ttl = 4
  Leeway = 2
  ReadTimeout = 3
  AuthTimeout = 1
  ShutdownTimeout = 2
  CallCodes = {"OK", "Unauthenticated", "Unavailable"}
  MaxSkew = 2
  MaxClock = 6
PROPERTIES
  SkewIsSupported
