\* A login and a request for rates, or two of either; seconds of two ticks, a token
\* that lives two of them, a leeway of one, clocks up to two ticks apart.
SPECIFICATION Spec
CONSTANTS
  Requests = {q1, q2}
  Users = {u1}
  Unusable = Unusable
  Second = 2
  Ttl = 4
  Leeway = 2
  ReadTimeout = 3
  AuthTimeout = 1
  ShutdownTimeout = 2
  CallCodes = {"OK", "Unauthenticated", "Unavailable"}
  MaxSkew = 2
  MaxClock = 5
INVARIANTS
  TypeOK
  CleanStopAnsweredAll
PROPERTIES
  RemovedUsersFadeOut
  FreshTokensWork
  ShutdownKeepsReadLogins
  SignalEndsProcess
