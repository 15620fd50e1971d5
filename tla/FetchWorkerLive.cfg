\* Liveness: two runs, started at the first instant, whose contexts expire at the last.
SPECIFICATION Spec
CONSTANTS
  r1 = r1
  r2 = r2
  r3 = r3
  Runs = {r1, r2}
  Codes <- MCCodes
  ToUpper <- MCToUpper
  ConfiguredBase = "usd"
  ConfiguredTarget = "EUR"
  Rates = {1}
  NaN = NaN
  Timeout = 1
  MaxClock = 1
  TicksPerDay = 1
PROPERTIES
  EveryRunEnds
  InterruptEndsProcess
