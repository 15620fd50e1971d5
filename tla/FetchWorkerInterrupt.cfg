\* The instance of FetchWorker.cfg: two signals while the process shuts down.
SPECIFICATION Safety
CONSTANTS
  r1 = r1
  r2 = r2
  r3 = r3
  Runs = {r1, r2}
  Codes <- MCCodes
  ToUpper <- MCToUpper
  ConfiguredBase = "usd"
  ConfiguredTarget = "EUR"
  Rates = {1}
  NaN = NaN
  Timeout = 2
  MaxClock = 3
  TicksPerDay = 2
SYMMETRY RunSymmetry
PROPERTIES
  SecondInterruptForces
