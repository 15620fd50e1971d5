\* One run of the job and one call of the server for the first day, in any order;
\* other dates are explored with the server alone.
SPECIFICATION System
CONSTANTS
  Runs = {r1}
  Codes <- MCCodes
  ToUpper <- MCToUpper
  ConfiguredBase = "USD"
  ConfiguredTarget = "EUR"
  Rates = {1}
  NaN = NaN
  Timeout = 1
  MaxClock = 1
  TicksPerDay = 1
  Calls = {c1}
  Blank = Blank
  Malformed = Malformed
  Moments = {0}
INVARIANTS
  NoRateIsEverServed
