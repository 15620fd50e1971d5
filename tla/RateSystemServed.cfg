\* The same instance, asked for what the run saved.
SPECIFICATION System
CONSTANTS
  Runs = {r1}
  Codes <- MCCodes
  ToUpper <- MCToUpper
  ConfiguredBase = "USD"
  ConfiguredTarget = "EUR"
  Rates = {1}
  NaN = NaN
  Timeout = 1
  MaxClock = 1
  TicksPerDay = 1
  Calls = {c1}
  Blank = Blank
  Malformed = Malformed
  Moments = {0}
PROPERTIES
  SavedRatesAreServed
