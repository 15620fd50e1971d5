\* Two runs over two days of two ticks: midnight between any two reads of the
\* clock, overlapping runs, a restart, and a deadline before or after midnight.
SPECIFICATION Safety
CONSTANTS
  r1 = r1
  r2 = r2
  r3 = r3
  Runs = {r1, r2}
  Codes <- MCCodes
  ToUpper <- MCToUpper
  ConfiguredBase = "usd"
  ConfiguredTarget = "EUR"
  Rates = {1}
  NaN = NaN
  Timeout = 2
  MaxClock = 3
  TicksPerDay = 2
SYMMETRY RunSymmetry
INVARIANTS
  TypeOK
  SuccessIsDurable
  RowsComeFromRuns
  RowSpansTwoDays
  CronRunsDrainBeforeClose
PROPERTIES
  ObservationsStay
  LedgerSpec
