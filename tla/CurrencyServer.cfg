\* One call against a table other clients of the repository write at any moment:
\* rows of two currencies, two instants of one day and one of the next.
SPECIFICATION Safety
CONSTANTS
  Calls = {c1}
  Codes <- MCCodes
  ToUpper <- MCToUpper
  ConfiguredBase = "usd"
  Blank = Blank
  Malformed = Malformed
  Moments = {0, 2, Blank, Malformed}
  MaxClock = 2
  TicksPerDay = 2
  Rates = {1}
  Bases = {"USD"}
INVARIANTS
  TypeOK
  AnswersComeFromRows
PROPERTIES
  RatesStayFound
