\* Two requests, one valid query among those of every kind the gateway stops, a table
\* of one currency that another client of the repository writes at any moment.
SPECIFICATION PathSpec
CONSTANTS
  Calls = {c1, c2}
  Codes <- MCCodes
  ToUpper <- MCToUpper
  ConfiguredBase = "usd"
  Blank = Blank
  Malformed = Malformed
  NotThree = NotThree
  NotUtf8 = NotUtf8
  Oldest = 1
  Queries <- MCQueries
  Moments = {0, 1, Blank, Malformed}
  MaxClock = 1
  TicksPerDay = 1
  Rates = {1}
  Bases = {"USD"}
INVARIANTS
  PathTypeOK
  ServerNeverRejects
  ToldAsCounted
  CountedAsAnswered
  CallsDrainBeforeClose
PROPERTIES
  ServerSpecification
  AbandonedCallsEnd
  StoppingTogetherEnds
  EveryRequestEnds
  ShutdownEnds
