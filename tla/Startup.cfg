\* The two currency processes, the gateway and the migrator, on five ports; the
\* migrator is run twice.
SPECIFICATION Spec
CONSTANTS
  Processes = {"server", "cron", "gateway"}
  Settings <- MCSettings
  MaxPort = 5
  MaxLaunches = 1
  MaxMigrations = 2
INVARIANTS
  TypeOK
  OnlyUncheckedPortsFail
  SuccessMeansTable
PROPERTIES
  SettlesOrExits
  RatesArrive
