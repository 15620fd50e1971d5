------------------------------- MODULE Startup -------------------------------
(***************************************************************************)
(* How the processes of the system come up on one host (the Makefile's     *)
(* way): their configurations and what each Load checks, the logger, the   *)
(* first ping of the database, the ports they listen on, the first jobs of *)
(* the cron process, and the migrator that makes the table.                *)
(*                                                                         *)
(*   down        not running                                               *)
(*   loading     before config.Load and logger.Setup                       *)
(*   connecting  before the ping                                           *)
(*   opening     before main listens, or starts the jobs, and takes signals*)
(*   running     main waits for a signal or a failed listener              *)
(*   stopping    one of them came                                          *)
(*                                                                         *)
(* Server, cron process and migrator read one file.  The host's ports, the *)
(* ECB, the database and golang-migrate are external.                      *)
(***************************************************************************)
EXTENDS Integers

CONSTANTS
  Processes,       \* the processes that are started on the host
  Settings,        \* bound: the configurations operators write
  MaxPort,         \* 65535
  MaxLaunches,     \* bound: launches of a process
  MaxMigrations    \* bound: launches of the migrator

AllProcesses == {"server", "cron", "gateway", "auth"}
Sockets == {"server.grpc", "server.metrics", "cron.metrics", "gateway.http", "auth.http"}
Metrics == {"server.metrics", "cron.metrics"}
Files == {"currency", "gateway", "auth"}

SocketsOf(p) ==
  CASE p = "server"  -> {"server.grpc", "server.metrics"}
    [] p = "cron"    -> {"cron.metrics"}
    [] p = "gateway" -> {"gateway.http"}
    [] p = "auth"    -> {"auth.http"}

FileOf(p) == IF p \in {"server", "cron"} THEN "currency" ELSE p

ASSUME StartupAssumption ==
  /\ Processes \subseteq AllProcesses
  /\ MaxPort \in Nat \ {0} /\ MaxLaunches \in Nat /\ MaxMigrations \in Nat
  /\ Settings \subseteq
       [port : [Sockets -> 0..(MaxPort + 1)],  \* 0: absent
        sound : SUBSET Files,                  \* files whose other checks hold
        env : SUBSET Files,                    \* files with an env the logger knows
        schedule : BOOLEAN,                    \* worker.schedule parses
        timeout : BOOLEAN,                     \* worker.timeout_seconds is positive
        attempts : BOOLEAN,                    \* api.retry.max_attempts is positive
        address : BOOLEAN]                     \* api.base_url and worker.currency_pair
                                               \* make a URL the ECB knows

VARIABLES
  cfg,         \* the configuration files
  launches,    \* [Processes -> how often it was launched]
  stage,       \* [Processes -> where its main goroutine is]
  socket,      \* [Sockets -> "closed", "binding", "bound" or "failed"]
  jobs,        \* of the cron process: is its first run still out, does the scheduler run
  stored,      \* has a job stored rates
  mig,         \* where the migrator is
  migrations,  \* launches of the migrator
  told,        \* what its last run said
  schema       \* what it left in the database

hostVars == <<launches, stage, socket>>
jobVars == <<jobs, stored>>
migVars == <<mig, migrations, told, schema>>
vars == <<cfg, hostVars, jobVars, migVars>>

------------------------------------------------------------------------------
(* Configuration.                                                          *)

CurrencyPorts == {"server.grpc", "server.metrics", "cron.metrics"}

\* Mutant of CurrencyPortsValid: the two metrics ports may be the same.
CurrencyPortsValid_Any == \A s \in CurrencyPorts : cfg.port[s] \in 1..MaxPort

CurrencyPortsValid ==
  /\ \A s \in CurrencyPorts : cfg.port[s] \in 1..MaxPort
  /\ cfg.port["cron.metrics"] # cfg.port["server.metrics"]

\* The other two files are checked at one end.
GatewayPortValid == cfg.port["gateway.http"] > 0
AuthPortValid == cfg.port["auth.http"] > 0

\* What config.Load checks of each file.
Validated(f) ==
  /\ f \in cfg.sound
  /\ f = "currency" => CurrencyPortsValid
  /\ f = "gateway" => GatewayPortValid
  /\ f = "auth" => AuthPortValid

\* logger.Setup.
KnownEnv(f) == f \in cfg.env

------------------------------------------------------------------------------
Init ==
  /\ cfg \in Settings
  /\ launches = [p \in Processes |-> 0]
  /\ stage = [p \in Processes |-> "down"]
  /\ socket = [s \in Sockets |-> "closed"]
  /\ jobs = [first |-> FALSE, scheduler |-> FALSE]
  /\ stored = FALSE
  /\ mig = "down"
  /\ migrations = 0
  /\ told = "nothing"
  /\ schema = [version |-> 0, dirty |-> FALSE, table |-> FALSE]

Goto(p, s) == stage' = [stage EXCEPT ![p] = s]

\* Mutant of Gone: the metrics listener is left open.
Gone_KeepsMetrics(p) ==
  /\ Goto(p, "down")
  /\ socket' = [s \in Sockets |-> IF s \in SocketsOf(p) \ Metrics THEN "closed" ELSE socket[s]]
  /\ jobs' = IF p = "cron" THEN [first |-> FALSE, scheduler |-> FALSE] ELSE jobs
  /\ UNCHANGED <<cfg, launches, stored, migVars>>

\* The process is gone: its ports are free and its goroutines with it.
Gone(p) ==
  /\ Goto(p, "down")
  /\ socket' = [s \in Sockets |-> IF s \in SocketsOf(p) THEN "closed" ELSE socket[s]]
  /\ jobs' = IF p = "cron" THEN [first |-> FALSE, scheduler |-> FALSE] ELSE jobs
  /\ UNCHANGED <<cfg, launches, stored, migVars>>

Launch(p) ==
  /\ stage[p] = "down" /\ launches[p] < MaxLaunches
  /\ launches' = [launches EXCEPT ![p] = @ + 1]
  /\ Goto(p, "loading")
  /\ UNCHANGED <<cfg, socket, jobVars, migVars>>

\* config.Load or MustLoad, then logger.Setup.
Load(p) ==
  /\ stage[p] = "loading"
  /\ IF Validated(FileOf(p)) /\ KnownEnv(FileOf(p))
     THEN /\ Goto(p, IF FileOf(p) = "currency" THEN "connecting" ELSE "opening")
          /\ UNCHANGED <<cfg, launches, socket, jobVars, migVars>>
     ELSE Gone(p)

\* The database answers the ping or refuses it; the metrics listener is a goroutine.
Connect(p) ==
  /\ stage[p] = "connecting"
  /\ \/ Gone(p)
     \/ /\ Goto(p, "opening")
        /\ socket' = [s \in Sockets |->
             IF s \in SocketsOf(p) \cap Metrics THEN "binding" ELSE socket[s]]
        /\ UNCHANGED <<cfg, launches, jobVars, migVars>>

\* The server, the gateway and the auth service listen in a goroutine.
Serve(p) ==
  /\ stage[p] = "opening" /\ p # "cron"
  /\ Goto(p, "running")
  /\ socket' = [s \in Sockets |->
       IF s \in SocketsOf(p) \ Metrics THEN "binding" ELSE socket[s]]
  /\ UNCHANGED <<cfg, launches, jobVars, migVars>>

\* Mutant of StartJobs: the scheduler waits for the first run.
StartJobs_InOrder ==
  /\ stage["cron"] = "opening"
  /\ Goto("cron", "running")
  /\ jobs' = [first |-> TRUE, scheduler |-> cfg.schedule /\ stored]
  /\ UNCHANGED <<cfg, launches, socket, stored, migVars>>

\* StartFetchingCurrencyRates: the first run is out before the schedule is parsed, and
\* main logs the error of a malformed one and waits.
StartJobs ==
  /\ stage["cron"] = "opening"
  /\ Goto("cron", "running")
  /\ jobs' = [first |-> TRUE, scheduler |-> cfg.schedule]
  /\ UNCHANGED <<cfg, launches, socket, stored, migVars>>

\* net.Listen: no two sockets of the host have one port, and there is none above MaxPort.
Free(s) ==
  /\ cfg.port[s] <= MaxPort
  /\ \A t \in Sockets : socket[t] = "bound" => cfg.port[t] # cfg.port[s]

Bind(s) ==
  /\ socket[s] = "binding"
  /\ socket' = [socket EXCEPT ![s] = IF Free(s) THEN "bound" ELSE "failed"]
  /\ UNCHANGED <<cfg, launches, stage, jobVars, migVars>>

Failed(p) == \E s \in SocketsOf(p) \ Metrics : socket[s] = "failed"

\* Main starts to stop: the listener it serves is closed, a later bind undone at once,
\* and its metrics listener stays open until the rest is over.
Stops(p) ==
  /\ stage[p] = "running"
  /\ Goto(p, "stopping")
  /\ socket' = [s \in Sockets |->
       IF s \in SocketsOf(p) \ Metrics /\ socket[s] # "failed" THEN "closed" ELSE socket[s]]
  /\ UNCHANGED <<cfg, launches, jobVars, migVars>>

\* Mutant of ListenFails: main waits for a signal alone.
ListenFails_Unread(p) == FALSE

\* The error of the listener reaches main; that of a metrics listener is only logged.
ListenFails(p) == Failed(p) /\ Stops(p)

\* A signal that main takes.
Interrupt(p) == Stops(p)

Exit(p) == stage[p] = "stopping" /\ Gone(p)

\* The process is killed, by any signal before it takes them.
Die(p) == stage[p] # "down" /\ Gone(p)

------------------------------------------------------------------------------
(* The jobs of the cron process.                                           *)

\* What a run needs besides an answer of the ECB, and Validate checks none of: without
\* a timeout its context has ended, without attempts it sends no request.
JobCanStore == schema.table /\ cfg.timeout /\ cfg.attempts /\ cfg.address

FirstRun ==
  /\ jobs.first
  /\ jobs' = [jobs EXCEPT !.first = FALSE]
  /\ stored' \in {stored, stored \/ JobCanStore}
  /\ UNCHANGED <<cfg, hostVars, migVars>>

ScheduledRun ==
  /\ jobs.scheduler
  /\ stored' \in {stored, stored \/ JobCanStore}
  /\ UNCHANGED <<cfg, hostVars, jobs, migVars>>

------------------------------------------------------------------------------
(* The migrator: one migration, two statements in one query.               *)

MigGoto(m) == mig' = m /\ UNCHANGED <<cfg, hostVars, jobVars, migrations>>

MigEnds(what) == told' = what /\ MigGoto("down")

MigLaunch ==
  /\ mig = "down" /\ migrations < MaxMigrations
  /\ mig' = "loading"
  /\ migrations' = migrations + 1
  /\ told' = "nothing"
  /\ UNCHANGED <<cfg, hostVars, jobVars, schema>>

\* MustLoad and the ping panic; the logger is not set up.
MigLoad ==
  /\ mig = "loading"
  /\ UNCHANGED schema
  /\ \/ Validated("currency") /\ MigGoto("ready") /\ UNCHANGED told
     \/ MigEnds("failure")

\* Mutant of MigUp: every error of Up is taken for ErrNoChange.
MigUp_IgnoresErrors ==
  /\ mig = "ready"
  /\ \/ schema.version = 1 /\ MigEnds("success") /\ UNCHANGED schema
     \/ /\ schema.version = 0
        /\ schema' = [schema EXCEPT !.version = 1, !.dirty = TRUE]
        /\ MigGoto("marked") /\ UNCHANGED told

\* Up refuses a dirty version and says ErrNoChange of a clean one; the version is
\* written, as dirty, before the migration runs.
MigUp ==
  /\ mig = "ready"
  /\ \/ schema.dirty /\ MigEnds("failure") /\ UNCHANGED schema
     \/ ~schema.dirty /\ schema.version = 1 /\ MigEnds("success") /\ UNCHANGED schema
     \/ /\ schema.version = 0
        /\ schema' = [schema EXCEPT !.version = 1, !.dirty = TRUE]
        /\ MigGoto("marked") /\ UNCHANGED told

MigRuns ==
  /\ mig = "marked"
  /\ \/ schema' = [schema EXCEPT !.table = TRUE] /\ MigGoto("made") /\ UNCHANGED told
     \/ MigEnds("failure") /\ UNCHANGED schema

MigCleans ==
  /\ mig = "made"
  /\ schema' = [schema EXCEPT !.dirty = FALSE]
  /\ MigEnds("success")

MigDies == mig # "down" /\ MigGoto("down") /\ UNCHANGED <<told, schema>>

------------------------------------------------------------------------------
\* GracefulStop of the server waits for the calls it serves, however long, and serves
\* none if it could not listen.  The other three bound their shutdown.
Draining(p) == p = "server" /\ stage[p] = "stopping" /\ socket["server.grpc"] # "failed"

\* What a process does by itself, in its main goroutine and those of its listeners.
OwnStep(p) ==
  \/ Load(p) \/ Serve(p) \/ ListenFails(p)
  \/ ~Draining(p) /\ Exit(p)
  \/ p = "cron" /\ StartJobs
  \/ \E s \in SocketsOf(p) : Bind(s)

\* Everything may stay down.
Rest == mig = "down" /\ (\A p \in Processes : stage[p] = "down") /\ UNCHANGED vars

Next ==
  \/ \E p \in Processes :
       Launch(p) \/ OwnStep(p) \/ Connect(p) \/ Exit(p) \/ Interrupt(p) \/ Die(p)
  \/ FirstRun \/ ScheduledRun
  \/ MigLaunch \/ MigLoad \/ MigUp \/ MigRuns \/ MigCleans \/ MigDies
  \/ Rest

\* Processes are scheduled.  The database need not answer a ping, which has no timeout,
\* the calls of a server that stops need not end, no run of a job has to succeed, and
\* nobody has to launch anything.
Fairness == \A p \in Processes : WF_vars(OwnStep(p))

Safety == Init /\ [][Next]_vars
Spec == Safety /\ Fairness

------------------------------------------------------------------------------
(* Properties.                                                             *)

Stages == {"down", "loading", "connecting", "opening", "running", "stopping"}

TypeOK ==
  /\ cfg \in Settings
  /\ launches \in [Processes -> 0..MaxLaunches]
  /\ stage \in [Processes -> Stages]
  /\ socket \in [Sockets -> {"closed", "binding", "bound", "failed"}]
  /\ jobs \in [first : BOOLEAN, scheduler : BOOLEAN]
  /\ stored \in BOOLEAN
  /\ mig \in {"down", "loading", "ready", "marked", "made"}
  /\ migrations \in 0..MaxMigrations
  /\ told \in {"nothing", "success", "failure"}
  /\ schema \in [version : {0, 1}, dirty : BOOLEAN, table : BOOLEAN]
  /\ \A p \in Processes : stage[p] = "down" => \A s \in SocketsOf(p) : socket[s] = "closed"

\* Exactly what Validate leaves to chance: a listener fails only on a port above the
\* range, which gateway and auth service do not check, or on a port the operator gave
\* twice and not to the two metrics servers; however the processes come and go.
OnlyUncheckedPortsFail ==
  \A s \in Sockets : socket[s] = "failed" =>
    \/ s \in {"gateway.http", "auth.http"} /\ cfg.port[s] > MaxPort
    \/ \E t \in Sockets \ {s} : cfg.port[t] = cfg.port[s] /\ Metrics # {s, t}

\* The migrator says success only of a table that is there, whatever killed earlier
\* runs between marking the version and making the table, and it stays so.
SuccessMeansTable ==
  LET clean == schema.version = 1 /\ ~schema.dirty
  IN  /\ told = "success" => clean
      /\ clean => schema.table

Settled(p) ==
  /\ stage[p] = "running"
  /\ \A s \in SocketsOf(p) \ Metrics : socket[s] = "bound"
  /\ \A s \in SocketsOf(p) \cap Metrics : socket[s] \in {"bound", "failed"}

\* Premise: the database answers or refuses every ping.
PingAnswered == \A p \in Processes : WF_vars(Connect(p))

\* A process does not stay half up: it has its listener, or at least tried its metrics
\* one, or it is gone, also when two of its own sockets race for a port.  Two waits have
\* no limit: the ping, which the premise ends, and the calls of a server that stops.
SettlesOrExits ==
  PingAnswered =>
    \A p \in Processes :
      stage[p] # "down" ~> (stage[p] = "down" \/ Settled(p) \/ Draining(p))

\* Premise: while runs can store, the ECB and the database answer one of them.
RunsAreAnswered == WF_vars(ScheduledRun /\ stored')

\* A cron process that came up before its table had been made, and whose first run failed
\* for it, gets its rates all the same, if the settings of its job that Validate leaves
\* unchecked are right: schedule, timeout, attempts, URL and currency pair.
RatesArrive ==
  RunsAreAnswered =>
    ("cron" \in Processes =>
       (stage["cron"] = "running" /\ JobCanStore /\ cfg.schedule
          ~> (stored \/ stage["cron"] # "running")))

==============================================================================
