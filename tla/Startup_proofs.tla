---------------------------- MODULE Startup_proofs ----------------------------
(***************************************************************************)
(* What the start of the processes promises for any configuration, any     *)
(* range of ports and any number of launches.                              *)
(*                                                                         *)
(* A listener is only opened by a process whose file was validated, and    *)
(* files do not change: so when a listener fails, Validate had the chance  *)
(* to see why.  The version of the schema is clean only when the migration *)
(* ran to its end, whoever was killed in the middle of it.                 *)
(***************************************************************************)
EXTENDS Startup, TLAPS

Excused(s) ==
  \/ s \in {"gateway.http", "auth.http"} /\ cfg.port[s] > MaxPort
  \/ \E t \in Sockets \ {s} : cfg.port[t] = cfg.port[s] /\ Metrics # {s, t}

OwnerValidated(s) == \E p \in Processes : s \in SocketsOf(p) /\ Validated(FileOf(p))

PortInv ==
  /\ cfg \in Settings
  /\ DOMAIN stage = Processes /\ DOMAIN socket = Sockets
  /\ \A p \in Processes : stage[p] \notin {"down", "loading"} => Validated(FileOf(p))
  /\ \A s \in Sockets : socket[s] # "closed" => OwnerValidated(s)
  /\ \A s \in Sockets : socket[s] = "failed" => Excused(s)

\* A socket that cannot be bound has an excuse, if its owner's file was validated.
LEMMA UnboundIsExcused ==
  ASSUME PortInv, NEW s \in Sockets, socket[s] = "binding", ~Free(s)
  PROVE  Excused(s)
  <1>1. cfg.port \in [Sockets -> 0..(MaxPort + 1)]
    BY StartupAssumption DEF PortInv
  <1>2. PICK p \in Processes : s \in SocketsOf(p) /\ Validated(FileOf(p))
    BY DEF PortInv, OwnerValidated
  <1>3. p \in AllProcesses
    BY StartupAssumption
  <1>4. CASE ~(cfg.port[s] <= MaxPort)
    <2>1. cfg.port[s] > MaxPort
      BY <1>1, <1>4, StartupAssumption
    <2>2. s \notin {"server.grpc", "server.metrics", "cron.metrics"}
      BY <1>2, <1>3, <2>1, <1>1, StartupAssumption
         DEF Validated, CurrencyPorts, CurrencyPortsValid, FileOf, SocketsOf, AllProcesses
    <2>3. QED
      BY <2>1, <2>2 DEF Excused, Sockets
  <1>5. CASE \E t \in Sockets : socket[t] = "bound" /\ cfg.port[t] = cfg.port[s]
    <2>1. PICK t \in Sockets : socket[t] = "bound" /\ cfg.port[t] = cfg.port[s]
      BY <1>5
    <2>2. t # s
      BY <2>1
    <2>3. Metrics # {s, t}
      <3>1. SUFFICES ASSUME Metrics = {s, t} PROVE FALSE
        OBVIOUS
      <3>2. s \in Metrics
        BY <3>1
      <3>3. FileOf(p) = "currency"
        BY <1>2, <1>3, <3>2 DEF Metrics, SocketsOf, FileOf, AllProcesses
      <3>4. cfg.port["cron.metrics"] # cfg.port["server.metrics"]
        BY <1>2, <3>3 DEF Validated, CurrencyPorts, CurrencyPortsValid
      <3>5. QED
        BY <2>1, <2>2, <3>1, <3>4 DEF Metrics
    <2>4. QED
      BY <2>1, <2>2, <2>3 DEF Excused
  <1>6. QED
    BY <1>4, <1>5 DEF Free

\* Nothing is open at first.
LEMMA PortInit == Init => PortInv
  BY DEF Init, PortInv

\* The induction step.
LEMMA PortStep == PortInv /\ [Next]_vars => PortInv'
  <1> SUFFICES ASSUME PortInv, [Next]_vars PROVE PortInv'
    OBVIOUS
  <1>0. UNCHANGED cfg => /\ \A s \in Sockets : Excused(s) => Excused(s)'
                         /\ \A s \in Sockets : OwnerValidated(s) => OwnerValidated(s)'
                         /\ \A f : Validated(f) => Validated(f)'
    BY DEF Excused, OwnerValidated, Validated, CurrencyPortsValid,
         GatewayPortValid, AuthPortValid
  <1>1. CASE UNCHANGED <<cfg, stage, socket>>
    BY <1>0, <1>1 DEF PortInv
  <1>2. ASSUME NEW p \in Processes, Gone(p) PROVE PortInv'
    BY <1>0, <1>2 DEF PortInv, Gone, Goto
  <1>3. ASSUME NEW p \in Processes, Launch(p) \/ ListenFails(p) \/ Interrupt(p) PROVE PortInv'
    BY <1>0, <1>3 DEF PortInv, Launch, ListenFails, Interrupt, Stops, Goto
  <1>4. ASSUME NEW p \in Processes, Load(p) PROVE PortInv'
    BY <1>0, <1>2, <1>4 DEF PortInv, Load, Goto
  <1>5. ASSUME NEW p \in Processes, Connect(p) PROVE PortInv'
    <2>1. Validated(FileOf(p))
      BY <1>5 DEF PortInv, Connect
    <2>2. QED
      BY <1>0, <1>2, <1>5, <2>1 DEF PortInv, Connect, Goto, OwnerValidated
  <1>6. ASSUME NEW p \in Processes, Serve(p) PROVE PortInv'
    <2>1. Validated(FileOf(p))
      BY <1>6 DEF PortInv, Serve
    <2>2. QED
      BY <1>0, <1>6, <2>1 DEF PortInv, Serve, Goto, OwnerValidated
  <1>7. ASSUME "cron" \in Processes, StartJobs PROVE PortInv'
    BY <1>0, <1>7 DEF PortInv, StartJobs, Goto
  <1>8. ASSUME NEW s \in Sockets, Bind(s) PROVE PortInv'
    BY <1>0, <1>8, UnboundIsExcused DEF PortInv, Bind
  <1>9. ASSUME NEW p \in Processes, OwnStep(p) \/ Exit(p) PROVE PortInv'
    <2>1. SocketsOf(p) \subseteq Sockets
      BY StartupAssumption DEF SocketsOf, Sockets, AllProcesses
    <2>2. QED
      BY <1>2, <1>3, <1>4, <1>6, <1>7, <1>8, <1>9, <2>1 DEF OwnStep, Exit
  <1>10. QED
    BY <1>1, <1>2, <1>3, <1>5, <1>9 DEF Next, Die, FirstRun, ScheduledRun, MigLaunch, MigLoad, MigUp,
       MigRuns, MigCleans, MigDies, MigEnds, MigGoto, Rest, hostVars, vars

\* A listener that failed failed for a reason Validate does not look at: a port out of
\* range of a file that only has a lower bound, or one given twice and not to the two
\* metrics servers.
THEOREM PortsTheorem == Safety => []OnlyUncheckedPortsFail
  <1>1. PortInv => OnlyUncheckedPortsFail
    BY DEF PortInv, OnlyUncheckedPortsFail, Excused
  <1>2. QED
    BY PortInit, PortStep, <1>1, PTL DEF Safety

------------------------------------------------------------------------------
\* The version is marked dirty as long as somebody is at work on it, or was killed.
SchemaInv ==
  /\ schema \in [version : {0, 1}, dirty : BOOLEAN, table : BOOLEAN]
  /\ schema.version = 0 => ~schema.dirty
  /\ schema.version = 1 /\ ~schema.dirty => schema.table
  /\ told = "success" => schema.version = 1 /\ ~schema.dirty
  /\ mig \in {"marked", "made"} => schema.version = 1 /\ schema.dirty
  /\ mig = "made" => schema.table

\* The migrator says success only when the table is there and the version is clean;
\* for any number of runs, each killed anywhere.
THEOREM MigrationTheorem == Safety => []SuccessMeansTable
  <1>1. Init => SchemaInv
    BY DEF Init, SchemaInv
  <1>2. SchemaInv /\ [Next]_vars => SchemaInv'
    <2> SUFFICES ASSUME SchemaInv, [Next]_vars PROVE SchemaInv'
      OBVIOUS
    <2> USE DEF SchemaInv
    <2>1. CASE UNCHANGED migVars
      BY <2>1 DEF migVars
    <2>2. CASE MigLaunch \/ MigLoad \/ MigDies
      <3>1. schema' = schema /\ mig' \in {"loading", "ready", "down"}
        BY <2>2 DEF MigLaunch, MigLoad, MigDies, MigEnds, MigGoto
      <3>2. told' \in {told, "nothing", "failure"}
        BY <2>2 DEF MigLaunch, MigLoad, MigDies, MigEnds, MigGoto
      <3>3. QED
        BY <3>1, <3>2
    <2>3. CASE MigUp
      <3>1. CASE schema' = schema /\ told' \in {"success", "failure"} /\ mig' = "down"
        BY <2>3, <3>1 DEF MigUp, MigEnds, MigGoto
      <3>2. CASE /\ schema.version = 0 /\ mig' = "marked" /\ told' = told
                 /\ schema' = [schema EXCEPT !.version = 1, !.dirty = TRUE]
        <4>1. schema'.version = 1 /\ schema'.dirty = TRUE /\ schema'.table = schema.table
          BY <3>2
        <4>2. told # "success"
          BY <3>2
        <4>3. schema' \in [version : {0, 1}, dirty : BOOLEAN, table : BOOLEAN]
          BY <3>2
        <4>4. QED
          BY <3>2, <4>1, <4>2, <4>3
      <3>3. QED
        BY <2>3, <3>1, <3>2 DEF MigUp, MigEnds, MigGoto
    <2>4. CASE MigRuns
      BY <2>4 DEF MigRuns, MigEnds, MigGoto
    <2>5. CASE MigCleans
      BY <2>5 DEF MigCleans, MigEnds, MigGoto
    <2>6. QED
      BY <2>1, <2>2, <2>3, <2>4, <2>5 DEF Next, OwnStep, Launch, Load, Connect, Serve,
         ListenFails, Stops, Exit, StartJobs, Bind, Interrupt, Die, Gone, FirstRun, ScheduledRun, Rest, vars
  <1>3. SchemaInv => SuccessMeansTable
    BY DEF SchemaInv, SuccessMeansTable
  <1>4. QED
    BY <1>1, <1>2, <1>3, PTL DEF Safety

------------------------------------------------------------------------------
\* The state keeps its types, and the ports of a process that is gone are free.
THEOREM TypeCorrect == Safety => []TypeOK
  <1>0. \A p \in Processes : SocketsOf(p) \subseteq Sockets
    BY StartupAssumption DEF SocketsOf, Sockets, AllProcesses
  <1>1. Init => TypeOK
    <2>1. 0 \in 0..MaxLaunches /\ 0 \in 0..MaxMigrations
      BY StartupAssumption
    <2> SUFFICES ASSUME Init PROVE TypeOK
      OBVIOUS
    <2>2. \A p \in Processes : \A s \in SocketsOf(p) : socket[s] = "closed"
      BY <1>0 DEF Init
    <2>3. schema \in [version : {0, 1}, dirty : BOOLEAN, table : BOOLEAN]
      BY DEF Init
    <2>4. launches \in [Processes -> 0..MaxLaunches] /\ migrations \in 0..MaxMigrations
      BY <2>1 DEF Init
    <2>5. QED
      BY <2>2, <2>3, <2>4 DEF Init, TypeOK, Stages
  <1>2. TypeOK /\ [Next]_vars => TypeOK'
    <2> SUFFICES ASSUME TypeOK, [Next]_vars PROVE TypeOK'
      OBVIOUS
    <2> USE DEF TypeOK, Stages
    <2>1. \A p, q \in Processes : p # q => SocketsOf(p) \cap SocketsOf(q) = {}
      BY StartupAssumption DEF SocketsOf, AllProcesses
    <2>2. CASE UNCHANGED vars
      BY <2>2 DEF vars, hostVars, jobVars, migVars
    <2>3. ASSUME NEW p \in Processes, Gone(p) PROVE TypeOK'
      BY <1>0, <2>3 DEF Gone, Goto, migVars
    <2>4. ASSUME NEW p \in Processes, Launch(p) PROVE TypeOK'
      <3>1. launches[p] + 1 \in 0..MaxLaunches
        BY <2>4, StartupAssumption DEF Launch
      <3>2. QED
        BY <2>4, <3>1 DEF Launch, Goto, jobVars, migVars
    <2>5. ASSUME NEW p \in Processes, ListenFails(p) \/ Interrupt(p) PROVE TypeOK'
      BY <1>0, <2>5 DEF ListenFails, Interrupt, Stops, Goto, jobVars, migVars
    <2>6. ASSUME NEW p \in Processes, Load(p) PROVE TypeOK'
      BY <2>3, <2>6 DEF Load, Goto, jobVars, migVars
    <2>7. ASSUME NEW p \in Processes, NEW s, s \in Stages \ {"down"}, NEW some \in SUBSET SocketsOf(p),
                 Goto(p, s), socket' = [t \in Sockets |-> IF t \in some THEN "binding" ELSE socket[t]],
                 UNCHANGED <<cfg, launches, jobVars, migVars>>
          PROVE  TypeOK'
      BY <1>0, <2>1, <2>7 DEF Goto, jobVars, migVars
    <2>8. ASSUME NEW p \in Processes, Connect(p) \/ Serve(p) PROVE TypeOK'
      BY <2>3, <2>7, <2>8 DEF Connect, Serve
    <2>9. ASSUME "cron" \in Processes, StartJobs PROVE TypeOK'
      BY <2>9, StartupAssumption DEF StartJobs, Goto, migVars
    <2>10. ASSUME NEW p \in Processes, NEW s \in SocketsOf(p), Bind(s) PROVE TypeOK'
      BY <1>0, <2>1, <2>10 DEF Bind, jobVars, migVars
    <2>11. CASE FirstRun \/ ScheduledRun
      BY <2>11, StartupAssumption DEF FirstRun, ScheduledRun, JobCanStore, hostVars, migVars
    <2>12. CASE MigLaunch \/ MigLoad \/ MigUp \/ MigRuns \/ MigCleans \/ MigDies
      <3>1. UNCHANGED <<cfg, hostVars, jobVars>>
        BY <2>12 DEF MigLaunch, MigLoad, MigUp, MigRuns, MigCleans, MigDies, MigEnds, MigGoto
      <3>2. migrations' \in 0..MaxMigrations
        BY <2>12, StartupAssumption DEF MigLaunch, MigLoad, MigUp, MigRuns, MigCleans, MigDies,
           MigEnds, MigGoto
      <3>3. /\ mig' \in {"down", "loading", "ready", "marked", "made"}
            /\ told' \in {"nothing", "success", "failure"}
        BY <2>12 DEF MigLaunch, MigLoad, MigUp, MigRuns, MigCleans, MigDies, MigEnds, MigGoto
      <3>4. schema' \in [version : {0, 1}, dirty : BOOLEAN, table : BOOLEAN]
        BY <2>12 DEF MigLaunch, MigLoad, MigUp, MigRuns, MigCleans, MigDies, MigEnds, MigGoto
      <3>5. QED
        BY <3>1, <3>2, <3>3, <3>4 DEF hostVars, jobVars
    <2>13. QED
      BY <2>2, <2>3, <2>4, <2>5, <2>6, <2>8, <2>9, <2>10, <2>11, <2>12
         DEF Next, OwnStep, Exit, Die, Rest
  <1>3. QED
    BY <1>1, <1>2, PTL DEF Safety

===============================================================================
