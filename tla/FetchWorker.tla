----------------------------- MODULE FetchWorker -----------------------------
(***************************************************************************)
(* The cron process (currency/cmd/cron/main.go): one startup fetch and the *)
(* scheduled fetches of worker.Currency, each running                      *)
(* service.FetchAndSaveCurrencyRates in a goroutine of its own, the table  *)
(* they write, the signals and the shutdown of the process, its death and  *)
(* its restart.                                                            *)
(*                                                                         *)
(* A run of the job is a member of Runs.  pc[r] is how far it got:         *)
(*                                                                         *)
(*   unborn    not started                                                 *)
(*   spawned   the goroutine exists                                        *)
(*   dated     dayNow is read (first time.Now())                           *)
(*   asking    dayYesterday is read (second time.Now())                    *)
(*   calling   inside client.FetchCurrentRates                             *)
(*   saving    holds a non-empty answer, about to call repo.Save           *)
(*   executing inside ExecContext, the INSERT is on its way                *)
(*   succeeded, failed   the run returned; the label it was counted under  *)
(*   lost      its process is gone                                         *)
(*                                                                         *)
(* The ECB client is one step here (calling -> answer or error); EcbClient *)
(* is its detailed model.  The database server, gocron and the ECB are     *)
(* external: an INSERT that was sent may be applied at any later moment or *)
(* never, whether or not the run that sent it still waits for it.          *)
(***************************************************************************)
EXTENDS RateStore

CONSTANTS
  Runs,            \* runs of the job, over all lives of the process
  Codes,           \* currency codes as written in requests and configuration
  ToUpper,         \* strings.ToUpper on them
  ConfiguredBase,    \* worker.currency_pair.base_currency
  ConfiguredTarget,  \* worker.currency_pair.target_currency
  Rates,           \* the finite rates an answer can hold
  NaN,             \* what strconv.ParseFloat makes of the text "NaN"
  Timeout,         \* worker.timeout_seconds, in ticks
  MaxClock         \* bound: the last instant of the model

ASSUME FetchWorkerAssumption ==
  /\ ToUpper \in [Codes -> Codes]
  /\ ConfiguredBase \in Codes
  /\ ConfiguredTarget \in Codes
  /\ NaN \notin Rates
  /\ Timeout \in Nat
  /\ MaxClock \in Nat

VARIABLES
  clock,        \* the wall clock
  rows,         \* the table exchange_rates
  stmt,         \* [Runs -> state of the run's INSERT at the database server]
  phase,        \* where the main goroutine is
  interrupts,   \* SIGINT/SIGTERM this life of the process received
  pc,           \* [Runs -> where the run is]
  trigger,      \* [Runs -> the label of the run]
  deadline,     \* [Runs -> when its context expires]
  dayNow,       \* [Runs -> its first time.Now()]
  from,         \* [Runs -> the day it took for yesterday]
  rates         \* [Runs -> the answer it got]

process == <<phase, interrupts>>
database == <<rows, stmt>>
runVars == <<pc, trigger, deadline, dayNow, from, rates>>
vars == <<clock, rows, stmt, phase, interrupts,
          pc, trigger, deadline, dayNow, from, rates>>

MaxInterrupts == 2          \* bound: signals per life of the process

Values == Rates \cup {NaN}
Base == ToUpper[ConfiguredBase]

Working == {"spawned", "dated", "asking", "calling", "saving", "executing"}
Ended   == {"succeeded", "failed", "lost"}

Alive == phase # "down"
\* conn.Close is the last deferred call of run(), after the signal handler's.
DbOpen == phase \in {"up", "stopping", "closing", "released"}

Cron(r) == trigger[r] = "cron"

\* Mutant of CtxDone: scheduled runs get no timeout.
CtxDone_NoCronTimeout(r) ==
  trigger[r] = "startup" /\ (clock >= deadline[r] \/ interrupts > 0)

\* ctx.Err() # nil.  The context of the startup run is a child of the signal
\* context, that of a scheduled run a child of context.Background().
CtxDone(r) ==
  \/ clock >= deadline[r]
  \/ trigger[r] = "startup" /\ interrupts > 0

\* Mutant of Answers: the client's map is keyed by the target currency.
Answers_ByCurrency(first, last) ==
  UNION {[{CurrencyKey(ToUpper[ConfiguredTarget]) : d \in days} -> Values] :
           days \in SUBSET (first..last)}

\* What the ECB can answer for the configured pair and the days first..last: an
\* observation for some of them.  The client's map is keyed by the formatted date.
Answers(first, last) ==
  UNION {[{DateKey(d) : d \in days} -> Values] : days \in SUBSET (first..last)}

------------------------------------------------------------------------------
Init ==
  /\ clock = 0
  /\ rows = EmptyMap
  /\ stmt = [r \in Runs |-> "none"]
  /\ phase = "down"
  /\ interrupts = 0
  /\ pc = [r \in Runs |-> "unborn"]
  /\ trigger = [r \in Runs |-> "cron"]
  /\ deadline = [r \in Runs |-> 0]
  /\ dayNow = [r \in Runs |-> 0]
  /\ from = [r \in Runs |-> 0]
  /\ rates = [r \in Runs |-> EmptyMap]

\* time passes, for every process alike; the clock is never set back.
Tick ==
  /\ clock < MaxClock
  /\ clock' = clock + 1
  /\ UNCHANGED <<process, database, runVars>>

\* A goroutine of label l starts with a fresh timeout.  The bound leaves room for
\* the deadline, so that every context that is created also expires.
Spawn(r, l) ==
  /\ pc[r] = "unborn"
  /\ clock + Timeout <= MaxClock
  /\ pc' = [pc EXCEPT ![r] = "spawned"]
  /\ trigger' = [trigger EXCEPT ![r] = l]
  /\ deadline' = [deadline EXCEPT ![r] = clock + Timeout]
  /\ UNCHANGED <<clock, database, dayNow, from, rates>>

\* The process starts (again): StartFetchingCurrencyRates spawns the startup run
\* and starts the scheduler; main waits for a signal.
Launch(r) ==
  /\ phase = "down"
  /\ phase' = "up"
  /\ interrupts' = 0
  /\ Spawn(r, "startup")

\* gocron runs the job.  No singleton mode is set: earlier runs may be in flight.
CronFires(r) ==
  /\ phase = "up"
  /\ Spawn(r, "cron")
  /\ UNCHANGED process

------------------------------------------------------------------------------
(* A run: service.FetchAndSaveCurrencyRates under worker.runOnce.          *)

\* Run r moves to place p; only its own state changes.
Goto(r, p) ==
  /\ pc' = [pc EXCEPT ![r] = p]
  /\ UNCHANGED <<clock, process, trigger, deadline>>

ReadNow(r) ==
  /\ pc[r] = "spawned"
  /\ dayNow' = [dayNow EXCEPT ![r] = clock]
  /\ Goto(r, "dated")
  /\ UNCHANGED <<database, from, rates>>

\* Mutant of ReadYesterday: two days are subtracted.
ReadYesterday_TwoDays(r) ==
  /\ pc[r] = "dated"
  /\ from' = [from EXCEPT ![r] = DayOf(clock) - 2]
  /\ Goto(r, "asking")
  /\ UNCHANGED <<database, dayNow, rates>>

ReadYesterday(r) ==
  /\ pc[r] = "dated"
  /\ from' = [from EXCEPT ![r] = DayOf(clock) - 1]
  /\ Goto(r, "asking")
  /\ UNCHANGED <<database, dayNow, rates>>

\* The client looks at the context before its first attempt.
CallEcb(r) ==
  /\ pc[r] = "asking"
  /\ Goto(r, IF CtxDone(r) THEN "failed" ELSE "calling")
  /\ UNCHANGED <<database, dayNow, from, rates>>

\* FetchCurrentRates returns an error: any time, at the latest once ctx is done.
FetchFails(r) ==
  /\ pc[r] = "calling"
  /\ Goto(r, "failed")
  /\ UNCHANGED <<database, dayNow, from, rates>>

\* It returns a map; an empty one is a success with nothing to save.
FetchReturns(r) ==
  /\ pc[r] = "calling"
  /\ \E answer \in Answers(from[r], DayOf(dayNow[r])) :
       /\ rates' = [rates EXCEPT ![r] = answer]
       /\ Goto(r, IF DOMAIN answer = {} THEN "succeeded" ELSE "saving")
  /\ UNCHANGED <<database, dayNow, from>>

\* json.Marshal refuses NaN; ExecContext refuses a dead context and a closed pool.
Marshals(r) == \A k \in DOMAIN rates[r] : rates[r][k] # NaN

SaveRefused(r) ==
  /\ pc[r] = "saving"
  /\ ~Marshals(r) \/ CtxDone(r) \/ ~DbOpen
  /\ Goto(r, "failed")
  /\ UNCHANGED <<database, dayNow, from, rates>>

\* Mutant of SaveSent: the answer is not marshalled first.
SaveSent_Unmarshalled(r) ==
  /\ pc[r] = "saving"
  /\ ~CtxDone(r) /\ DbOpen
  /\ stmt' = [stmt EXCEPT ![r] = "sent"]
  /\ Goto(r, "executing")
  /\ UNCHANGED <<rows, dayNow, from, rates>>

\* The INSERT leaves the process.
SaveSent(r) ==
  /\ pc[r] = "saving"
  /\ Marshals(r) /\ ~CtxDone(r) /\ DbOpen
  /\ stmt' = [stmt EXCEPT ![r] = "sent"]
  /\ Goto(r, "executing")
  /\ UNCHANGED <<rows, dayNow, from, rates>>

\* Mutant of SaveAcked: success is reported as soon as the INSERT is out.
SaveAcked_WhenSent(r) ==
  /\ pc[r] = "executing"
  /\ Goto(r, "succeeded")
  /\ UNCHANGED <<database, dayNow, from, rates>>

\* ExecContext returns nil: the server applied the statement and said so.
SaveAcked(r) ==
  /\ pc[r] = "executing"
  /\ stmt[r] = "applied"
  /\ Goto(r, "succeeded")
  /\ UNCHANGED <<database, dayNow, from, rates>>

\* ExecContext returns an error: the server refused the statement, the connection
\* broke or the context ended.  The statement, or its effect, may remain.
SaveFails(r) ==
  /\ pc[r] = "executing"
  /\ Goto(r, "failed")
  /\ UNCHANGED <<database, dayNow, from, rates>>

------------------------------------------------------------------------------
(* The database server.                                                    *)

\* Mutants of Apply: the row is dated when it is written, or the upsert
\* overwrites the object it finds.
Apply_DatedAtWrite(r) ==
  /\ stmt[r] = "sent"
  /\ stmt' = [stmt EXCEPT ![r] = "applied"]
  /\ rows' = Save(rows, clock, Base, rates[r])
  /\ UNCHANGED <<clock, process, runVars>>

Apply_Overwrites(r) ==
  /\ stmt[r] = "sent"
  /\ stmt' = [stmt EXCEPT ![r] = "applied"]
  /\ rows' = Save_Overwrites(rows, dayNow[r], Base, rates[r])
  /\ UNCHANGED <<clock, process, runVars>>

\* The statement commits, whatever became of the run that sent it.
Apply(r) ==
  /\ stmt[r] = "sent"
  /\ stmt' = [stmt EXCEPT ![r] = "applied"]
  /\ rows' = Save(rows, dayNow[r], Base, rates[r])
  /\ UNCHANGED <<clock, process, runVars>>

\* It is refused, cancelled, or never arrives.
Drop(r) ==
  /\ stmt[r] = "sent"
  /\ stmt' = [stmt EXCEPT ![r] = "dropped"]
  /\ UNCHANGED <<clock, rows, process, runVars>>

------------------------------------------------------------------------------
(* The main goroutine.                                                     *)

MoveTo(p) ==
  /\ phase' = p
  /\ UNCHANGED <<clock, interrupts, database, runVars>>

\* A signal while signal.NotifyContext has the handler: the first one cancels
\* ctx, the others go to the same channel and do nothing.
Interrupt ==
  /\ phase \in {"up", "stopping", "closing"}
  /\ interrupts < MaxInterrupts
  /\ interrupts' = interrupts + 1
  /\ UNCHANGED <<clock, phase, database, runVars>>

\* <-ctx.Done() returns and main enters worker.Stop.
BeginStop == phase = "up" /\ interrupts > 0 /\ MoveTo("stopping")

\* Mutant of StopReturns: gocron's Stop does not wait for its jobs.
StopReturns_AtOnce == phase = "stopping" /\ MoveTo("closing")

\* gocron's Stop waits for the scheduled jobs; the startup goroutine is not one.
StopReturns ==
  /\ phase = "stopping"
  /\ \A r \in Runs : Cron(r) => pc[r] \notin Working
  /\ MoveTo("closing")

\* The metrics server is down, the message is logged and the deferred calls run:
\* stop() gives the signals back, then conn.Close() closes the pool.
ReleaseSignals == phase = "closing" /\ MoveTo("released")
CloseDb == phase = "released" /\ MoveTo("closed")

\* Every goroutine that is left dies with the process.
Vanish ==
  /\ phase' = "down"
  /\ pc' = [r \in Runs |-> IF pc[r] \in Working THEN "lost" ELSE pc[r]]
  /\ UNCHANGED <<clock, interrupts, database, trigger, deadline, dayNow, from, rates>>

Exit == phase = "closed" /\ Vanish

\* kill -9, a panic, the host; or a signal after the handler was released.
Kill == Alive /\ Vanish

\* The process may stay down for good.
StayDown == phase = "down" /\ UNCHANGED vars

------------------------------------------------------------------------------
RunStep(r) ==
  \/ ReadNow(r) \/ ReadYesterday(r) \/ CallEcb(r) \/ FetchFails(r)
  \/ FetchReturns(r) \/ SaveRefused(r) \/ SaveSent(r) \/ SaveAcked(r)
  \/ SaveFails(r)

MainStep == BeginStop \/ StopReturns \/ ReleaseSignals \/ CloseDb \/ Exit

Next ==
  \/ Tick
  \/ \E r \in Runs : Launch(r) \/ CronFires(r)
  \/ \E r \in Runs : RunStep(r)
  \/ \E r \in Runs : Apply(r) \/ Drop(r)
  \/ Interrupt \/ Kill
  \/ MainStep
  \/ StayDown

\* Time passes, goroutines are scheduled, and a call the context bounds returns
\* once the context is done.  Neither the ECB nor the database has to answer.
Progress(r) ==
  \/ ReadNow(r) \/ ReadYesterday(r) \/ CallEcb(r)
  \/ SaveRefused(r) \/ SaveSent(r)
  \/ CtxDone(r) /\ (FetchFails(r) \/ SaveFails(r))

Fairness ==
  /\ WF_vars(Tick)
  /\ \A r \in Runs : WF_vars(Progress(r))
  /\ WF_vars(MainStep)

Safety == Init /\ [][Next]_vars
Spec == Safety /\ Fairness

------------------------------------------------------------------------------
(* Properties.                                                             *)

Instants == 0..MaxClock
Days     == (-1)..DayOf(MaxClock)
Places   == {"unborn"} \cup Working \cup Ended

\* A JSON object the service can marshal or hold: dates to values.
IsObject(o, values) == DOMAIN o \subseteq {DateKey(d) : d \in Days} /\ o \in [DOMAIN o -> values]

\* Type invariant.  It also says that a NaN an answer holds never reaches the
\* table (json.Marshal in Save).
TypeOK ==
  /\ clock \in Instants
  /\ DOMAIN rows \subseteq Instants \X {Base}
  /\ \A id \in DOMAIN rows : IsObject(rows[id], Rates)
  /\ stmt \in [Runs -> {"none", "sent", "applied", "dropped"}]
  /\ phase \in {"down", "up", "stopping", "closing", "released", "closed"}
  /\ interrupts \in 0..MaxInterrupts
  /\ pc \in [Runs -> Places]
  /\ trigger \in [Runs -> {"startup", "cron"}]
  /\ deadline \in [Runs -> Instants]
  /\ dayNow \in [Runs -> Instants]
  /\ from \in [Runs -> Days]
  /\ DOMAIN rates = Runs
  /\ \A r \in Runs : IsObject(rates[r], Values)

\* A run counted as a success left its whole answer in the row it dated, and no
\* later run, failure or restart takes an observation away again.
SuccessIsDurable ==
  \A r \in Runs : pc[r] = "succeeded" /\ DOMAIN rates[r] # {} =>
    /\ <<dayNow[r], Base>> \in DOMAIN rows
    /\ DOMAIN rates[r] \subseteq DOMAIN rows[<<dayNow[r], Base>>]

\* Every value of the table was answered by the ECB to a run that dated the row,
\* whatever runs overlapped, failed or died: rows never mix runs of two instants.
RowsComeFromRuns ==
  \A id \in DOMAIN rows : \A k \in DOMAIN rows[id] :
    \E r \in Runs : /\ stmt[r] = "applied"
                    /\ dayNow[r] = id[1]
                    /\ k \in DOMAIN rates[r]
                    /\ rates[r][k] = rows[id][k]

\* A row holds observations of the day it is dated and of the day before, and
\* of no other, although the run reads the clock twice, can wait for its answer
\* past midnight and its INSERT can commit after that.
RowSpansTwoDays ==
  \A id \in DOMAIN rows : \A k \in DOMAIN rows[id] :
    /\ k.kind = "date"
    /\ k.day \in (DayOf(id[1]) - 1)..DayOf(id[1])

\* Once Stop returned no scheduled run is in flight: none loses its pool or its
\* process to an orderly shutdown.
CronRunsDrainBeforeClose ==
  phase \in {"closing", "released", "closed", "down"} =>
    \A r \in Runs : Cron(r) => pc[r] \notin Working

\* No step loses an observation: the upsert merges, also when runs that read the
\* same instant commit in either order.
ObservationsStay ==
  [][\A id \in DOMAIN rows :
       id \in DOMAIN rows' /\ DOMAIN rows[id] \subseteq DOMAIN rows'[id]]_vars

\* The process keeps the promises of JobLedger.
LedgerOutcome == [r \in Runs |->
  CASE pc[r] = "unborn" -> "idle" [] pc[r] \in Working -> "running" [] OTHER -> pc[r]]

LedgerAnswer == [r \in Runs |->
  CASE DOMAIN rates[r] # {} -> "data"
    [] DOMAIN rates[r] = {} /\ pc[r] = "succeeded" -> "empty"
    [] OTHER -> "none"]

Ledger == INSTANCE JobLedger WITH
  outcome <- LedgerOutcome, answer <- LedgerAnswer,
  stored <- {r \in Runs : stmt[r] = "applied"}

LedgerSpec == Ledger!Spec

\* Every run ends: the timeout reaches everything it waits for.
EveryRunEnds == \A r \in Runs : pc[r] \in Working ~> pc[r] \in Ended

\* A signal ends the process, also when scheduled runs are in flight: Stop waits
\* for them and their contexts expire.
InterruptEndsProcess == interrupts > 0 /\ Alive ~> phase = "down"

\* What main says while it shuts down, "press Ctrl+C again to force": a second
\* signal ends the process.
SecondInterruptForces == [][interrupts = 1 /\ interrupts' = 2 => phase' = "down"]_vars

==============================================================================
