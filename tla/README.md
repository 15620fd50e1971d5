# CurrencySystem in TLA+

This directory holds a formal model of CurrencySystem: TLA+ modules for the
fetch job, its ECB client, the rate table, the currency gRPC server, the HTTP
gateway, the auth service, the way a request takes through gateway and server,
and the start of all of them with the migrator; TLC configurations that check them on small
instances; and TLAPS proofs of their main safety properties for all values of
the constants. Paths below are relative to the repository root.
`PROJECT.json` has the machine-readable side: the lines every definition
models, the runs, a mutant of the code for every property, the hazards and the
findings.

Contents: [the system](#the-system), [hard behaviours](#hard-behaviours),
[modules](#modules), [runs](#runs), [bounds](#bounds), [fairness](#fairness),
[proofs](#proofs), [findings](#findings), [what is left out](#what-is-left-out),
[plan](#plan).

## The system

Four Go processes and one PostgreSQL database.

```
   ECB  <--HTTP--  cron process  --INSERT-->  exchange_rates  --SELECT-->  currency server
                                                                                ^ gRPC GetRate
   client  --HTTP--> gateway  ------------------------------------------------- +
                        |  --HTTP POST /login-->  auth service (issues JWTs)
```

| Component | State | Operations | Correct when |
|---|---|---|---|
| **Cron process** `currency/cmd/cron`, `internal/worker`, `internal/service` | runs of the fetch job in flight with their contexts, the main goroutine, signals | launch and startup fetch, scheduled fetch (gocron, overlapping allowed), the steps of `FetchAndSaveCurrencyRates`, `Stop`, exit | a success is in the table for ever; rows hold what the ECB answered for the right days; `Stop` waits for scheduled runs; a signal ends the process |
| **Repository** `internal/repository/postgres.go` | table `exchange_rates(date, base_currency, currency_rates jsonb)`, unique on `(date, base_currency)` | `Save` (upsert merging the JSON object), `FindInInterval` | an upsert never loses an entry; a search returns exactly the matching rows |
| **ECB client** `internal/clients/currency` | attempt, last error, backoff, two metrics | `FetchCurrentRates` = `RetryPolicy.Do` around `fetchOnce` | at most `MaxAttempts` requests, only retriable errors retried, the context ends it, requests are counted once |
| **Currency server** `currency/cmd/currency`, `internal/handler`, `internal/interceptors` | calls in flight, the pool, request counter | `GetRate` (validate, default, query, map errors), interceptors, `GracefulStop`, closing of the pool | answers are rates of the table for the base and days asked for; the pool outlives the calls; a call is counted as it is answered |
| **Gateway** `gateway/` | requests in flight | `/login`, `/rate` behind the `Auth` middleware, the auth client with its timeout, the currency client without one, `Shutdown` with a timeout | only unexpired tokens are let in, fresh tokens work, the server never refuses what was let through, the client is told what the server said, a signal ends the process, a clean stop answered everything, and any stop the logins whose body was read in time |
| **Auth service** `auth/` | the configured users (nothing is stored per token) | verify, issue a token | a removed user is out when the last token expires |
| **Start** `config.go` of each process, `db.go`, `logger.go`, the first half of each `main` | the processes' stages, the ports they hold | load and check the configuration, ping, listen in a goroutine, first job and schedule | no process stays half up while pings are answered; listeners fail only where no check looks; rates arrive although the table came late, if the unchecked settings are right |
| **Migrator** `currency/cmd/migrator`, `internal/migrations` | the version and the table in the database | apply the one migration | success means the table is there |
| Interceptors and middleware for request id and logging, health, metrics registry, generated code | none that a result depends on | | [left out](#what-is-left-out) |

How they interact: the cron process and the currency server share only the
table, so every interleaving of an upsert with a search is possible. A run and
its INSERT are two things: the statement may commit after the run gave up,
after the process died, or while the next life of the process works. The main
goroutine of each process meets its workers only through contexts and the
waiting in `Stop`, `GracefulStop` and `Shutdown`. Gateway and auth service
share a signing key and nothing else: a token that was issued by the one
clock is judged by the other. Gateway and currency server share a call: its
context ties the client's connection to a query in the database, and the
shutdown of the one can be what the shutdown of the other waits for. At the
start, processes on one host share its ports, and the cron process and the
migrator the table.

## Hard behaviours

The list, each item at its line with the properties that watch it, is
`"hazards"` in `PROJECT.json`. In groups:

* **Concurrency.** Scheduled runs overlap each other and the startup run
  (`worker/currency.go:83`); searches interleave with upserts; the interceptor
  chain, cancellation and shutdown race every call.
* **Clocks.** A run reads `time.Now()` twice (`service/currency.go:53`) and
  may wait past midnight before it writes; a token is checked against two
  readings of the clock of another host (`gateway/internal/middleware/auth.go:77`).
* **Failure.** An INSERT can fail in the client and commit in the server; a
  process can die between any two steps and start again; the auth service can
  be restarted, with other users, between verifying a password and issuing the
  token.
* **Timeouts and retries.** The worker's context against late answers,
  `http.Client.Timeout` against the caller's deadline and against a shutdown,
  the select between a backoff timer and `ctx.Done()`, shutdowns with and
  without a time limit that wait for each other.
* **Starting.** Listeners fail in goroutines nobody waits for; the first job
  runs before the schedule is parsed and perhaps before the table is there; a
  migrator that died leaves a dirty version.
* **Numbers.** The doubling in `backoff` in an int64, zero or negative
  `max_attempts`, `NaN` through `ParseFloat` into `json.Marshal`, tokens with
  whole seconds, the end of a day.
* **Agreement.** The writer of `currency_rates` and its reader must agree on
  the keys of the JSON object; the server's default base must meet the case
  the writer saves in; gateway and server check the same request in different
  words.

## Modules

| Module | Models | Built on |
|---|---|---|
| `RateStore` | the table and the two SQL statements, as operators | |
| `JobLedger` | abstract: what a fetch job promises | |
| `FetchWorker` | the cron process, its database and its clock | `RateStore`; implements `JobLedger` |
| `FetchCall` | abstract: what a caller of the ECB client relies on | |
| `EcbDocument` | what the client makes of a document, as operators | |
| `EcbClient` | one call of the ECB client | `EcbDocument`; implements `FetchCall` |
| `CurrencyServer` | the gRPC server | `RateStore` |
| `RateSystem` | cron process and server on one table | `FetchWorker`, `CurrencyServer` by INSTANCE |
| `GrpcStatus` | the statuses and what `WriteError` makes of them | |
| `RatePath` | a request for rates through gateway and server | `CurrencyServer`, `GrpcStatus`; implements `CurrencyServer` |
| `Gateway` | gateway and auth service | `GrpcStatus` |
| `Startup` | the processes coming up on one host, and the migrator | |
| `*_proofs` | the theorems about the module of that name | that module, TLAPS |
| `MC*` | constants for TLC | the module of that name |

In every module an action is a handler up to its next blocking point or its
next access to something shared; what the code does between two such points is
one action.

**RateStore.** A table is a function from `<<date, base>>` to JSON objects, a
JSON object a function from keys to rates. Keys are of two kinds, a formatted
date (`DateKey`) and a currency code (`CurrencyKey`), since these are the
strings the program puts there and looks for; they are never equal. `Save` is
`INSERT ... ON CONFLICT DO UPDATE` with `||` (`Concat`); `FindInInterval` has
the three conditions of the WHERE clause and returns a set, there being no
ORDER BY. `DayOf` is `date::date`. All processes and the database session are
taken to use one time zone. In the code the worker uses its local zone for
the days it asks for; with different zones the days would shift by one.

**FetchWorker.** One member of `Runs` is one execution of `runOnce`. `pc[r]`
walks through `FetchAndSaveCurrencyRates`:

| Place | Code | Actions out of it |
|---|---|---|
| `spawned`, `dated` | the two readings of the clock, `service/currency.go:50-58` | `ReadNow`, `ReadYesterday` |
| `asking` | before `client.FetchCurrentRates` | `CallEcb` |
| `calling` | inside it (one step here; `EcbClient` has the details) | `FetchFails`, `FetchReturns` |
| `saving` | `json.Marshal`, start of `ExecContext` | `SaveRefused`, `SaveSent` |
| `executing` | waiting for the database | `SaveAcked`, `SaveFails` |
| `succeeded`, `failed`, `lost` | counted, or gone with the process | |

`stmt[r]` is the INSERT at the database, which moves on its own: `Apply` and
`Drop` do not look at the run. `CtxDone` has the two kinds of context: that of
the startup run derives from the signal context, that of a scheduled run from
`context.Background()`. `phase` is the main goroutine with the order of its
deferred calls (`stop()` before `conn.Close()`); `Launch` starts the process
again after `Exit` or `Kill`, with the table and the INSERTs as they are.

**JobLedger** keeps, per job, an outcome, whether an answer came, and whether
it is stored. `FetchWorker` implements it under the mapping `LedgerOutcome`,
`LedgerAnswer`, `stored <- {r : stmt[r] = "applied"}`: verdicts are final, an
answer is stored at most once and never an empty one, success implies stored.
It deliberately promises nothing about failures: a failed run's row may be
there, or come later.

**EcbClient** is the retry loop with the places of one attempt; `lastErr` is
the kind of error the loop judges. The three counters are the requests sent,
observations of the duration histogram and increments of the error counter.
`backoff` is computed in two's complement of `Width` bits, with Go's shift and
its conversion that truncates toward zero. **FetchCall** is its abstract
specification: a bounded number of requests, an honest verdict, a return.

**EcbDocument.** A document is the sequence of its observations; those of
several series follow each other, since `encoding/xml` decodes each into the
same struct, whose slice grows. An attribute is a day or a number, missing, or
garbled. `Refused` is the error of the first garbled one; `RatesOf` passes over the
incomplete ones and puts the rest into the map, one after the other.
`Published` is the reference definition: by the last complete observation of
each day. The client's `Decodes` takes any document.

**CurrencyServer.** Each member of `Calls` is a goroutine of grpc-go under the
interceptor chain Recovery, RequestID, Logging, Metrics. `Valid`, `QueryBase`
and `Target` are the handler's pure parts. The query is two steps, `QueryReads`
(the statement sees the table) and `QueryReturns` (the rows are scanned), with
writes of others between them. `Answer` writes two codes: the one Metrics
counts and the one the client sees, which differ where an error has no status
or a panic unwinds Metrics. `Receive` is any client's call; `RatePath` has the
gateway's instead, through `Accept`. `Write` is the rest of the world, saving rows the
way the repository's integration test does; it exists only when the server is
checked alone.

**RateSystem** replaces `Write` by `FetchWorker`: `Server == INSTANCE
CurrencyServer WITH Bases <- {}` shares `rows` and nothing else, and the steps
of the two interleave.

**RatePath** extends the server's module with the gateway's side of a request:
`ask` walks from `idle` over `asking` (inside the client's `GetRate`) to
`told`, `left` (the client hung up) or `dropped` (the gateway exited).
`Parses` is `parseRateQuery`; what it lets through becomes the request that
`Deliver` hands to the server, at any later time, also when nobody waits any
more. `ConnectionFails` may overtake every answer, and `AnswerTooLarge` replace a
good one that exceeds what a gRPC client takes by default; `CancelArrives` is the
server's view of a client or gateway that is gone. The server's own actions
are `CurrencyServer`'s, unchanged, and `ServerSpecification` says that the
whole is one of the behaviours that module allows.

**Gateway.** A request is a login (`reading` to `granted`) or a request for
rates (`presented` to `calling`). A login has two waits, for its body, which
the server's `ReadTimeout` bounds, and for the auth service, which the auth
client's timeout bounds from the moment the body was read. `since` is when the
present one began, `Deadline` when its timer fires, which is served before
time passes it (`Tick`): the one urgency of the module. A request may be
received while the gateway already stops (`Serving`): its listener is closed
then, but a connection it accepted before still brings its first request.
Time is the auth service's clock; the gateway's is that plus `skew`, fixed by
`Init` anywhere within `MaxSkew`. `Issues` cuts times to whole seconds as
`jwt.NewNumericDate` does; `Parses` is the library's check with the leeway,
`Expired` the second check of `validate` without it, in a step of its own
since it reads the clock again. `AuthRestarts` replaces the list of users and
loses the requests the service was working on. `GetRateReturns` answers any
code of `CallCodes` or never happens: `RatePath` is what stands behind it.
`leftAt` is a history variable. **GrpcStatus** has all seventeen codes of gRPC
and the status `WriteError` makes of each.

**Startup.** `stage` is the main goroutine of each process on its way from
`loading` to `running`; the sockets are moved by goroutines of their own from
`binding` to `bound` or `failed` (`Bind`). A configuration is a record: the
ports by value, for each file whether its other checks hold, and the settings
of the job that no check looks at: the schedule, `worker.timeout_seconds`,
`api.retry.max_attempts`, and `api.base_url` with the currency pair. The
example configuration of the repository has no retry section, no worker timeout
and one `%s` in a URL that takes four values: given the metrics port `Validate`
asks for, it passes, and no run ever stores anything.
`Validated` has exactly the code's checks of ports. The error of a listener
reaches main (`ListenFails`), that of a metrics listener does not. `Stops` is
the beginning of a shutdown, which closes the listener that is served;
`Draining` is the server in a `GracefulStop` that may never return. `jobs` and
`stored` are the cron process as seen from here: a first run, a scheduler,
rates that need the table and those settings (`JobCanStore`). The migrator's
steps are golang-migrate's: version and dirty flag first (`MigUp`), the
migration (`MigRuns`), the flag again (`MigCleans`), with death between any
two.

## Runs

| Run | States | Question | Properties |
|---|---|---|---|
| `fetch_worker` | 1.3 M | Do overlapping runs, restarts, midnight, timeouts and lost or late INSERTs leave the table and the verdicts right? | `TypeOK`, `SuccessIsDurable`, `RowsComeFromRuns`, `RowSpansTwoDays`, `CronRunsDrainBeforeClose`, `ObservationsStay`, `LedgerSpec` |
| `fetch_worker_live` | 0.2 M | Does every run end, and a signal end the process, if neither ECB nor database need answer? | `EveryRunEnds`, `InterruptEndsProcess` |
| `fetch_worker_interrupt` | | Does a second Ctrl+C force the exit? **No** | `SecondInterruptForces` |
| `ecb_client` | 19 k | Does a call keep `FetchCall`, retry only what is worth it, count its requests, and answer what the document says? | `TypeOK`, `MetricsMissAtMostTheLast`, `DelayFollowsComment`, `OnlyRetriableIsRetried`, `AnswerIsPublished`, `CallSpec` |
| `ecb_client_overflow` | | Does the delay double up to the cap for any number of attempts? **No** | `DelayFollowsComment` |
| `currency_server` | 0.8 M | Are answers rates of the table, for the base and days asked for, and does waiting never lose one? | `TypeOK`, `AnswersComeFromRows`, `RatesStayFound` |
| `rate_path` | 0.1 M | Is the client told what the server counted, do their checks agree, and do calls and both shutdowns end in any order? | `PathTypeOK`, `ServerNeverRejects`, `ToldAsCounted`, `CountedAsAnswered`, `CallsDrainBeforeClose`, `ServerSpecification`, `AbandonedCallsEnd`, `StoppingTogetherEnds`, `EveryRequestEnds`, `ShutdownEnds` |
| `rate_system` | 0.7 M | Can the server find anything the cron process saved? It cannot | `NoRateIsEverServed` |
| `rate_system_served` | | Is a saved pair and day found by a search? **No** | `SavedRatesAreServed` |
| `startup` | 90 k | Do processes come up or go down if pings are answered, fail only where no check looks, and do rates arrive? | `TypeOK`, `OnlyUncheckedPortsFail`, `SuccessMeansTable`, `SettlesOrExits`, `RatesArrive` |
| `gateway` | 0.7 M | Do removed users fade out, fresh tokens work, logins that were read in time survive a shutdown, and shutdowns end? | `TypeOK`, `CleanStopAnsweredAll`, `RemovedUsersFadeOut`, `FreshTokensWork`, `ShutdownKeepsReadLogins`, `SignalEndsProcess` |
| `gateway_skew` | | Does the leeway support a gateway whose clock is ahead? **No** | `SkewIsSupported` |

Bold answers are runs expected to find a violation; each is one of the
[findings](#findings). For every property of the other runs `PROJECT.json`
names a mutant, a plausible bug in the code under which TLC finds that
property violated with the same configuration. Deadlock is checked in every
run; the places where a process may rest (`StayDown`, `Done`, `Over`, `Rest`) are
explicit steps.

What each property says is in the comment above it. Some that repay reading:

* `RowSpansTwoDays`. A run reads the clock twice, may wait past midnight, and
  its INSERT may commit later still. The row is dated by the first reading and
  the interval ends with it, so observations are of that day or the one before.
* `LedgerSpec`. A mutant that reports success when the INSERT is out, and not
  when it is acknowledged, breaks it only if the INSERT is then dropped.
* `NoRateIsEverServed` states what the system does, not what it should do; it
  bounds the finding of `rate_system_served`: not in some unlucky order, but in
  every order, and by the theorem `NothingIsServed` for every instance.
* `CountedAsAnswered` is exact about its exceptions: a panic is answered
  `Internal` and not counted; an ended context is counted `Unknown` and
  answered `Canceled` or `DeadlineExceeded`.
* `RemovedUsersFadeOut` holds *because* of the second, leeway-free check that
  `SkewIsSupported` is violated by. A change to one must look at the other.
* `ServerNeverRejects`. The gateway accepts any date `time.Parse` does, the
  server none before the year 1. What lies between is kept away by the check
  of the age, which says nothing of years: the mutant without it breaks the
  property.
* `ToldAsCounted` is the gateway's half of `CountedAsAnswered`: from the
  table to the client's screen the two say where a request for rates can be
  told one thing and counted another. An answer counted as OK may be told as
  503, when the connection broke, or as 429, when it was above 4 MiB.
* `ShutdownKeepsReadLogins` is as much as the code gives a login. `Shutdown`
  gives up after ten seconds, a body may take fifteen and the auth client five
  more: a login is kept if its body was read more than five seconds before
  `Shutdown` gives up, which every login is that was with the auth client at
  the signal. One whose body comes slowly can be dropped.
* `StoppingTogetherEnds` needs no answer of the database, `ShutdownEnds` does:
  alone, a server with a hung query never stops; beside a gateway that stops
  too, the timeout of the gateway's `Shutdown` cancels the query.
* `OnlyUncheckedPortsFail` is the exact complement of the configuration's
  checks: a failed listener has a port above the range, which gateway and auth
  service do not exclude, or one given twice outside the single pair that
  `Validate` compares.
* `AnswersComeFromRows` compares days, as `date::date BETWEEN` does: a search
  from a midnight on does not take in the row of the midnight before.
* `SettlesOrExits` and `RatesArrive` have premises, stated as formulas before
  them. The ping has no timeout, so a process whose database neither answers
  nor refuses stays `connecting` (`PingAnswered`). A server that stops may be
  `Draining` for ever, since `GracefulStop` has none either. And rates arrive
  only if some run is answered (`RunsAreAnswered`). What is left is the code's
  part: the first run may come before the table, the scheduler makes up for
  it, and it does not wait for the first run.

## Bounds

* **fetch_worker**: two runs, two days of two ticks, `Timeout` 2. Two runs are
  a pair of any kind: startup and scheduled, two scheduled, or the startup runs
  of two lives of the process. With two ticks a day midnight falls between any
  two reads, and a timeout can pass before, at or after midnight. One finite
  rate and `NaN` are enough since no property compares rates of different
  runs except for equality with their source; the values of a JSON object are
  never computed with. `Spawn` requires room for the deadline, so that no
  context exists that cannot expire; `MaxInterrupts` = 2 since the third
  signal does what the second does.
* **fetch_worker_live**: two runs again, without symmetry, which is not sound for
  liveness; the shortest clock on which a timeout passes.
* **ecb_client**: four attempts, so that a retry follows a retry and the third
  delay meets the cap. `Width` 8 holds every delay of this instance;
  **ecb_client_overflow** uses 6 bits to stand for 64. All documents of up to
  two observations over two days and two values, missing and garbled attributes
  among them: two of one day and of two, complete or not, in every order.
* **currency_server**: one call (calls do not touch each other's state), all
  requests over three codes, two of them one currency in either case, absent
  fields and four dates (two instants of neighbouring days, none, one that does
  not parse), against any table three instants can make, two of one day and
  one of the next, written before, between and after the call's steps.
* **rate_path**: two requests, so that one can hang while the other is answered
  and a shutdown waits for either; one query the server can answer and one of
  every kind the gateway stops; one day and one currency, for nothing here
  depends on which rates are found, only on whether any are.
* **startup**: server, cron process and gateway, launched once each, and the
  migrator, launched twice, so that a second run meets what a dead one left.
  Seven configurations: a good one of the currency processes, and the same
  without attempts and a URL of use; the server's two ports equal while the gateway takes the
  cron process's metrics port, with a schedule that does not parse and no
  timeout; the two metrics ports equal and the gateway's out of range; absent
  ports; a file of the currency processes whose other checks fail; an unknown
  env. In the first two the gateway's other checks fail.
* **rate_system**: one run, over two days, and one call with any codes, known
  or blank, for the first of them, the day of the row of a run that reads the
  clock before midnight. Both directions of every race between the upsert and
  the search are in it; that other dates, and more of either, change nothing is
  what the theorems say.
* **gateway**: two requests, one user. A removal and a token in flight need
  one user; a login followed by the use of its token, or two uses, need two
  requests. Seconds of two ticks make truncation visible, and the skew covers
  the leeway in both directions. The auth client's timeout is one tick, the
  shutdown's two and the read of a body's three, the order of the code's five,
  ten and fifteen seconds. The last instant lies beyond the end of a token's
  life and of a shutdown; a shutdown only begins where its timeout still fits.
  `CallCodes` has three codes, a good one, one whose status is the
  middleware's 401 and one of the transport: no property tells more apart.

## Fairness

* `FetchWorker`: the clock advances; a goroutine takes its next local step;
  a call bounded by a context returns **once the context is done**, which is
  what `net/http`, `lib/pq` and the retry loop do. No fairness on answers of
  the ECB, on `Apply`, `SaveAcked` or on signals. `MainStep` is the scheduling
  of the main goroutine.
* `EcbClient`: the context ends at some time (the worker always sets a
  timeout); `Do` and the body's reader return after that. No fairness on the
  server.
* `RatePath` (`CurrencyServer` alone has none): goroutines are scheduled; a
  call is delivered, answered, or fails when the server is gone; a reset stream
  or a closed connection is noticed; and a query whose context ended returns,
  which is `lib/pq` asking the database to cancel and **the database obeying**.
  That an answer comes is not assumed: where it is needed, it is the premise
  of the property (`DbAnswers`).
* `Startup`: processes do their own next step (`OwnStep`). No fairness on the
  answer to a ping, on the exit of a server that drains, on runs of a job, on
  launches or on the migrator; two properties have the first and the third as
  premises. The other shutdowns have a time limit: those of gateway and auth
  service one of their own, that of the cron process the timeout of its runs.
* `Gateway`: the clock advances, the main goroutine and the timers of logins
  (of the body and of the auth client) are served. Requests for rates need not
  ever end, no client send its body, nor the auth service answer: `SignalEndsProcess` rests on the timeout of `Shutdown`.

## Proofs

All theorems are about the modules the runs check, for all values of the
constants that satisfy the module's ASSUME. The assumptions only say that
numbers are numbers (a day has at least one tick, timeouts are not negative),
that `ToUpper` maps codes to codes, and that markers such as `NaN` or `Blank`
are none of the values they stand beside; `Gateway` also has whole seconds in
the configured life of a token and the leeway, as configured minutes and ten
seconds are, and an auth client with a timeout shorter than the shutdown's;
`RatePath` has queries of the shape a URL can give. Four theorems about
`RatePath` (the refinement, and what rests on it) also assume that the dates of
the queries are among the server's `Moments`, the bound on the clients of that
module; `DelayIsAsCommented` assumes `NoOverflow`, of which below. The bound on
the clock is a constant like any other, so the theorems hold for every bound.

| Module | Theorem | Proves |
|---|---|---|
| `FetchWorker_proofs` | `TypeCorrect` | `TypeOK` |
| | `DurabilityOfSuccess` | `SuccessIsDurable` |
| | `RowProvenance` | `RowsComeFromRuns` |
| | `RowDays` | `RowSpansTwoDays` |
| | `DrainBeforeClose` | `CronRunsDrainBeforeClose` |
| | `ObservationsAreKept` | `ObservationsStay` |
| | `LedgerRefinement` | `LedgerSpec`: the refinement |
| `EcbClient_proofs` | `TypeCorrect` | `TypeOK` |
| | `MetricsOfTheCall` | `MetricsMissAtMostTheLast` |
| | `RetryOnlyRetriable` | `OnlyRetriableIsRetried` |
| | `CallSafety` | the safety part of `CallSpec` |
| | `AnswersArePublished` | `AnswerIsPublished`, for documents of any length |
| | `AnswersAreRateMaps` | the answer is a map from days to numbers, as `FetchWorker` has it |
| | `EveryStepIsProgress` | a call takes at most `8 * MaxAttempts + 7` steps |
| | `DelayIsAsCommented` | `DelayFollowsComment`, if no doubling reaches the sign of a `Duration` |
| | `DelayIsBounded` | its upper half for every policy |
| | `ShiftedOutDelaysAreZero` | what becomes of the backoff when the 1 is shifted out |
| `RateStore_proofs` | `SearchAfterSave` | the exact effect of an upsert on any search |
| | `BasesAreIsolated` | saving for one base changes no search of another |
| | `SavesCommute` | two INSERTs may commit in either order, unless they disagree on a row |
| `CurrencyServer_proofs` | `AnswersTheorem` | `AnswersComeFromRows` |
| | `RatesStayTheorem` | `RatesStayFound` |
| | `DrainTheorem` | `CallsDrainBeforeClose` |
| | `TypeCorrect` | `TypeOK` |
| | `CountedTheorem` | `CountedAsAnswered` |
| `RatePath_proofs` | `NeverRejectsTheorem` | `ServerNeverRejects` |
| | `PathIsServer` | `ServerSpecification`: the refinement |
| | `ToldTheorem` | `ToldAsCounted` |
| | `PathTypeCorrect` | `PathTypeOK` |
| | `ServerBehindGateway` | the server's theorems, on the path |
| | `ShownTheorem` | a 200 shows rates of rows of the base, days and currency of the client's query |
| `RateSystem_proofs` | `NothingIsServed` | `NoRateIsEverServed` |
| | `WorkerBesideServer` | all the cron process promises alone, on the shared table |
| | `ServerBesideWorker` | `CountedAsAnswered`, `CallsDrainBeforeClose` beside the cron process |
| `Gateway_proofs` | `RemovedUsersTheorem` | `RemovedUsersFadeOut` |
| | `CleanStopTheorem` | `CleanStopAnsweredAll` |
| | `TypeCorrect` | `TypeOK` |
| | `ReadLoginsAreKept` | `ShutdownKeepsReadLogins` |
| | `FreshTokensTheorem` | `FreshTokensWork` |
| `Startup_proofs` | `PortsTheorem` | `OnlyUncheckedPortsFail` |
| | `MigrationTheorem` | `SuccessMeansTable` |
| | `TypeCorrect` | `TypeOK` |

The inductive invariants, and why the properties are not inductive alone:

* **FetchWorker.** `TypeInv == TypeOK /\ RunsOK`. That a row has rates and no
  `NaN` needs that an INSERT *on its way* has none (`RunOK`, `stmt # "none"`);
  that a row spans two days needs that a run between its two readings of the
  clock has `dayNow <= clock`, so that its interval starts no earlier than
  the day before (`from >= DayOf(dayNow) - 1`); this is where
  `DayOfMonotone` is used. `TableInv == AppliedAreInRows /\ RowsComeFromRuns`:
  every applied INSERT is in its row still. It uses the lemmas on `Save`
  in `RateStore_proofs` (`SaveKeeps`, `SaveWrites`, `SaveEntries`,
  `SaveFunction`). `SuccessIsDurable` then follows since a success is empty or
  applied, `RowSpansTwoDays` from `RowsComeFromRuns` and `RunsOK`. The
  refinement needs `RunsOK` only: no answer exists before one was received.
* **EcbClient.** `ClientInv == TypeInv /\ LoopInv /\ MetricsInv` ties the loop
  variable to the requests sent, and the requests to the two counters, place by
  place: an attempt sends at most one request, and only a counted failure leads
  back to the loop's head. It holds for `MaxAttempts` zero or negative as well.
  `StepsLeft`, attempts to come and places of the present one, falls with every
  step (`EveryStepIsProgress`): what is left to fairness is that each step
  comes, not that there are finitely many.
  `DecodedInv` says that data is `RatesOf` of a document that is not refused.
  That `RatesOf` is `Published` (`RatesOfIsPublished`) is an induction over the
  document: `LoopPublishes` says of every prefix what `Published` says of the
  whole. The library's induction theorems take an operator and cannot be used;
  `SetInduction` is derived from the well-foundedness of `<` on the naturals,
  on the *set* of the numbers that have a property, and `UnfoldingExists` and
  `UnfoldingsAgree` from it: a function defined by recursion exists and obeys
  its equation. `Pow2Def` and `OfNext` are the two uses. For the delays,
  `WrapBounds` and `Shifts` bound an int64 of any width, `CappedAtMost` and
  `CappedExact` the product of the two, and `DelayInv` ties the last sleep to
  the attempt it follows.
* **RateStore.** No state. `SavedRow` is the row a `Save` leaves; the three
  theorems are the cases of the integration test
  (`currency/internal/repository/postgres_integration_test.go:83`), for every table.
* **CurrencyServer.** `ServerInv`: each record a call holds, while it scans and
  for ever after it answered, belongs to a row its own query *would still
  find* (`Finds`, `HeldInv`). Reading makes it true (`FoundDates`), and a write
  cannot make it false (`WriteKeepsFinds`, from `SaveKeeps`).
  `AnswersComeFromRows` is its consequence, day by day; `RatesStayFound` is `WriteKeepsFinds` for a query that
  still waits. `CountedAsAnswered` is inductive with `TypeOK`.
* **RatePath.** `SentInv`: whatever the gateway sends, the server's validation
  accepts (`ParsedIsValid`: upper-case codes are not blank, dates that were
  checked for their age are not before year 1). The refinement
  (`PathStepIsServerStep`) needs it, for `Deliver` must be one of the requests
  that module allows. `ToldInv` follows a status from `place` to `http`;
  `GateTyped` are the types of the gateway's half. `MatchInv` says that the
  server works on what the gateway sent, a query being sent once; with
  `ToldInv` and the server's `AnswersComeFromRows` it gives `ShownTheorem`.
* **RateSystem.** `FetchWorker`'s invariants hold beside the server since it
  only reads. They say every key is a date, so each search is empty
  (`NothingIsFound`) and no call ever holds a record (`WireInv`). The cron
  process's theorems carry over whole, since every step of the system is one
  of `FetchWorker` or leaves its variables alone (`SystemIsWorker`). The
  server's do not: a write of the cron process is none of `CurrencyServer`'s
  `Write`. `ServerPromises` is inductive by itself.
* **Gateway.** `TokenInv`: every token anywhere expires within `Ttl` of now,
  and if its user has left, within `Ttl` of the moment of leaving
  (`GoodToken`). The second half is kept by `Issues` only since a verified
  request is one of a user in the *current* configuration: a restart orphans
  the requests it had verified. `StopInv` is the shutdown's: nothing is dropped
  unless the process failed. `TimerInv`: no login in flight has been with
  the auth client for longer than its timeout. When `Shutdown` gives up, the
  clock is at its limit, so what it still finds there came later than that
  before the limit (`ReadLoginsAreKept`).
  `FreshInv`: a token expires exactly `Ttl` after it begins and begins no later
  than now; it uses that truncation moves with whole seconds (`TruncatedMoves`).
* **Startup.** `PortInv`: a process past its checks has a validated file, and a
  failed listener an excuse (`Excused`), which is all `UnboundIsExcused` leaves
  when a port is taken or out of range. `SchemaInv`: version 1 without the dirty
  flag means the table is there, wherever an earlier migrator died.

What is only model-checked: liveness (`EveryRunEnds`, `InterruptEndsProcess`,
`AbandonedCallsEnd`, `StoppingTogetherEnds`, `EveryRequestEnds`,
`ShutdownEnds`, `SettlesOrExits`, `RatesArrive`, `SignalEndsProcess`, the
liveness part of `CallSpec`), which TLAPS cannot reason about with fairness.
Every invariant and every action property of the passing runs is proved.
`DelayFollowsComment` is false for some constants (finding 3): its upper half
is proved for all, its lower half under `NoOverflow`, which is the bound on
`max_attempts` and `base_delay` that the configuration should check.

## Findings

1. **Saved rates are never found** (`rate_system_served`, code bug). The client
   keys its map by the observation's date
   (`currency/internal/clients/currency/currency_client.go:151`) and the
   service saves that map as `currency_rates`; the SELECT looks for the
   *currency* among the keys (`currency/internal/repository/postgres.go:76-80`).
   The repository's integration test saves a map keyed by currency, so it
   passes. `NothingIsServed` proves that no call is ever answered with a rate.
2. **The second Ctrl+C does not force** (`fetch_worker_interrupt`). The message
   "press Ctrl+C again to force" (`currency/cmd/cron/main.go:110`) would need
   `stop()` to be called before it; it is deferred to the end of `run`.
3. **backoff overflows before it is capped** (`ecb_client_overflow`, code bug).
   `BaseDelay * (1 << attempt)` wraps in an int64
   (`currency/internal/clients/currency/retry.go:51`); `max_attempts` is not
   bounded. By `DelayIsAsCommented` this is the only way to leave the comment, by
   `DelayIsBounded` a sleep is never too long, and by
   `ShiftedOutDelaysAreZero` retries follow each other without a delay once
   the 1 is shifted out.
4. **The leeway does not support skew** (`gateway_skew`). After the parser with
   `jwt.WithLeeway(10*time.Second)`, "clock skew support", `validate` compares
   the expiry again without it (`gateway/internal/middleware/auth.go:72-79`).
   The leeway is effective for `nbf` only: `FreshTokensWork` is the part of the
   comment that does hold, with a gateway behind by up to the leeway.

Noted and not stated as violations, as no line of the repository says
otherwise: the row's date is the full timestamp, so each run of a day makes a
row of its own; the startup run is not waited for by `Stop`; a malformed
schedule leaves a process that never fetches again; the health service says
SERVING while the server drains; every error of the auth client is a 401.

## What is left out

* Syntax: of XML, of URLs, of dates and of JSON. What a document or a query
  *says* is in the models, with its malformed cases; how it is spelled is not.
* The auth service's own shutdown. A restart of it loses what it was working
  on (`AuthRestarts`); an orderly one would wait, as the gateway's does.
* The metrics HTTP servers of the currency processes beyond their listeners,
  and their shutdown.
* The server's `WriteTimeout` at the gateway: a `GetRate` that takes longer is
  answered into a closed connection.
* Request ids, logging, health and reflection services, the metrics registry,
  the logger's output: no result depends on them.
* Generated protobuf code and mocks.

External, and modelled by what the code relies on: PostgreSQL (one statement
is atomic; may commit unacknowledged, or never), gocron (`Stop` waits for its
jobs; no singleton mode), grpc-go (`GracefulStop`, statuses of context
errors), golang-jwt (the times of the claims with a leeway), golang-migrate
(the version is written dirty before the migration and clean after it),
`net/http`, the ports of the host, the ECB, clients, the operating system.

## Plan

Written, in this order: `RateStore`, `FetchWorker` with `JobLedger` (the heart:
what reaches the table), `EcbClient` with `FetchCall`, `CurrencyServer`,
`RateSystem`, `Gateway`, then `EcbDocument`, `GrpcStatus`, `RatePath`,
`Startup`, and the proofs of each.

Next, by what they would tell:

1. `RateSystem` with `RatePath` in the place of `CurrencyServer`: that no client
   of the gateway is ever shown a rate, of the four processes together.
2. `WriteTimeout` in `RatePath`, with the answer that arrives after it.
3. The auth service's shutdown in `Gateway`, against the auth client's timer.

Runs stay one per question: new questions join the run of their module.
