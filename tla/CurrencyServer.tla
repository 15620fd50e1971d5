---------------------------- MODULE CurrencyServer ----------------------------
(***************************************************************************)
(* The currency gRPC server (currency/cmd/currency/main.go): the GetRate   *)
(* calls, each in a goroutine of its own under the chain of interceptors   *)
(* Recovery, RequestID, Logging, Metrics, the query they run on the table  *)
(* another process writes, and the shutdown of the server.                 *)
(*                                                                         *)
(*   idle       not received                                               *)
(*   received   in the handler, to be validated                            *)
(*   querying   inside QueryContext, the SELECT has read nothing yet       *)
(*   scanning   the SELECT read the table, its rows are on their way       *)
(*   answered   the interceptors returned and the status is on the wire    *)
(*   dropped    the process died under the call                            *)
(*                                                                         *)
(* The client, its deadline, the network and the database are external.    *)
(***************************************************************************)
EXTENDS RateStore

CONSTANTS
  Calls,           \* calls of GetRate
  Codes,           \* currency codes as written in requests and configuration
  ToUpper,         \* strings.ToUpper on them
  ConfiguredBase,  \* worker.currency_pair.base_currency, the default base
  Blank,           \* an absent or empty field of a request
  Malformed,       \* a timestamp out of range
  Moments,         \* bound: the dates requests are made with
  MaxClock         \* bound: the last instant of the model

ASSUME CurrencyServerAssumption ==
  /\ ToUpper \in [Codes -> Codes]
  /\ ConfiguredBase \in Codes
  /\ Blank \notin Codes
  /\ MaxClock \in Nat
  /\ Blank # Malformed
  /\ {Blank, Malformed} \cap (0..MaxClock) = {}
  /\ Moments \subseteq (0..MaxClock) \cup {Blank, Malformed}

VARIABLES
  rows,        \* the table exchange_rates, written by the cron process
  mode,        \* where the main goroutine is
  place,       \* [Calls -> where the call is]
  request,     \* [Calls -> the request]
  callCtx,     \* [Calls -> "live", or how the call's context ended]
  wire,        \* [Calls -> the status code on the wire]
  counted,     \* [Calls -> the code it was counted under, or "none"]
  answer       \* [Calls -> the rate records of the response]

callVars == <<place, request, callCtx, wire, counted, answer>>
serverVars == <<mode, place, request, callCtx, wire, counted, answer>>
vars == <<rows, mode, place, request, callCtx, wire, counted, answer>>

Dates == (0..MaxClock) \cup {Blank, Malformed}
Requests == [currency : Codes \cup {Blank}, base : Codes \cup {Blank},
             dateFrom : Dates, dateTo : Dates]
NoRequest == [currency |-> Blank, base |-> Blank, dateFrom |-> Blank, dateTo |-> Blank]

InFlight == {"received", "querying", "scanning"}
PoolOpen == mode \in {"up", "stopping", "closing"}

------------------------------------------------------------------------------
(* The handler's pure parts.                                               *)

\* rateRequestValidation.
Valid(r) ==
  /\ r.currency # Blank
  /\ r.dateFrom \in 0..MaxClock
  /\ r.dateTo \in 0..MaxClock
  /\ r.dateTo >= r.dateFrom

\* The base of the request or the default one, and the upper case of both codes.
QueryBase(r) == ToUpper[IF r.base = Blank THEN ConfiguredBase ELSE r.base]
Target(r) == ToUpper[r.currency]

\* Mutant of Found: the interval begins a day early.
Found_DayBefore(r) ==
  FindInInterval(rows, QueryBase(r), Target(r), DayOf(r.dateFrom) - 1, DayOf(r.dateTo))

Found(r) ==
  FindInInterval(rows, QueryBase(r), Target(r), DayOf(r.dateFrom), DayOf(r.dateTo))

------------------------------------------------------------------------------
Init ==
  /\ rows = EmptyMap
  /\ mode = "up"
  /\ place = [q \in Calls |-> "idle"]
  /\ request = [q \in Calls |-> NoRequest]
  /\ callCtx = [q \in Calls |-> "live"]
  /\ wire = [q \in Calls |-> "none"]
  /\ counted = [q \in Calls |-> "none"]
  /\ answer = [q \in Calls |-> {}]

\* A call with request r is accepted; GracefulStop closes the listener first.
Accept(q, r) ==
  /\ place[q] = "idle"
  /\ mode = "up"
  /\ place' = [place EXCEPT ![q] = "received"]
  /\ request' = [request EXCEPT ![q] = r]
  /\ UNCHANGED <<rows, mode, callCtx, wire, counted, answer>>

\* Any client's call.
Receive(q) ==
  \E r \in Requests : r.dateFrom \in Moments /\ r.dateTo \in Moments /\ Accept(q, r)

\* Mutant of Answer: the error Metrics looks at is not the handler's.
Answer_OtherError(q, label, code, records) ==
  /\ place' = [place EXCEPT ![q] = "answered"]
  /\ counted' = [counted EXCEPT ![q] = "OK"]
  /\ wire' = [wire EXCEPT ![q] = code]
  /\ answer' = [answer EXCEPT ![q] = records]
  /\ UNCHANGED <<rows, mode, request, callCtx>>

\* The handler returned: Metrics counts status.Code(err), the transport answers.
Answer(q, label, code, records) ==
  /\ place' = [place EXCEPT ![q] = "answered"]
  /\ counted' = [counted EXCEPT ![q] = label]
  /\ wire' = [wire EXCEPT ![q] = code]
  /\ answer' = [answer EXCEPT ![q] = records]
  /\ UNCHANGED <<rows, mode, request, callCtx>>

\* Mutant of Reject: the error is written and the handler goes on.
Reject_NoReturn(q) ==
  /\ place[q] = "received"
  /\ ~Valid(request[q])
  /\ wire' = [wire EXCEPT ![q] = "InvalidArgument"]
  /\ UNCHANGED <<rows, mode, place, request, callCtx, counted, answer>>

\* rateRequestValidation fails.
Reject(q) ==
  /\ place[q] = "received"
  /\ ~Valid(request[q])
  /\ Answer(q, "InvalidArgument", "InvalidArgument", {})

\* Mutant of StartQuery: calls are parked once the server stops.
StartQuery_WhileUp(q) ==
  /\ place[q] = "received"
  /\ Valid(request[q]) /\ mode = "up"
  /\ place' = [place EXCEPT ![q] = "querying"]
  /\ UNCHANGED <<rows, mode, request, callCtx, wire, counted, answer>>

StartQuery(q) ==
  /\ place[q] = "received"
  /\ Valid(request[q])
  /\ place' = [place EXCEPT ![q] = "querying"]
  /\ UNCHANGED <<rows, mode, request, callCtx, wire, counted, answer>>

\* The SELECT reads the table, in one statement.
QueryReads(q) ==
  /\ place[q] = "querying" /\ PoolOpen
  /\ place' = [place EXCEPT ![q] = "scanning"]
  /\ answer' = [answer EXCEPT ![q] = Found(request[q])]
  /\ UNCHANGED <<rows, mode, request, callCtx, wire, counted>>

\* The last row is scanned; no row at all is a NotFound.
QueryReturns(q) ==
  /\ place[q] = "scanning"
  /\ LET code == IF answer[q] = {} THEN "NotFound" ELSE "OK"
     IN  Answer(q, code, code, answer[q])

Searching(q) == place[q] \in {"querying", "scanning"}

\* An error of the database: the handler wraps it, it has no status.
QueryFails(q) == Searching(q) /\ Answer(q, "Unknown", "Unknown", {})

\* Mutant of QueryCancelled: Query instead of QueryContext.
QueryCancelled_Never(q) == FALSE

\* An error of the context: no status either, but the transport makes one of it.
QueryCancelled(q) ==
  /\ Searching(q) /\ callCtx[q] # "live"
  /\ Answer(q, "Unknown", callCtx[q], {})

\* A panic below the interceptors unwinds Metrics and Logging up to Recovery.
Panic(q) == place[q] \in InFlight /\ Answer(q, "none", "Internal", {})

\* The context of a call ends.
EndContext(q, how) ==
  /\ place[q] \in InFlight /\ callCtx[q] = "live"
  /\ callCtx' = [callCtx EXCEPT ![q] = how]
  /\ UNCHANGED <<rows, mode, place, request, wire, counted, answer>>

\* The client cancels or its deadline passes.
EndCall(q) == \E how \in {"Canceled", "DeadlineExceeded"} : EndContext(q, how)

------------------------------------------------------------------------------
(* The main goroutine.                                                     *)

MoveTo(m) == mode' = m /\ UNCHANGED <<rows, callVars>>

\* A signal, or Serve returned an error: both lead to application.Stop.
BeginStop == mode = "up" /\ MoveTo("stopping")

\* Mutant of GracefulStopReturns: Stop instead of GracefulStop.
GracefulStopReturns_AtOnce == mode = "stopping" /\ MoveTo("closing")

\* GracefulStop waits for every call in flight, without a timeout.
GracefulStopReturns ==
  /\ mode = "stopping"
  /\ \A q \in Calls : place[q] \notin InFlight
  /\ MoveTo("closing")

\* The metrics server is shut down, then the pool is closed.
CloseDb == mode = "closing" /\ MoveTo("closed")

Vanish ==
  /\ mode' = "down"
  /\ place' = [q \in Calls |-> IF place[q] \in InFlight THEN "dropped" ELSE place[q]]
  /\ UNCHANGED <<rows, request, callCtx, wire, counted, answer>>

Exit == mode = "closed" /\ Vanish
Kill == mode # "down" /\ Vanish

CallStep(q) ==
  \/ Receive(q) \/ Reject(q) \/ StartQuery(q) \/ QueryReads(q) \/ QueryReturns(q)
  \/ QueryFails(q) \/ QueryCancelled(q) \/ Panic(q) \/ EndCall(q)

MainStep == BeginStop \/ GracefulStopReturns \/ CloseDb \/ Exit \/ Kill

\* What the server does; the table is another process's.
ServerStep == MainStep \/ \E q \in Calls : CallStep(q)

------------------------------------------------------------------------------
(* The server alone, with a table keyed the way its query reads it: rows   *)
(* of a rate per currency, as the repository's test writes them.           *)

CONSTANTS
  Rates,           \* the rates it writes
  Bases            \* bound: the base currencies it writes rates of

Write ==
  /\ \E date \in 0..MaxClock, rate \in Rates, base \in Bases, code \in {ToUpper[c] : c \in Codes} :
       /\ rows' = Save(rows, date, base, [k \in {CurrencyKey(code)} |-> rate])
  /\ UNCHANGED serverVars

StayDown == mode = "down" /\ UNCHANGED vars

Next == ServerStep \/ Write \/ StayDown

Safety == Init /\ [][Next]_vars

------------------------------------------------------------------------------
(* Properties.                                                             *)

StatusCodes == {"OK", "InvalidArgument", "NotFound", "Unknown", "Internal", "Canceled",
                "DeadlineExceeded"}

TypeOK ==
  /\ mode \in {"up", "stopping", "closing", "closed", "down"}
  /\ place \in [Calls -> {"idle", "answered", "dropped"} \cup InFlight]
  /\ request \in [Calls -> Requests]
  /\ callCtx \in [Calls -> {"live", "Canceled", "DeadlineExceeded"}]
  /\ wire \in [Calls -> StatusCodes \cup {"none"}]
  /\ counted \in [Calls -> StatusCodes \cup {"none"}]
  /\ \A q \in Calls : wire[q] # "none" <=> place[q] = "answered"

\* A rate that was answered is a rate of the table: a row of the base that was
\* asked for, of one of the days from that of dateFrom to that of dateTo, which still
\* has the currency, although rows were added and changed since.
AnswersComeFromRows ==
  \A q \in Calls : wire[q] = "OK" =>
    /\ answer[q] # {}
    /\ \A record \in answer[q] :
         /\ <<record.date, QueryBase(request[q])>> \in DOMAIN rows
         /\ CurrencyKey(Target(request[q])) \in
              DOMAIN rows[<<record.date, QueryBase(request[q])>>]
         /\ DayOf(record.date) \in DayOf(request[q].dateFrom)..DayOf(request[q].dateTo)

\* Waiting never makes a search find less: whatever is saved while a call waits for
\* its SELECT, into the same rows or others, the dates it would find stay found.
RatesStayFound ==
  [][\A q \in Calls : place[q] = "querying" /\ rows' # rows =>
       {record.date : record \in Found(request[q])} \subseteq
         {record.date : record \in Found(request[q])'}]_vars

\* No call in flight outlives the pool: GracefulStop drained them before.
CallsDrainBeforeClose ==
  mode \in {"closing", "closed", "down"} => \A q \in Calls : place[q] \notin InFlight

\* The request counter has a call under the code its client got, but for panics,
\* which Metrics does not survive, and for ended contexts, which it knows as Unknown.
CountedAsAnswered ==
  \A q \in Calls : place[q] = "answered" /\ counted[q] # wire[q] =>
    \/ wire[q] = "Internal" /\ counted[q] = "none"
    \/ wire[q] = callCtx[q] /\ counted[q] = "Unknown"

==============================================================================
