------------------------------ MODULE RateSystem ------------------------------
(***************************************************************************)
(* The cron process and the currency server together: two processes that   *)
(* only share the table exchange_rates, which one writes and the other     *)
(* reads.  Either may stop, die or (the cron process) start again at any   *)
(* moment of the other.                                                    *)
(***************************************************************************)
EXTENDS FetchWorker

CONSTANTS Calls, Blank, Malformed, Moments

VARIABLES mode, place, request, callCtx, wire, counted, answer

serverVars == <<mode, place, request, callCtx, wire, counted, answer>>
systemVars == <<vars, serverVars>>

\* The cron process is the only writer: the server's own bound on others is empty.
Server == INSTANCE CurrencyServer WITH Bases <- {}

SystemInit == Init /\ Server!Init

\* A step of the cron process, its database or the clock, or a step of the server.
SystemNext ==
  \/ Next /\ UNCHANGED serverVars
  \/ Server!ServerStep /\ UNCHANGED vars

System == SystemInit /\ [][SystemNext]_systemVars

------------------------------------------------------------------------------
(* Properties.                                                             *)

\* As long as the cron process is the only writer of the table, no call of GetRate
\* is answered with a rate: the saved objects have dates for keys and the query
\* looks for a currency among them.
NoRateIsEverServed == \A q \in Calls : wire[q] # "OK"

\* A run that saved its rates is there for a request of its pair and its days.
Saved(r, request_q) ==
  /\ pc[r] = "succeeded" /\ DOMAIN rates[r] # {}
  /\ Server!QueryBase(request_q) = Base
  /\ Server!Target(request_q) = ToUpper[ConfiguredTarget]
  /\ DayOf(dayNow[r]) \in DayOf(request_q.dateFrom)..DayOf(request_q.dateTo)

\* What was saved is found, as the repository's test has it: a search for the pair
\* and the day of a run that saved its rates before does not come back empty.
SavedRatesAreServed ==
  [][\A q \in Calls : place[q] = "querying" /\ place'[q] = "scanning" /\ answer'[q] = {} =>
       ~\E r \in Runs : Saved(r, request[q])]_systemVars

==============================================================================
