-------------------------- MODULE RateSystem_proofs --------------------------
(***************************************************************************)
(* The two processes together, for any runs, calls, currencies and days.   *)
(* The cron process keeps its own invariants whatever the server does,     *)
(* since the server only reads; and with these every search of the server  *)
(* comes back empty.                                                       *)
(***************************************************************************)
EXTENDS RateSystem, FetchWorker_proofs

WireInv ==
  /\ wire \in [Calls -> (Server!StatusCodes \ {"OK"}) \cup {"none"}]
  /\ callCtx \in [Calls -> {"live", "Canceled", "DeadlineExceeded"}]
  /\ answer \in [Calls -> {{}}]

SystemInv == TypeInv /\ TableInv /\ WireInv

\* A table of date keys has no row for a query: FindInInterval is empty.
LEMMA NothingIsFound ==
  ASSUME RowSpansTwoDays, NEW base, NEW target, NEW first, NEW last
  PROVE  Server!FindInInterval(rows, base, target, first, last) = {}
  <1>1. \A id \in DOMAIN rows : Server!CurrencyKey(target) \notin DOMAIN rows[id]
    <2>1. Server!CurrencyKey(target).kind # "date"
      BY DEF Server!CurrencyKey
    <2>2. QED
      BY <2>1 DEF RowSpansTwoDays
  <1>2. QED
    BY <1>1 DEF Server!FindInInterval, Server!RowsInInterval

\* The invariant holds before either process does anything.
LEMMA SystemInitInv == SystemInit => SystemInv
  <1> SUFFICES ASSUME SystemInit PROVE SystemInv
    OBVIOUS
  <1>1. TypeInv /\ TableInv
    BY TypeInit, TableInit DEF SystemInit
  <1>2. WireInv
    BY DEF SystemInit, Server!Init, WireInv
  <1>3. QED
    BY <1>1, <1>2 DEF SystemInv

\* The server's steps leave what the cron process owns alone and answer no rate.
LEMMA ServerStepKeepsWire == SystemInv /\ Server!ServerStep => WireInv'
  <1> SUFFICES ASSUME SystemInv, Server!ServerStep PROVE WireInv'
    OBVIOUS
  <1> USE DEF WireInv, SystemInv
  <1>1. ASSUME NEW q \in Calls, NEW label, NEW code \in Server!StatusCodes \ {"OK"}, 
               Server!Answer(q, label, code, {})
        PROVE  WireInv'
    BY <1>1 DEF Server!Answer
  <1>2. ASSUME NEW q \in Calls, Server!QueryReads(q) PROVE WireInv'
    <2>1. Server!Found(request[q]) = {}
      BY TableConsequences, NothingIsFound DEF Server!Found
    <2>2. QED
      BY <1>2, <2>1 DEF Server!QueryReads
  <1>3. ASSUME NEW q \in Calls, Server!QueryReturns(q) PROVE WireInv'
    <2>1. Server!Answer(q, "NotFound", "NotFound", {})
      BY <1>3 DEF Server!QueryReturns
    <2>2. QED
      BY <1>1, <2>1 DEF Server!StatusCodes
  <1>4. ASSUME NEW q \in Calls,
               \/ Server!Reject(q) \/ Server!QueryFails(q) \/ Server!QueryCancelled(q)
               \/ Server!Panic(q)
        PROVE  WireInv'
    BY <1>1, <1>4 DEF Server!Reject, Server!QueryFails, Server!QueryCancelled, Server!Panic,
         Server!StatusCodes
  <1>5. ASSUME NEW q \in Calls, Server!Receive(q) \/ Server!StartQuery(q) \/ Server!EndCall(q)
        PROVE  WireInv'
    BY <1>5 DEF Server!Receive, Server!Accept, Server!StartQuery, Server!EndCall,
         Server!EndContext
  <1>6. CASE Server!MainStep
    BY <1>6 DEF Server!MainStep, Server!BeginStop, Server!GracefulStopReturns, Server!CloseDb,
         Server!Exit, Server!Kill, Server!Vanish, Server!MoveTo, Server!callVars
  <1>7. QED
    BY <1>2, <1>4, <1>5, <1>6, <1>3 DEF Server!ServerStep, Server!CallStep

\* Neither process breaks it: a case for each.
LEMMA SystemStep == SystemInv /\ [SystemNext]_systemVars => SystemInv'
  <1> SUFFICES ASSUME SystemInv, [SystemNext]_systemVars PROVE SystemInv'
    OBVIOUS
  <1>1. [Next]_vars
    BY DEF SystemNext, systemVars
  <1>2. TypeInv' /\ TableInv'
    BY <1>1, TypeStep, TableStep DEF SystemInv
  <1>3. CASE Server!ServerStep
    BY <1>2, <1>3, ServerStepKeepsWire DEF SystemInv
  <1>4. CASE UNCHANGED serverVars
    BY <1>2, <1>4 DEF SystemInv, WireInv, serverVars
  <1>5. QED
    BY <1>3, <1>4 DEF SystemNext, systemVars

\* No call of GetRate is ever answered with a rate, however the two processes
\* interleave, stop, die and start, as long as no third one writes the table.
THEOREM NothingIsServed == System => []NoRateIsEverServed
  <1>1. SystemInv => NoRateIsEverServed
    BY DEF SystemInv, WireInv, NoRateIsEverServed
  <1>2. QED
    BY SystemInitInv, SystemStep, <1>1, PTL DEF System

\* For the cron process the server is not there: a step of the server is none of its own.
LEMMA SystemIsWorker == System => Safety
  <1>1. SystemInit => Init
    BY DEF SystemInit
  <1>2. [SystemNext]_systemVars => [Next]_vars
    BY DEF SystemNext, systemVars
  <1>3. QED
    BY <1>1, <1>2, PTL DEF System, Safety

\* So what it promises alone it keeps beside the server: no success without its rates in the
\* table, no rates of other days, none lost or changed, every run what JobLedger says, and a
\* pool that outlives the runs.
THEOREM WorkerBesideServer ==
  System => /\ [](SuccessIsDurable /\ RowsComeFromRuns /\ RowSpansTwoDays)
            /\ []CronRunsDrainBeforeClose
            /\ ObservationsStay
            /\ LedgerSpec
  <1>1. System => [](SuccessIsDurable /\ RowsComeFromRuns /\ RowSpansTwoDays)
    BY SystemIsWorker, DurabilityOfSuccess, RowProvenance, RowDays, PTL
  <1>2. System => []CronRunsDrainBeforeClose
    BY SystemIsWorker, DrainBeforeClose, PTL
  <1>3. System => ObservationsStay
    BY SystemIsWorker, ObservationsAreKept, PTL
  <1>4. System => LedgerSpec
    BY SystemIsWorker, LedgerRefinement, PTL
  <1>5. QED
    BY <1>1, <1>2, <1>3, <1>4, PTL

------------------------------------------------------------------------------
(* The server, of which none of this depends on the table.                 *)

ServerPromises == Server!TypeOK /\ Server!CountedAsAnswered /\ Server!CallsDrainBeforeClose

LEMMA ServerStepKeepsPromises == ServerPromises /\ Server!ServerStep => ServerPromises'
  <1> SUFFICES ASSUME ServerPromises, Server!ServerStep PROVE ServerPromises'
    OBVIOUS
  <1> USE DEF ServerPromises, Server!TypeOK, Server!CountedAsAnswered,
              Server!CallsDrainBeforeClose, Server!InFlight, Server!StatusCodes
  <1>1. ASSUME NEW q \in Calls, NEW label \in Server!StatusCodes \cup {"none"},
               NEW code \in Server!StatusCodes, NEW records,
               place[q] \in Server!InFlight, Server!Answer(q, label, code, records),
               \/ label = code
               \/ code = "Internal" /\ label = "none"
               \/ code = callCtx[q] /\ label = "Unknown"
        PROVE  ServerPromises'
    BY <1>1 DEF Server!Answer
  <1>2. ASSUME NEW q \in Calls, Server!Reject(q) PROVE ServerPromises'
    BY <1>1, <1>2 DEF Server!Reject
  <1>3. ASSUME NEW q \in Calls, Server!QueryReturns(q) PROVE ServerPromises'
    BY <1>1, <1>3 DEF Server!QueryReturns
  <1>4. ASSUME NEW q \in Calls, Server!QueryFails(q) PROVE ServerPromises'
    BY <1>1, <1>4 DEF Server!QueryFails, Server!Searching
  <1>5. ASSUME NEW q \in Calls, Server!QueryCancelled(q) PROVE ServerPromises'
    BY <1>1, <1>5 DEF Server!QueryCancelled, Server!Searching
  <1>6. ASSUME NEW q \in Calls, Server!Panic(q) PROVE ServerPromises'
    BY <1>1, <1>6 DEF Server!Panic
  <1>7. ASSUME NEW q \in Calls,
               Server!Receive(q) \/ Server!StartQuery(q) \/ Server!QueryReads(q) \/ Server!EndCall(q)
        PROVE  ServerPromises'
    BY <1>7 DEF Server!Receive, Server!Accept, Server!StartQuery, Server!QueryReads,
         Server!EndCall, Server!EndContext
  <1>8. CASE Server!MainStep
    BY <1>8 DEF Server!MainStep, Server!BeginStop, Server!GracefulStopReturns, Server!CloseDb,
         Server!Exit, Server!Kill, Server!Vanish, Server!MoveTo, Server!callVars
  <1>9. QED
    BY <1>2, <1>3, <1>4, <1>5, <1>6, <1>7, <1>8 DEF Server!ServerStep, Server!CallStep

\* Beside the cron process, whatever that writes, the server counts its calls as it answers
\* them, and its pool outlives the calls in flight.
THEOREM ServerBesideWorker ==
  System => [](Server!CountedAsAnswered /\ Server!CallsDrainBeforeClose)
  <1>1. SystemInit => ServerPromises
    BY DEF SystemInit, Server!Init, ServerPromises, Server!TypeOK, Server!CountedAsAnswered,
         Server!CallsDrainBeforeClose, Server!InFlight, Server!NoRequest, Server!Requests,
         Server!Dates
  <1>2. ServerPromises /\ UNCHANGED serverVars => ServerPromises'
    BY DEF serverVars, ServerPromises, Server!TypeOK, Server!CountedAsAnswered,
         Server!CallsDrainBeforeClose
  <1>3. ServerPromises /\ [SystemNext]_systemVars => ServerPromises'
    BY <1>2, ServerStepKeepsPromises DEF SystemNext, systemVars
  <1>4. ServerPromises => Server!CountedAsAnswered /\ Server!CallsDrainBeforeClose
    BY DEF ServerPromises
  <1>5. QED
    BY <1>1, <1>3, <1>4, PTL DEF System

===============================================================================
