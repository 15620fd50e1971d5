------------------------- MODULE CurrencyServer_proofs -------------------------
(***************************************************************************)
(* The promises of the currency server for any calls, codes and days.      *)
(*                                                                         *)
(* AnswersComeFromRows and RatesStayFound rest on one fact: every record a *)
(* call holds (while its rows are scanned, and for ever once it is         *)
(* answered) belongs to a row its own query would still find.  It is true  *)
(* when the SELECT reads the table, and a write cannot make it false,      *)
(* since Save keeps every entry of every row.                              *)
(***************************************************************************)
EXTENDS CurrencyServer, RateStore_proofs

\* The query of request r finds a row dated date.
Finds(r, date) ==
  <<date, QueryBase(r)>> \in
    RowsInInterval(rows, QueryBase(r), Target(r), DayOf(r.dateFrom), DayOf(r.dateTo))

CallsOK ==
  /\ \A id \in DOMAIN rows : id \in (0..MaxClock) \X {id[2]}
  /\ place \in [Calls -> {"idle", "answered", "dropped"} \cup InFlight]
  /\ callCtx \in [Calls -> {"live", "Canceled", "DeadlineExceeded"}]
  /\ DOMAIN request = Calls /\ DOMAIN wire = Calls /\ DOMAIN answer = Calls
  /\ \A q \in Calls : place[q] \in {"idle"} \cup InFlight => wire[q] = "none"

HeldInv ==
  \A q \in Calls : place[q] = "scanning" \/ wire[q] = "OK" =>
    /\ Valid(request[q])
    /\ wire[q] = "OK" => answer[q] # {}
    /\ \A record \in answer[q] : Finds(request[q], record.date)

ServerInv == CallsOK /\ (\A q \in Calls : place[q] = "querying" => Valid(request[q])) /\ HeldInv

------------------------------------------------------------------------------
\* A search holds exactly the dates it finds.
LEMMA FoundDates ==
  ASSUME CallsOK, NEW r
  PROVE  /\ \A record \in Found(r) : Finds(r, record.date)
         /\ \A date : Finds(r, date) => \E record \in Found(r) : record.date = date
  <1>1. \A id \in DOMAIN rows : id = <<id[1], id[2]>>
    BY DEF CallsOK
  <1>2. QED
    BY <1>1, DatesOfSearch DEF Found, Finds

\* A write does not take a row away from a query.
LEMMA WriteKeepsFinds ==
  ASSUME Write, NEW r, NEW date, Finds(r, date)
  PROVE  Finds(r, date)'
  <1>1. PICK d \in 0..MaxClock, rate \in Rates, base \in Bases, code \in {ToUpper[c] : c \in Codes} :
          rows' = Save(rows, d, base, [k \in {CurrencyKey(code)} |-> rate])
    BY DEF Write
  <1>2. \A id \in DOMAIN rows : id \in DOMAIN rows' /\ DOMAIN rows[id] \subseteq DOMAIN rows'[id]
    BY <1>1, SaveKeeps DEF Save
  <1>3. QED
    BY <1>2 DEF Finds, RowsInInterval, QueryBase, Target

\* The keys of the table are pairs of an instant and a base, also after a write.
LEMMA WriteKeepsKeys ==
  ASSUME CallsOK, Write
  PROVE  \A id \in DOMAIN rows' : id \in (0..MaxClock) \X {id[2]}
  BY DEF CallsOK, Write, Save

\* The invariant holds of the empty table and of calls that were not received.
LEMMA ServerInit == Init => ServerInv
  BY DEF Init, ServerInv, CallsOK, HeldInv, EmptyMap

\* The induction step: one case per action that touches what the invariant holds.
LEMMA ServerInvStep == ServerInv /\ [Next]_vars => ServerInv'
  <1> SUFFICES ASSUME ServerInv, [Next]_vars PROVE ServerInv'
    OBVIOUS
  <1> USE DEF ServerInv, CallsOK, HeldInv, InFlight
  <1>1. CASE UNCHANGED vars
    BY <1>1 DEF vars, Finds, QueryBase, Target, Valid
  <1>2. CASE Write
    <2>1. \A r, date : Finds(r, date) => Finds(r, date)'
      BY <1>2, WriteKeepsFinds
    <2>2. \A id \in DOMAIN rows' : id \in (0..MaxClock) \X {id[2]}
      BY <1>2, WriteKeepsKeys
    <2>3. UNCHANGED serverVars
      BY <1>2 DEF Write
    <2>4. QED
      BY <2>1, <2>2, <2>3 DEF serverVars, Valid
  <1>3. ASSUME NEW q \in Calls, NEW label, NEW code, NEW records,
               Answer(q, label, code, records),
               code = "OK" => /\ Valid(request[q]) /\ records # {}
                              /\ \A record \in records : Finds(request[q], record.date)
        PROVE  ServerInv'
    BY <1>3 DEF Answer, Finds, QueryBase, Target, Valid
  <1>4. ASSUME NEW q \in Calls, QueryReturns(q) PROVE ServerInv'
    BY <1>3, <1>4 DEF QueryReturns
  <1>5. ASSUME NEW q \in Calls, Reject(q) \/ QueryFails(q) \/ Panic(q) PROVE ServerInv'
    BY <1>3, <1>5 DEF Reject, QueryFails, Panic
  <1>6. ASSUME NEW q \in Calls, QueryCancelled(q) PROVE ServerInv'
    BY <1>3, <1>6 DEF QueryCancelled
  <1>7. ASSUME NEW q \in Calls, QueryReads(q) PROVE ServerInv'
    BY <1>7, FoundDates DEF QueryReads, Finds, QueryBase, Target, Valid
  <1>8. ASSUME NEW q \in Calls, Receive(q) \/ StartQuery(q) \/ EndCall(q) PROVE ServerInv'
    BY <1>8 DEF Receive, Accept, StartQuery, EndCall, EndContext, Finds, QueryBase, Target, Valid
  <1>9. CASE MainStep
    BY <1>9 DEF MainStep, BeginStop, GracefulStopReturns, CloseDb, Exit, Kill, Vanish, MoveTo,
         callVars, Finds, QueryBase, Target, Valid
  <1>10. QED
    BY <1>1, <1>2, <1>4, <1>5, <1>6, <1>7, <1>8, <1>9 DEF Next, ServerStep, CallStep, StayDown

\* ServerInv holds in every state the safety specification reaches.
LEMMA ServerInvHolds == Safety => []ServerInv
  BY ServerInit, ServerInvStep, PTL DEF Safety

------------------------------------------------------------------------------
\* Every rate a call was answered with is in a row of the base that was asked for,
\* of one of the days that were asked for, and the row has the currency still.
THEOREM AnswersTheorem == Safety => []AnswersComeFromRows
  <1>1. ServerInv => AnswersComeFromRows
    <2> SUFFICES ASSUME ServerInv, NEW q \in Calls, wire[q] = "OK", NEW record \in answer[q]
                 PROVE  /\ answer[q] # {}
                        /\ <<record.date, QueryBase(request[q])>> \in DOMAIN rows
                        /\ CurrencyKey(Target(request[q])) \in
                             DOMAIN rows[<<record.date, QueryBase(request[q])>>]
                        /\ DayOf(record.date) \in
                             DayOf(request[q].dateFrom)..DayOf(request[q].dateTo)
      BY DEF AnswersComeFromRows, ServerInv, HeldInv
    <2>1. answer[q] # {} /\ Finds(request[q], record.date)
      BY DEF ServerInv, HeldInv
    <2>2. QED
      BY <2>1 DEF Finds, RowsInInterval
  <1>2. QED
    BY <1>1, ServerInvHolds, PTL

\* While a call waits for its SELECT it only gets more to find: saving never hides a
\* date from a search.
THEOREM RatesStayTheorem == Safety => RatesStayFound
  <1> DEFINE Stay(q) == place[q] = "querying" /\ rows' # rows =>
        {record.date : record \in Found(request[q])} \subseteq
          {record.date : record \in Found(request[q])'}
  <1>1. ASSUME ServerInv, ServerInv', [Next]_vars, NEW q \in Calls, rows' # rows
        PROVE  {record.date : record \in Found(request[q])} \subseteq
                 {record.date : record \in Found(request[q])'}
    <2>1. Write
      BY <1>1 DEF Next, vars, ServerStep, CallStep, MainStep, StayDown, MoveTo, Vanish, BeginStop,
           GracefulStopReturns, CloseDb, Exit, Kill, Receive, Accept, Reject, StartQuery,
           QueryReads, QueryReturns, QueryFails, QueryCancelled, Panic, EndCall, EndContext, Answer
    <2>2. request' = request
      BY <2>1 DEF Write, serverVars
    <2>3. PICK r : r = request[q]
      OBVIOUS
    <2>4. \A date : Finds(r, date) => Finds(r, date)'
      BY <2>1, WriteKeepsFinds
    <2>5. \A record \in Found(r) : Finds(r, record.date)
      BY <1>1, FoundDates DEF ServerInv
    <2>6. \A id \in DOMAIN rows' : id = <<id[1], id[2]>>
      BY <1>1 DEF ServerInv, CallsOK
    <2>7. \A date : <<date, QueryBase(r)>> \in
            RowsInInterval(rows', QueryBase(r), Target(r), DayOf(r.dateFrom), DayOf(r.dateTo))
          => \E record \in FindInInterval(rows', QueryBase(r), Target(r), DayOf(r.dateFrom),
                                          DayOf(r.dateTo)) : record.date = date
      BY <2>6, DatesOfSearch
    <2>8. \A date : Finds(r, date)' => \E record \in Found(r)' : record.date = date
      BY <2>7 DEF Finds, Found, QueryBase, Target
    <2>9. Found(request[q]) = Found(r) /\ Found(request[q])' = Found(r)'
      BY <2>2, <2>3 DEF Found, QueryBase, Target
    <2>10. QED
      BY <2>4, <2>5, <2>8, <2>9
  <1>2. ServerInv /\ ServerInv' /\ [Next]_vars => \A q \in Calls : Stay(q)
    BY <1>1
  <1>3. QED
    BY <1>2, ServerInvHolds, PTL DEF Safety, RatesStayFound

\* The pool is closed only when no call is in flight, and no call comes after.
THEOREM DrainTheorem == Safety => []CallsDrainBeforeClose
  <1>1. Init => CallsDrainBeforeClose
    BY DEF Init, CallsDrainBeforeClose
  <1>2. ServerInv /\ CallsDrainBeforeClose /\ [Next]_vars => CallsDrainBeforeClose'
    <2> SUFFICES ASSUME ServerInv, CallsDrainBeforeClose, [Next]_vars
                 PROVE  CallsDrainBeforeClose'
      OBVIOUS
    <2> USE DEF ServerInv, CallsOK, CallsDrainBeforeClose, InFlight
    <2>1. ASSUME NEW q \in Calls, CallStep(q) PROVE CallsDrainBeforeClose'
      BY <2>1 DEF CallStep, Receive, Accept, Reject, StartQuery, QueryReads, QueryReturns,
           QueryFails, QueryCancelled, Panic, EndCall, EndContext, Answer
    <2>2. CASE MainStep
      BY <2>2 DEF MainStep, BeginStop, GracefulStopReturns, CloseDb, Exit, Kill, Vanish, MoveTo, callVars
    <2>3. CASE Write \/ UNCHANGED vars
      BY <2>3 DEF Write, serverVars, vars
    <2>4. QED
      BY <2>1, <2>2, <2>3 DEF Next, ServerStep, StayDown
  <1>3. QED
    BY <1>1, <1>2, ServerInvHolds, PTL DEF Safety

------------------------------------------------------------------------------
\* The state of the server keeps its types, and a call has a code on the wire when it
\* is answered and at no other time.
THEOREM TypeCorrect == Safety => []TypeOK
  <1>1. Init => TypeOK
    BY DEF Init, TypeOK, NoRequest, Requests, Dates, InFlight
  <1>2. TypeOK /\ [Next]_vars => TypeOK'
    <2> SUFFICES ASSUME TypeOK, [Next]_vars PROVE TypeOK'
      OBVIOUS
    <2> USE DEF TypeOK, InFlight, StatusCodes
    <2>1. ASSUME NEW q \in Calls, NEW label \in StatusCodes \cup {"none"},
                 NEW code \in StatusCodes, NEW records,
                 place[q] # "answered", Answer(q, label, code, records)
          PROVE  TypeOK'
      BY <2>1 DEF Answer
    <2>2. ASSUME NEW q \in Calls,
                 \/ Reject(q) \/ QueryReturns(q) \/ QueryFails(q) \/ QueryCancelled(q) \/ Panic(q)
          PROVE  TypeOK'
      BY <2>1, <2>2 DEF Reject, QueryReturns, QueryFails, QueryCancelled, Panic, Searching
    <2>3. ASSUME NEW q \in Calls, Receive(q) \/ StartQuery(q) \/ QueryReads(q) \/ EndCall(q)
          PROVE  TypeOK'
      BY <2>3 DEF Receive, Accept, StartQuery, QueryReads, EndCall, EndContext
    <2>4. CASE MainStep
      BY <2>4 DEF MainStep, BeginStop, GracefulStopReturns, CloseDb, Exit, Kill, Vanish, MoveTo,
           callVars
    <2>5. CASE Write \/ UNCHANGED vars
      BY <2>5 DEF Write, serverVars, vars
    <2>6. QED
      BY <2>2, <2>3, <2>4, <2>5 DEF Next, ServerStep, CallStep, StayDown
  <1>3. QED
    BY <1>1, <1>2, PTL DEF Safety

\* The request counter knows a call by the code its client got, or the call panicked,
\* or its context had ended; for any number of calls.
THEOREM CountedTheorem == Safety => []CountedAsAnswered
  <1>1. Init => CountedAsAnswered
    BY DEF Init, CountedAsAnswered
  <1>2. TypeOK /\ CountedAsAnswered /\ [Next]_vars => CountedAsAnswered'
    <2> SUFFICES ASSUME TypeOK, CountedAsAnswered, [Next]_vars PROVE CountedAsAnswered'
      OBVIOUS
    <2> USE DEF TypeOK, CountedAsAnswered, InFlight
    <2>1. ASSUME NEW q \in Calls,
                 \/ Reject(q) \/ QueryReturns(q) \/ QueryFails(q) \/ QueryCancelled(q) \/ Panic(q)
          PROVE  CountedAsAnswered'
      BY <2>1 DEF Reject, QueryReturns, QueryFails, QueryCancelled, Panic, Answer
    <2>2. ASSUME NEW q \in Calls, Receive(q) \/ StartQuery(q) \/ QueryReads(q) \/ EndCall(q)
          PROVE  CountedAsAnswered'
      BY <2>2 DEF Receive, Accept, StartQuery, QueryReads, EndCall, EndContext
    <2>3. CASE MainStep
      BY <2>3 DEF MainStep, BeginStop, GracefulStopReturns, CloseDb, Exit, Kill, Vanish, MoveTo,
           callVars
    <2>4. CASE Write \/ UNCHANGED vars
      BY <2>4 DEF Write, serverVars, vars
    <2>5. QED
      BY <2>1, <2>2, <2>3, <2>4 DEF Next, ServerStep, CallStep, StayDown
  <1>3. QED
    BY TypeCorrect, <1>1, <1>2, PTL DEF Safety

================================================================================
