--------------------------- MODULE RatePath_proofs ---------------------------
(***************************************************************************)
(* The path of a request for rates, for any requests, queries, days and    *)
(* age limit.  Everything rests on what the gateway sends: a query it let  *)
(* through and could marshal, which is a request the server finds valid.   *)
(* The server therefore never refuses one, and it is used the way its own  *)
(* specification says, so that its theorems hold on the path too.          *)
(***************************************************************************)
EXTENDS RatePath, CurrencyServer_proofs

\* What is sent, and what the server works on, is a valid request.
SentInv ==
  /\ DOMAIN place = Calls /\ DOMAIN query = Calls /\ DOMAIN request = Calls
  /\ DOMAIN wire = Calls
  /\ callCtx \in [Calls -> {"live", "Canceled", "DeadlineExceeded"}]
  /\ \A q \in Calls : query[q] # NoRequest => query[q] \in Requests /\ Valid(query[q])
  /\ \A q \in Calls : query[q] # NoRequest => \E r \in Queries : r = query[q]
  /\ \A q \in Calls : place[q] = "received" => Valid(request[q])
  /\ \A q \in Calls : wire[q] # "InvalidArgument"

\* parseRateQuery and proto.Marshal leave nothing for rateRequestValidation to refuse.
LEMMA ParsedIsValid ==
  ASSUME NEW r \in Queries, Parses(r), Sendable(r)
  PROVE  r \in Requests /\ Valid(r)
  <1>1. r \in [currency : Codes \cup {Blank, NotThree, NotUtf8},
               base : Codes \cup {Blank, NotUtf8}, dateFrom : Dates, dateTo : Dates]
    BY RatePathAssumption
  <1>2. r.currency \in Codes /\ r.base \in Codes \cup {Blank}
    BY <1>1 DEF Parses, Sendable
  <1>3. \A d \in Dates : d # Blank /\ Date(d) >= 0 => d \in 0..MaxClock
    BY DEF Dates, Date
  <1>4. Date(r.dateFrom) \in Int /\ Date(r.dateTo) \in Int
    BY <1>1, CurrencyServerAssumption DEF Parses, Dates, Date
  <1>5. Date(r.dateFrom) >= 0 /\ Date(r.dateTo) >= 0
    BY <1>4, RatePathAssumption DEF Parses
  <1>6. r.dateFrom \in 0..MaxClock /\ r.dateTo \in 0..MaxClock
    BY <1>1, <1>3, <1>5 DEF Parses
  <1>7. r.dateTo >= r.dateFrom
    BY <1>6, CurrencyServerAssumption DEF Parses, Date
  <1>8. r.currency # Blank
    BY DEF Parses
  <1>9. r \in Requests
    BY <1>1, <1>2 DEF Requests
  <1>10. QED
    BY <1>6, <1>7, <1>8, <1>9 DEF Valid

\* The induction step: a case for each action of the gateway, one for the server.
LEMMA SentStep == SentInv /\ [PathNext]_pathVars => SentInv'
  <1> SUFFICES ASSUME SentInv, [PathNext]_pathVars PROVE SentInv'
    OBVIOUS
  <1> USE DEF SentInv
  <1>1. CASE UNCHANGED pathVars
    BY <1>1 DEF pathVars, vars, gateVars, Valid
  <1>2. ASSUME NEW q \in Calls, NEW code, Tell(q, code) PROVE SentInv'
    BY <1>2 DEF Tell, vars, Valid
  <1>3. ASSUME NEW q \in Calls, Ask(q) PROVE SentInv'
    <2>1. PICK r \in Queries :
            \/ ~Parses(r) /\ Tell(q, "InvalidArgument")
            \/ Parses(r) /\ ~Sendable(r) /\ Tell(q, "Internal")
            \/ /\ Parses(r) /\ Sendable(r)
               /\ ask' = [ask EXCEPT ![q] = "asking"]
               /\ query' = [query EXCEPT ![q] = r]
               /\ UNCHANGED <<vars, gate, http>>
      BY <1>3 DEF Ask
    <2>2. CASE \E code : Tell(q, code)
      BY <1>2, <2>2
    <2>3. CASE /\ Parses(r) /\ Sendable(r)
               /\ query' = [query EXCEPT ![q] = r]
               /\ UNCHANGED vars
      <3>1. r \in Requests /\ Valid(r)
        BY <2>3, ParsedIsValid
      <3>2. QED
        BY <2>3, <3>1 DEF vars, Valid
    <2>4. QED
      BY <2>1, <2>2, <2>3
  <1>4. ASSUME NEW q \in Calls, Deliver(q) PROVE SentInv'
    BY <1>4 DEF Deliver, Accept, gateVars, Valid
  <1>5. ASSUME NEW q \in Calls, Return(q) \/ AnswerTooLarge(q) \/ ConnectionFails(q)
        PROVE  SentInv'
    BY <1>2, <1>5 DEF Return, AnswerTooLarge, ConnectionFails
  <1>6. ASSUME NEW q \in Calls, Leave(q) \/ CancelArrives(q) PROVE SentInv'
    BY <1>6 DEF Leave, CancelArrives, EndContext, gateVars, vars, Valid
  <1>7. ASSUME NEW q \in Calls, NEW label, NEW code, NEW records,
               code # "InvalidArgument", Answer(q, label, code, records), UNCHANGED gateVars
        PROVE  SentInv'
    BY <1>7 DEF Answer, gateVars, Valid
  <1>8. ASSUME NEW q \in Calls, ServerCallStep(q), UNCHANGED gateVars
        PROVE  SentInv'
    <2>1. CASE Reject(q)
      BY <2>1 DEF Reject
    <2>2. CASE StartQuery(q) \/ QueryReads(q)
      BY <1>8, <2>2 DEF StartQuery, QueryReads, gateVars, Valid
    <2>3. CASE QueryReturns(q) \/ QueryFails(q) \/ QueryCancelled(q) \/ Panic(q)
      BY <1>7, <1>8, <2>3 DEF QueryReturns, QueryFails, QueryCancelled, Panic
    <2>4. QED
      BY <1>8, <2>1, <2>2, <2>3 DEF ServerCallStep
  <1>9. CASE (MainStep \/ Write \/ StayDown) /\ UNCHANGED gateVars
    BY <1>9 DEF MainStep, BeginStop, GracefulStopReturns, CloseDb, Exit, Kill, Vanish, MoveTo,
         callVars, Write, serverVars, StayDown, vars, gateVars, Valid
  <1>10. CASE GateInterrupt \/ GateExits
    BY <1>10 DEF GateInterrupt, GateExits, vars, Valid
  <1>11. QED
    BY <1>1, <1>3, <1>4, <1>5, <1>6, <1>8, <1>9, <1>10 DEF PathNext, GateStep

\* The invariant holds before anything was asked, and so always.
LEMMA SentInvHolds == PathSafety => []SentInv
  <1>1. PathInit => SentInv
    BY DEF PathInit, Init, SentInv
  <1>2. QED
    BY <1>1, SentStep, PTL DEF PathSafety

\* The server's validation refuses no request that came through the gateway's, in
\* particular none with a date that is no timestamp.
THEOREM NeverRejectsTheorem == PathSafety => []ServerNeverRejects
  <1>1. SentInv => ServerNeverRejects
    BY DEF SentInv, ServerNeverRejects
  <1>2. QED
    BY <1>1, SentInvHolds, PTL

------------------------------------------------------------------------------
\* A step of the path is a step of the server's specification, or none of its own, if
\* its bound on the requests allows for the dates of the queries.
LEMMA PathStepIsServerStep ==
  ASSUME \A r \in Queries : {r.dateFrom, r.dateTo} \subseteq Moments,
         SentInv, [PathNext]_pathVars
  PROVE  [Next]_vars
  <1>1. CASE UNCHANGED vars
    BY <1>1
  <1>2. ASSUME NEW q \in Calls, Deliver(q) PROVE Next
    <2>1. query[q] \in Requests /\ query[q].dateFrom \in Moments /\ query[q].dateTo \in Moments
      BY <1>2 DEF SentInv, Deliver
    <2>2. Receive(q)
      BY <1>2, <2>1 DEF Receive, Deliver
    <2>3. QED
      BY <2>2 DEF Next, ServerStep, CallStep
  <1>3. ASSUME NEW q \in Calls, CancelArrives(q) PROVE Next
    BY <1>3 DEF CancelArrives, EndCall, Next, ServerStep, CallStep
  <1>4. ASSUME NEW q \in Calls,
               Ask(q) \/ Return(q) \/ AnswerTooLarge(q) \/ ConnectionFails(q) \/ Leave(q)
        PROVE  UNCHANGED vars
    BY <1>4 DEF Ask, Return, AnswerTooLarge, ConnectionFails, Leave, Tell
  <1>5. ASSUME NEW q \in Calls, ServerCallStep(q) PROVE Next
    BY <1>5 DEF ServerCallStep, Next, ServerStep, CallStep
  <1>6. CASE MainStep \/ Write \/ StayDown
    BY <1>6 DEF Next, ServerStep
  <1>7. CASE GateInterrupt \/ GateExits
    BY <1>1, <1>7 DEF GateInterrupt, GateExits
  <1>8. QED
    BY <1>1, <1>2, <1>3, <1>4, <1>5, <1>6, <1>7 DEF PathNext, GateStep, pathVars

\* Behind its gateway the server does what its specification says, whatever the
\* gateway and its clients do.
THEOREM PathIsServer ==
  ASSUME \A r \in Queries : {r.dateFrom, r.dateTo} \subseteq Moments
  PROVE  PathSafety => ServerSpecification
  <1>1. PathInit => Init
    BY DEF PathInit
  <1>2. SentInv /\ [PathNext]_pathVars => [Next]_vars
    BY PathStepIsServerStep
  <1>3. QED
    BY <1>1, <1>2, SentInvHolds, PTL DEF PathSafety, Safety, ServerSpecification

------------------------------------------------------------------------------
\* What ToldAsCounted rests on: an answered call has its code, and a response what the
\* call was answered with, if it had an answer and the client took it.
ToldInv ==
  /\ DOMAIN place = Calls /\ DOMAIN counted = Calls /\ DOMAIN wire = Calls
  /\ DOMAIN answer = Calls /\ DOMAIN ask = Calls /\ DOMAIN http = Calls
  /\ DOMAIN query = Calls
  /\ callCtx \in [Calls -> {"live", "Canceled", "DeadlineExceeded"}]
  /\ \A q \in Calls : ask[q] = "idle" => query[q] = NoRequest
  /\ \A q \in Calls : query[q] = NoRequest => place[q] = "idle"
  /\ \A q \in Calls : place[q] = "answered" =>
       /\ wire[q] \in GrpcCodes
       /\ wire[q] \in {"OK", "NotFound"} => counted[q] = wire[q]
       /\ counted[q] \in {"OK", "NotFound"} => counted[q] = wire[q]
       /\ wire[q] = "OK" <=> counted[q] = "OK" /\ answer[q] # {}
       /\ wire[q] = "NotFound" => answer[q] = {}
  /\ \A q \in Calls : ask[q] = "told" =>
       \/ http[q] = 503
       \/ http[q] \in {400, 500} /\ query[q] = NoRequest
       \/ http[q] = 429 /\ place[q] = "answered" /\ wire[q] = "OK"
       \/ place[q] = "answered" /\ http[q] = HttpOf(wire[q])

\* The induction step.
LEMMA ToldStep == ToldInv /\ [PathNext]_pathVars => ToldInv'
  <1> SUFFICES ASSUME ToldInv, [PathNext]_pathVars PROVE ToldInv'
    OBVIOUS
  <1> USE DEF ToldInv
  <1>1. CASE UNCHANGED pathVars
    BY <1>1 DEF pathVars, vars, gateVars
  <1>2. ASSUME NEW q \in Calls, Ask(q) PROVE ToldInv'
    <2>1. /\ ask[q] = "idle" /\ query[q] = NoRequest
          /\ \/ Tell(q, "InvalidArgument") \/ Tell(q, "Internal")
             \/ \E r : /\ ask' = [ask EXCEPT ![q] = "asking"]
                       /\ query' = [query EXCEPT ![q] = r]
                       /\ UNCHANGED <<vars, gate, http>>
      BY <1>2 DEF Ask
    <2>2. ASSUME NEW r, ask' = [ask EXCEPT ![q] = "asking"], query' = [query EXCEPT ![q] = r],
                 UNCHANGED <<vars, gate, http>>
          PROVE  ToldInv'
      BY <2>1, <2>2 DEF vars
    <2>3. CASE Tell(q, "InvalidArgument") \/ Tell(q, "Internal")
      BY <2>1, <2>3 DEF vars, Tell, HttpOf
    <2>4. QED
      BY <2>1, <2>2, <2>3
  <1>3. ASSUME NEW q \in Calls, Return(q) PROVE ToldInv'
    BY <1>3 DEF Return, Tell, vars
  <1>4. ASSUME NEW q \in Calls, AnswerTooLarge(q) \/ ConnectionFails(q) PROVE ToldInv'
    BY <1>4 DEF AnswerTooLarge, ConnectionFails, Tell, HttpOf, vars
  <1>5. ASSUME NEW q \in Calls, Leave(q) \/ Deliver(q) \/ CancelArrives(q) PROVE ToldInv'
    BY <1>5 DEF Leave, Deliver, Accept, CancelArrives, EndContext, gateVars, vars, InFlight
  <1>6. ASSUME NEW q \in Calls, ServerCallStep(q), UNCHANGED gateVars PROVE ToldInv'
    <2> USE DEF InFlight, Searching, GrpcCodes
    <2>1. CASE StartQuery(q) \/ QueryReads(q)
      BY <1>6, <2>1 DEF StartQuery, QueryReads, gateVars
    <2>2. CASE QueryReturns(q)
      <3>1. place[q] \in InFlight
        BY <2>2 DEF QueryReturns
      <3>2. CASE answer[q] = {}
        <4>1. Answer(q, "NotFound", "NotFound", {})
          BY <2>2, <3>2 DEF QueryReturns
        <4>2. QED
          BY <1>6, <3>1, <4>1 DEF Answer, gateVars
      <3>3. CASE answer[q] # {}
        <4>1. Answer(q, "OK", "OK", answer[q])
          BY <2>2, <3>3 DEF QueryReturns
        <4>2. QED
          BY <1>6, <3>1, <3>3, <4>1 DEF Answer, gateVars
      <3>4. QED
        BY <3>2, <3>3
    <2>3. CASE Reject(q) \/ QueryFails(q) \/ QueryCancelled(q) \/ Panic(q)
      <3>1. place[q] \in InFlight
        BY <2>3 DEF Reject, QueryFails, QueryCancelled, Panic
      <3>2. PICK label \in {"InvalidArgument", "Unknown", "none"},
                 code \in {"InvalidArgument", "Unknown", "Canceled", "DeadlineExceeded", "Internal"} :
                 Answer(q, label, code, {})
        BY <2>3 DEF Reject, QueryFails, QueryCancelled, Panic
      <3>3. QED
        BY <1>6, <3>1, <3>2 DEF Answer, gateVars
    <2>4. QED
      BY <1>6, <2>1, <2>2, <2>3 DEF ServerCallStep
  <1>7. CASE (MainStep \/ Write \/ StayDown) /\ UNCHANGED gateVars
    BY <1>7 DEF MainStep, BeginStop, GracefulStopReturns, CloseDb, Exit, Kill, Vanish, MoveTo,
         callVars, Write, serverVars, StayDown, vars, gateVars, InFlight
  <1>8. CASE GateInterrupt \/ GateExits
    BY <1>8 DEF GateInterrupt, GateExits, vars
  <1>9. QED
    BY <1>1, <1>2, <1>3, <1>4, <1>5, <1>6, <1>7, <1>8 DEF PathNext, GateStep

\* A client is told 200 or 404 only of a call the server counted so, and an answer that
\* was counted is told unless the connection broke or the gateway's client refused it.
THEOREM ToldTheorem == PathSafety => []ToldAsCounted
  <1>1. PathInit => ToldInv
    BY DEF PathInit, Init, ToldInv
  <1>2. ToldInv => ToldAsCounted
    <2> SUFFICES ASSUME ToldInv, NEW q \in Calls, ask[q] = "told"
                 PROVE  /\ http[q] = 200 => counted[q] = "OK" /\ answer[q] # {}
                        /\ http[q] = 404 => counted[q] = "NotFound" /\ answer[q] = {}
                        /\ place[q] = "answered" /\ counted[q] \in {"OK", "NotFound"} =>
                             \/ http[q] \in {HttpOf(counted[q]), HttpOf("Unavailable")}
                             \/ http[q] = HttpOf("ResourceExhausted") /\ counted[q] = "OK"
      BY DEF ToldAsCounted
    <2> USE DEF ToldInv, HttpOf, GrpcCodes
    <2>1. CASE http[q] = 503
      BY <2>1
    <2>2. CASE http[q] \in {400, 500} /\ query[q] = NoRequest
      BY <2>2
    <2>3. CASE http[q] = 429 /\ place[q] = "answered" /\ wire[q] = "OK"
      BY <2>3
    <2>4. CASE place[q] = "answered" /\ http[q] = HttpOf(wire[q])
      <3>1. PICK code \in GrpcCodes : code = wire[q]
        BY <2>4
      <3>2. http[q] = HttpOf(code)
        BY <2>4, <3>1
      <3>3. QED
        BY <2>4, <3>1, <3>2
    <2>5. QED
      BY <2>1, <2>2, <2>3, <2>4
  <1>3. QED
    BY <1>1, <1>2, ToldStep, PTL DEF PathSafety

------------------------------------------------------------------------------
GateTyped ==
  /\ gate \in {"up", "stopping", "exited"}
  /\ ask \in [Calls -> {"idle", "asking", "told", "left", "dropped"}]
  /\ query \in [Calls -> Requests]
  /\ http \in [Calls -> {0} \cup HttpStatuses]
  /\ \A q \in Calls : http[q] # 0 <=> ask[q] = "told"

\* The types of the gateway's half: a request has a status when it was told one.
LEMMA GateTypedStep == GateTyped /\ SentInv /\ TypeOK /\ [PathNext]_pathVars => GateTyped'
  <1> SUFFICES ASSUME GateTyped, SentInv, TypeOK, [PathNext]_pathVars PROVE GateTyped'
    OBVIOUS
  <1> USE DEF GateTyped
  <1>1. ASSUME NEW code \in GrpcCodes PROVE HttpOf(code) \in HttpStatuses /\ HttpOf(code) # 0
    BY <1>1 DEF HttpStatuses, HttpOf
  <1>2. ASSUME NEW q \in Calls, NEW code \in GrpcCodes, ask[q] # "told", Tell(q, code)
        PROVE  GateTyped'
    BY <1>1, <1>2 DEF Tell
  <1>3. ASSUME NEW q \in Calls, Ask(q) PROVE GateTyped'
    <2>1. PICK r \in Queries :
            \/ Tell(q, "InvalidArgument") \/ Tell(q, "Internal")
            \/ /\ Parses(r) /\ Sendable(r)
               /\ ask' = [ask EXCEPT ![q] = "asking"]
               /\ query' = [query EXCEPT ![q] = r]
               /\ UNCHANGED <<vars, gate, http>>
      BY <1>3 DEF Ask
    <2>2. ask[q] = "idle"
      BY <1>3 DEF Ask
    <2>3. CASE /\ Parses(r) /\ Sendable(r)
               /\ ask' = [ask EXCEPT ![q] = "asking"]
               /\ query' = [query EXCEPT ![q] = r]
               /\ UNCHANGED <<vars, gate, http>>
      <3>1. r \in Requests
        BY <2>3, ParsedIsValid
      <3>2. QED
        BY <2>2, <2>3, <3>1
    <2>4. CASE Tell(q, "InvalidArgument") \/ Tell(q, "Internal")
      BY <1>2, <2>2, <2>4 DEF GrpcCodes
    <2>5. QED
      BY <2>1, <2>3, <2>4
  <1>4. ASSUME NEW q \in Calls, Return(q) PROVE GateTyped'
    <2>1. wire[q] \in StatusCodes /\ ask[q] = "asking" /\ Tell(q, wire[q])
      BY <1>4 DEF Return, TypeOK
    <2>2. QED
      BY <1>2, <2>1 DEF StatusCodes, GrpcCodes
  <1>5. ASSUME NEW q \in Calls, AnswerTooLarge(q) \/ ConnectionFails(q) PROVE GateTyped'
    BY <1>2, <1>5 DEF AnswerTooLarge, ConnectionFails, GrpcCodes
  <1>6. ASSUME NEW q \in Calls, Leave(q) PROVE GateTyped'
    BY <1>6 DEF Leave
  <1>7. CASE GateInterrupt \/ GateExits
    BY <1>7 DEF GateInterrupt, GateExits
  <1>8. CASE UNCHANGED gateVars
    BY <1>8 DEF gateVars
  <1>9. QED
    BY <1>3, <1>4, <1>5, <1>6, <1>7, <1>8 DEF PathNext, GateStep, Deliver, CancelArrives, pathVars

\* The state of both processes keeps its types.
THEOREM PathTypeCorrect ==
  ASSUME \A r \in Queries : {r.dateFrom, r.dateTo} \subseteq Moments
  PROVE  PathSafety => []PathTypeOK
  <1>1. PathInit => GateTyped
    BY DEF PathInit, GateTyped, NoRequest, Requests, Dates
  <1>2. GateTyped /\ TypeOK => PathTypeOK
    BY DEF GateTyped, PathTypeOK
  <1>3. PathSafety => []TypeOK
    BY PathIsServer, TypeCorrect, PTL DEF ServerSpecification
  <1>4. QED
    BY <1>1, <1>2, <1>3, GateTypedStep, SentInvHolds, PTL DEF PathSafety

------------------------------------------------------------------------------
\* The theorems about the server alone hold behind the gateway, since it is one of the
\* clients they are about: AnswersComeFromRows, CountedAsAnswered, CallsDrainBeforeClose
\* and RatesStayFound.
THEOREM ServerBehindGateway ==
  ASSUME \A r \in Queries : {r.dateFrom, r.dateTo} \subseteq Moments
  PROVE  PathSafety => /\ [](AnswersComeFromRows /\ CountedAsAnswered /\ CallsDrainBeforeClose)
                       /\ RatesStayFound
  BY PathIsServer, AnswersTheorem, CountedTheorem, DrainTheorem, RatesStayTheorem, PTL
     DEF ServerSpecification

\* The server works on what the gateway sent, which does not change after that.
MatchInv ==
  /\ DOMAIN request = Calls
  /\ \A q \in Calls : place[q] # "idle" => request[q] = query[q]

\* A request is sent once, by Ask, and delivered as it was sent.
LEMMA MatchStep == ToldInv /\ MatchInv /\ [PathNext]_pathVars => MatchInv'
  <1> SUFFICES ASSUME ToldInv, MatchInv, [PathNext]_pathVars PROVE MatchInv'
    OBVIOUS
  <1> USE DEF MatchInv, ToldInv
  <1>1. CASE UNCHANGED pathVars
    BY <1>1 DEF pathVars, vars, gateVars
  <1>2. ASSUME NEW q \in Calls, Ask(q) PROVE MatchInv'
    <2>1. ask[q] = "idle" /\ query[q] = NoRequest /\ place[q] = "idle"
      BY <1>2 DEF Ask
    <2>2. /\ \/ ask' = [ask EXCEPT ![q] = "told"] /\ query' = query
             \/ \E r : ask' = [ask EXCEPT ![q] = "asking"] /\ query' = [query EXCEPT ![q] = r]
          /\ UNCHANGED vars
      BY <1>2 DEF Ask, Tell
    <2>3. QED
      BY <2>1, <2>2 DEF vars
  <1>3. ASSUME NEW q \in Calls, Deliver(q) PROVE MatchInv'
    BY <1>3 DEF Deliver, Accept, gateVars
  <1>4. ASSUME NEW q \in Calls,
               Return(q) \/ AnswerTooLarge(q) \/ ConnectionFails(q) \/ Leave(q)
        PROVE  MatchInv'
    BY <1>4 DEF Return, AnswerTooLarge, ConnectionFails, Leave, Tell, vars
  <1>5. ASSUME NEW q \in Calls, CancelArrives(q) PROVE MatchInv'
    BY <1>5 DEF CancelArrives, EndContext, gateVars
  <1>6. ASSUME NEW q \in Calls, NEW label, NEW code, NEW records, place[q] # "idle",
               Answer(q, label, code, records), UNCHANGED gateVars
        PROVE  MatchInv'
    BY <1>6 DEF Answer, gateVars
  <1>7. ASSUME NEW q \in Calls, ServerCallStep(q), UNCHANGED gateVars PROVE MatchInv'
    <2>1. CASE StartQuery(q) \/ QueryReads(q)
      BY <1>7, <2>1 DEF StartQuery, QueryReads, gateVars
    <2>2. CASE Reject(q) \/ QueryReturns(q) \/ QueryFails(q) \/ QueryCancelled(q) \/ Panic(q)
      BY <1>6, <1>7, <2>2 DEF Reject, QueryReturns, QueryFails, QueryCancelled, Panic,
         Searching, InFlight
    <2>3. QED
      BY <1>7, <2>1, <2>2 DEF ServerCallStep
  <1>8. CASE (MainStep \/ Write \/ StayDown) /\ UNCHANGED gateVars
    BY <1>8 DEF MainStep, BeginStop, GracefulStopReturns, CloseDb, Exit, Kill, Vanish, MoveTo,
         callVars, Write, serverVars, StayDown, vars, gateVars, InFlight
  <1>9. CASE GateInterrupt \/ GateExits
    BY <1>9 DEF GateInterrupt, GateExits, vars
  <1>10. QED
    BY <1>1, <1>2, <1>3, <1>4, <1>5, <1>7, <1>8, <1>9 DEF PathNext, GateStep

\* From the table to the client: what a 200 shows is in rows of the base and the days
\* the client's own query says, and of its currency.
ShownFromRows ==
  \A q \in Calls : http[q] = 200 =>
    /\ answer[q] # {}
    /\ \A record \in answer[q] :
         /\ <<record.date, QueryBase(query[q])>> \in DOMAIN rows
         /\ CurrencyKey(Target(query[q])) \in
              DOMAIN rows[<<record.date, QueryBase(query[q])>>]
         /\ DayOf(record.date) \in DayOf(query[q].dateFrom)..DayOf(query[q].dateTo)

\* A client that is told 200 is shown rates of the table, of the currency, base and
\* days of its query, whatever was written, broke or stopped between its request and
\* the answer: the two handlers, and what the transport keeps of a request.
THEOREM ShownTheorem ==
  ASSUME \A r \in Queries : {r.dateFrom, r.dateTo} \subseteq Moments
  PROVE  PathSafety => []ShownFromRows
  <1>1. PathInit => ToldInv /\ MatchInv
    BY DEF PathInit, Init, ToldInv, MatchInv
  <1>2. PathTypeOK /\ ToldInv /\ MatchInv /\ AnswersComeFromRows => ShownFromRows
    <2> SUFFICES ASSUME PathTypeOK, ToldInv, MatchInv, AnswersComeFromRows,
                        NEW q \in Calls, http[q] = 200
                 PROVE  wire[q] = "OK" /\ request[q] = query[q]
      BY DEF AnswersComeFromRows, ShownFromRows
    <2>1. place[q] = "answered" /\ wire[q] \in GrpcCodes /\ HttpOf(wire[q]) = 200
      BY DEF PathTypeOK, ToldInv
    <2>2. wire[q] = "OK"
      BY <2>1 DEF HttpOf, GrpcCodes
    <2>3. QED
      BY <2>1, <2>2 DEF MatchInv
  <1>3. QED
    BY <1>1, <1>2, ToldStep, MatchStep, PathTypeCorrect, ServerBehindGateway, PTL DEF PathSafety

===============================================================================
