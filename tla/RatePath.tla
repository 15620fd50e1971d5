------------------------------ MODULE RatePath ------------------------------
(***************************************************************************)
(* A request for rates from end to end: the gateway's handler              *)
(* (gateway/internal/handler/rates.go), its gRPC client, the currency      *)
(* server, and the way back.  Two processes that stop and die on their     *)
(* own, and a database that need not answer.                               *)
(*                                                                         *)
(*   idle      not received by the gateway                                 *)
(*   asking    the handler is inside the client's GetRate                  *)
(*   told      the response is on the wire                                 *)
(*   left      the client hung up before that                              *)
(*   dropped   the gateway exited under the request                        *)
(*                                                                         *)
(* The gateway is the only client of the server; network and database are  *)
(* external.  The token a request carries is Gateway's business.           *)
(***************************************************************************)
EXTENDS CurrencyServer, GrpcStatus

CONSTANTS
  NotThree,        \* a currency that is not three bytes long
  NotUtf8,         \* three bytes that are no UTF-8: no protobuf string
  Oldest,          \* five years ago
  Queries          \* bound: the queries clients make

\* A query holds what the URL said: dates parse to midnights, Malformed is one of
\* the year 0, before any instant a protobuf timestamp may hold.
ASSUME RatePathAssumption ==
  /\ {NotThree, NotUtf8} \cap (Codes \cup {Blank}) = {}
  /\ Oldest \in 0..MaxClock
  /\ Queries \subseteq [currency : Codes \cup {Blank, NotThree, NotUtf8},
                        base : Codes \cup {Blank, NotUtf8},
                        dateFrom : Dates, dateTo : Dates]

VARIABLES
  gate,       \* where the gateway's main goroutine is
  ask,        \* [Calls -> where the request is in the gateway]
  query,      \* [Calls -> the GetRateRequest the gateway sent, or NoRequest]
  http        \* [Calls -> the HTTP status of the response, 0 before]

gateVars == <<gate, ask, query, http>>
pathVars == <<vars, gateVars>>

------------------------------------------------------------------------------
(* The gateway's handler.                                                  *)

\* The order of the dates a query may hold.
Date(d) == IF d = Malformed THEN -1 ELSE d

\* Mutant of Parses: without the check of the age.
Parses_AnyAge(r) ==
  /\ r.currency \notin {Blank, NotThree}
  /\ r.dateFrom # Blank /\ r.dateTo # Blank
  /\ Date(r.dateFrom) <= Date(r.dateTo)

\* parseRateQuery: the length of the currency is counted in bytes.
Parses(r) ==
  /\ r.currency \notin {Blank, NotThree}
  /\ r.dateFrom # Blank /\ r.dateTo # Blank
  /\ Date(r.dateFrom) <= Date(r.dateTo)
  /\ Date(r.dateFrom) >= Oldest

\* proto.Marshal takes the strings of the request.
Sendable(r) == NotUtf8 \notin {r.currency, r.base}

PathInit ==
  /\ Init
  /\ gate = "up"
  /\ ask = [q \in Calls |-> "idle"]
  /\ query = [q \in Calls |-> NoRequest]
  /\ http = [q \in Calls |-> 0]

\* WriteError, or the answer.
Tell(q, code) ==
  /\ ask' = [ask EXCEPT ![q] = "told"]
  /\ http' = [http EXCEPT ![q] = HttpOf(code)]
  /\ UNCHANGED <<vars, gate, query>>

\* Shutdown lets a connection it did not find idle bring its first request.
Ask(q) ==
  /\ ask[q] = "idle" /\ gate # "exited"
  /\ \E r \in Queries :
       \/ ~Parses(r) /\ Tell(q, "InvalidArgument")
       \/ Parses(r) /\ ~Sendable(r) /\ Tell(q, "Internal")
       \/ /\ Parses(r) /\ Sendable(r)
          /\ ask' = [ask EXCEPT ![q] = "asking"]
          /\ query' = [query EXCEPT ![q] = r]
          /\ UNCHANGED <<vars, gate, http>>

\* Mutant of Deliver: a server that is stopping still takes calls.
Deliver_Late(q) ==
  /\ query[q] # NoRequest /\ place[q] = "idle" /\ mode \in {"up", "stopping"}
  /\ place' = [place EXCEPT ![q] = "received"]
  /\ request' = [request EXCEPT ![q] = query[q]]
  /\ UNCHANGED <<rows, mode, callCtx, wire, counted, answer, gateVars>>

\* What was sent arrives, perhaps when nobody waits for the answer any more.
Deliver(q) ==
  /\ query[q] # NoRequest
  /\ Accept(q, query[q])
  /\ UNCHANGED gateVars

Return(q) ==
  /\ ask[q] = "asking" /\ place[q] = "answered"
  /\ Tell(q, wire[q])

\* A response above 4 MiB: the gateway's gRPC client refuses what the server counted.
AnswerTooLarge(q) ==
  /\ ask[q] = "asking" /\ place[q] = "answered" /\ wire[q] = "OK"
  /\ Tell(q, "ResourceExhausted")

\* Mutant of ConnectionFails: calls wait for a server that is ready.
ConnectionFails_WaitForReady(q) ==
  ask[q] = "asking" /\ place[q] \in InFlight /\ Tell(q, "Unavailable")

\* The connection fails, or breaks before the answer: the client says Unavailable.
ConnectionFails(q) == ask[q] = "asking" /\ Tell(q, "Unavailable")

\* The client hangs up: the context of the request ends and nobody reads the 500.
Leave(q) ==
  /\ ask[q] = "asking"
  /\ ask' = [ask EXCEPT ![q] = "left"]
  /\ UNCHANGED <<vars, gate, query, http>>

\* Mutant of CancelArrives: the context of the call is not the request's.
CancelArrives_Never(q) == FALSE

\* The server learns that the gateway waits no longer: its stream was reset or its
\* connection closed.
CancelArrives(q) ==
  /\ ask[q] \notin {"idle", "asking"}
  /\ EndContext(q, "Canceled")
  /\ UNCHANGED gateVars

------------------------------------------------------------------------------
(* The gateway's main goroutine.                                           *)

GateInterrupt == gate = "up" /\ gate' = "stopping" /\ UNCHANGED <<vars, ask, query, http>>

\* Mutant of GateExits: requests that were answered are counted as dropped.
GateExits_DropsAll ==
  /\ gate # "exited"
  /\ gate' = "exited"
  /\ ask' = [q \in Calls |-> IF ask[q] = "idle" THEN "idle" ELSE "dropped"]
  /\ UNCHANGED <<vars, query, http>>

\* Shutdown returns, gives up after its timeout, or the process dies.
GateExits ==
  /\ gate # "exited"
  /\ gate' = "exited"
  /\ ask' = [q \in Calls |-> IF ask[q] = "asking" THEN "dropped" ELSE ask[q]]
  /\ UNCHANGED <<vars, query, http>>

------------------------------------------------------------------------------
ServerCallStep(q) ==
  \/ Reject(q) \/ StartQuery(q) \/ QueryReads(q) \/ QueryReturns(q)
  \/ QueryFails(q) \/ QueryCancelled(q) \/ Panic(q)

GateStep(q) ==
  \/ Ask(q) \/ Deliver(q) \/ Return(q) \/ AnswerTooLarge(q) \/ ConnectionFails(q)
  \/ Leave(q) \/ CancelArrives(q)

PathNext ==
  \/ \E q \in Calls : GateStep(q)
  \/ \E q \in Calls : ServerCallStep(q) /\ UNCHANGED gateVars
  \/ (MainStep \/ Write \/ StayDown) /\ UNCHANGED gateVars
  \/ GateInterrupt \/ GateExits

PathSafety == PathInit /\ [][PathNext]_pathVars

\* The gateway's call of GetRate goes on: it is delivered, or answered, or the server
\* is gone and the connection with it.
CallProgress(q) ==
  \/ ask[q] = "asking" /\ Deliver(q)
  \/ Return(q)
  \/ mode # "up" /\ place[q] \in {"idle", "dropped"} /\ ConnectionFails(q)

HandlerProgress(q) == (Reject(q) \/ StartQuery(q) \/ QueryCancelled(q)) /\ UNCHANGED gateVars

\* Goroutines are scheduled, a reset or a closed connection is noticed, and the
\* database obeys lib/pq's request to cancel a query; it need not answer any.
Fairness ==
  /\ \A q \in Calls : WF_pathVars(CallProgress(q))
  /\ \A q \in Calls : WF_pathVars(HandlerProgress(q))
  /\ \A q \in Calls : WF_pathVars(CancelArrives(q))
  /\ WF_pathVars((GracefulStopReturns \/ CloseDb \/ Exit) /\ UNCHANGED gateVars)
  /\ WF_pathVars(gate = "stopping" /\ GateExits)

PathSpec == PathSafety /\ Fairness

\* The premise of what needs more of the database: it answers every query.
DbAnswers ==
  \A q \in Calls : WF_pathVars((QueryReads(q) \/ QueryReturns(q)) /\ UNCHANGED gateVars)

------------------------------------------------------------------------------
(* Properties.                                                             *)

PathTypeOK ==
  /\ TypeOK
  /\ gate \in {"up", "stopping", "exited"}
  /\ ask \in [Calls -> {"idle", "asking", "told", "left", "dropped"}]
  /\ query \in [Calls -> Requests]
  /\ http \in [Calls -> {0} \cup HttpStatuses]
  /\ \A q \in Calls : http[q] # 0 <=> ask[q] = "told"

\* The server never refuses what the gateway lets through: two processes validate a
\* request in different words, and only the gateway's check of the age keeps dates
\* away that no timestamp can hold.
ServerNeverRejects == \A q \in Calls : wire[q] # "InvalidArgument"

\* What the client was told of its rates is what the server counted: 200 and 404 only
\* as the server answered them, and an answer the server counted as such reached the
\* client unless the connection broke under it, or it was more than a client takes.
ToldAsCounted ==
  \A q \in Calls : ask[q] = "told" =>
    /\ http[q] = 200 => counted[q] = "OK" /\ answer[q] # {}
    /\ http[q] = 404 => counted[q] = "NotFound" /\ answer[q] = {}
    /\ place[q] = "answered" /\ counted[q] \in {"OK", "NotFound"} =>
         \/ http[q] \in {HttpOf(counted[q]), HttpOf("Unavailable")}
         \/ http[q] = HttpOf("ResourceExhausted") /\ counted[q] = "OK"

\* A call nobody waits for ends, although the database never answers its query.
AbandonedCallsEnd ==
  \A q \in Calls :
    ask[q] \in {"left", "dropped"} /\ place[q] \in InFlight ~> place[q] \notin InFlight

\* GracefulStop has no timeout and a query may never end; yet when the gateway stops
\* too, its timeout closes the calls that keep the server from stopping.
StoppingTogetherEnds == mode = "stopping" /\ gate # "up" ~> mode = "down"

\* All the while the server keeps to its own specification: the gateway is one of the
\* clients it allows for.
ServerSpecification == Safety

\* With a database that answers, every request for rates is answered in the end,
\* whichever process stops or dies meanwhile.
EveryRequestEnds == DbAnswers => \A q \in Calls : ask[q] = "asking" ~> ask[q] # "asking"

\* With a database that answers, a server that was told to stop goes down.
ShutdownEnds == DbAnswers => (mode = "stopping" ~> mode = "down")

==============================================================================
