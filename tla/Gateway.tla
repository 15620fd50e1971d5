------------------------------- MODULE Gateway -------------------------------
(***************************************************************************)
(* The HTTP gateway (gateway/) and the auth service (auth/): login, the    *)
(* life of a token between the two processes and their two clocks, the     *)
(* requests for rates under the Auth middleware, and the gateway's         *)
(* shutdown with its timeout.                                              *)
(*                                                                         *)
(*   idle        not received                                              *)
(*   reading     login: the handler reads the body, as slow as the client  *)
(*   asking      login: the request is on its way to the auth service      *)
(*   verified    login: the auth service found the password right          *)
(*   granted     login: the token is on its way back                       *)
(*   orphaned    login: the auth service went away under the request       *)
(*   presented   rate: the token is about to be parsed                     *)
(*   parsed      rate: ParseWithClaims accepted it                         *)
(*   admitted    rate: in the handler                                      *)
(*   calling     rate: inside the currency client's GetRate                *)
(*   answered    the response is on the wire                               *)
(*   dropped     the gateway exited under the request                      *)
(*                                                                         *)
(* Time is the auth service's clock, in ticks; the gateway's clock is that *)
(* plus a skew.  The currency server answers any code at any time or       *)
(* never; CurrencyServer is its detailed model.                            *)
(***************************************************************************)
EXTENDS Integers, GrpcStatus

CONSTANTS
  Requests,         \* HTTP requests to the gateway
  Users,            \* users an operator may list in the auth configuration
  Unusable,         \* no bearer token, or one with a wrong signature or algorithm
  Second,           \* ticks per second: a NumericDate holds whole seconds
  Ttl,              \* token_ttl_minutes, in ticks
  Leeway,           \* jwt.WithLeeway, in ticks
  ReadTimeout,      \* of the HTTP server, in ticks
  AuthTimeout,      \* of the auth client, in ticks
  ShutdownTimeout,  \* of srv.Shutdown, in ticks
  CallCodes,        \* bound: the codes of the calls of GetRate
  MaxSkew,          \* bound: how far the two clocks may be apart
  MaxClock          \* bound: the last instant of the model

ASSUME GatewayAssumption ==
  /\ Second \in Nat \ {0}
  /\ Ttl \in Nat \ {0} /\ Ttl % Second = 0
  /\ Leeway \in Nat /\ Leeway % Second = 0
  /\ ReadTimeout \in Nat /\ AuthTimeout \in Nat /\ ShutdownTimeout \in Nat
  /\ AuthTimeout < ShutdownTimeout
  /\ MaxSkew \in Nat /\ MaxClock \in Nat
  /\ CallCodes \subseteq GrpcCodes
  /\ Unusable \notin [sub : Users, nbf : Int, exp : Int]

VARIABLES
  clock,      \* the auth service's clock
  skew,       \* the gateway's clock minus the auth service's
  accounts,   \* the users of the auth service's configuration
  leftAt,     \* [Users -> when the user was last taken out of it] (history)
  tokens,     \* the tokens clients hold
  mode,       \* where the gateway's main goroutine is
  stopBy,     \* when srv.Shutdown gives up
  place,      \* [Requests -> where the request is]
  since,      \* [Requests -> when the wait it is in as a login began, 0 if in none]
  user,       \* [Requests -> who logs in]
  token,      \* [Requests -> the token it got or presents]
  status      \* [Requests -> the HTTP status of the response, 0 before]

authVars == <<accounts, leftAt>>
mainVars == <<mode, stopBy>>
vars == <<clock, skew, accounts, leftAt, tokens, mode, stopBy, place, since, user, token,
          status>>

AtAuth   == {"asking", "verified"}
AtLogin  == AtAuth \cup {"granted", "orphaned"}
AtRate   == {"presented", "parsed", "admitted", "calling"}
InFlight == {"reading"} \cup AtLogin \cup AtRate

GatewayNow == clock + skew
Truncated(t) == t - (t % Second)

\* Main has not seen Shutdown return.  Its listener is closed when it stops, but a
\* connection that was accepted before still brings its first request.
Serving == mode \in {"up", "stopping"}

\* The two waits of a login with an end: for its body, and for the auth service.
Waiting(q) == place[q] = "reading" \/ place[q] \in AtLogin

\* Mutant of Deadline: an auth client without a timeout.
Deadline_NoTimeout(q) == since[q] + IF place[q] = "reading" THEN ReadTimeout ELSE MaxClock + 1

Deadline(q) == since[q] + IF place[q] = "reading" THEN ReadTimeout ELSE AuthTimeout

------------------------------------------------------------------------------
Init ==
  /\ clock = 0
  /\ skew \in (-MaxSkew)..MaxSkew
  /\ accounts = Users
  /\ leftAt = [u \in Users |-> 0]
  /\ tokens = {}
  /\ mode = "up"
  /\ stopBy = 0
  /\ place = [q \in Requests |-> "idle"]
  /\ since = [q \in Requests |-> 0]
  /\ user \in [Requests -> Users]
  /\ token = [q \in Requests |-> Unusable]
  /\ status = [q \in Requests |-> 0]

\* Time passes; the timer of a login that waits is served before the next tick.
Tick ==
  /\ clock < MaxClock
  /\ \A q \in Requests : Waiting(q) => clock < Deadline(q)
  /\ clock' = clock + 1
  /\ UNCHANGED <<skew, authVars, tokens, mainVars, place, since, user, token, status>>

\* Request q moves on; its token may change with it, or its wait begin.
Goto(q, p) ==
  /\ place' = [place EXCEPT ![q] = p]
  /\ UNCHANGED <<clock, skew, authVars, mainVars, user, status>>

\* The response of request q is written.
Answer(q, code) ==
  /\ place' = [place EXCEPT ![q] = "answered"]
  /\ status' = [status EXCEPT ![q] = code]
  /\ since' = [since EXCEPT ![q] = 0]
  /\ UNCHANGED <<clock, skew, authVars, mainVars, user, token>>

------------------------------------------------------------------------------
(* Login: LoginHandler, the auth client, the auth service.                 *)

\* A wait of request q begins.
Await(q, p) ==
  /\ Goto(q, p)
  /\ since' = [since EXCEPT ![q] = clock]
  /\ UNCHANGED <<tokens, token>>

ReceiveLogin(q) == place[q] = "idle" /\ Serving /\ Await(q, "reading")

\* The body was read and both fields are there: the auth client's time begins.
BodyRead(q) == place[q] = "reading" /\ Await(q, "asking")

\* No JSON, an empty field, or an error of the connection.
BodyFails(q) == place[q] = "reading" /\ Answer(q, 400) /\ UNCHANGED tokens

\* users.Store.Verify, of a right password.
Verify(u) == u \in accounts

\* The auth handler takes the request and looks the user up.
Verifies(q) ==
  /\ place[q] = "asking" /\ Verify(user[q])
  /\ Goto(q, "verified")
  /\ UNCHANGED <<tokens, since, token>>

\* issueToken: now is read, the claims keep whole seconds of it.
Issues(q) ==
  /\ place[q] = "verified"
  /\ token' = [token EXCEPT ![q] =
       [sub |-> user[q], nbf |-> Truncated(clock), exp |-> Truncated(clock + Ttl)]]
  /\ Goto(q, "granted")
  /\ UNCHANGED <<tokens, since>>

LoginSucceeds(q) ==
  /\ place[q] = "granted"
  /\ tokens' = tokens \cup {token[q]}
  /\ Answer(q, 200)

\* Mutant of LoginFails: the error is written and the handler goes on.
LoginFails_NoReturn(q) ==
  /\ place[q] \in AtLogin
  /\ status' = [status EXCEPT ![q] = 401]
  /\ UNCHANGED <<clock, skew, authVars, mainVars, tokens, place, since, user, token>>

\* A wrong password, an unknown user, a body over the auth handler's limit, an auth
\* service that is down, slow or gone: every error of Authenticate is the same 401.
LoginFails(q) ==
  /\ place[q] \in AtLogin
  /\ Answer(q, 401)
  /\ UNCHANGED tokens

\* At the latest when the timer of its wait fires.
LoginTimesOut(q) == clock >= Deadline(q) /\ (BodyFails(q) \/ LoginFails(q))

\* The auth service is restarted with another list of users; it loses the requests
\* it was working on (an orderly shutdown would first wait for them, which is to
\* restart a little later), and clients keep their tokens.
AuthRestarts ==
  /\ accounts' \in SUBSET Users
  /\ leftAt' = [u \in Users |-> IF u \in accounts \ accounts' THEN clock ELSE leftAt[u]]
  /\ place' = [q \in Requests |-> IF place[q] \in AtAuth THEN "orphaned" ELSE place[q]]
  /\ UNCHANGED <<clock, skew, tokens, mainVars, since, user, token, status>>

------------------------------------------------------------------------------
(* Rates: the Auth middleware, RateHandler, the currency client.           *)

ReceiveRate(q) ==
  /\ place[q] = "idle" /\ Serving
  /\ \E t \in tokens \cup {Unusable} : token' = [token EXCEPT ![q] = t]
  /\ Goto(q, "presented")
  /\ UNCHANGED <<tokens, since>>

\* Mutant of Parses: without the leeway.
Parses_NoLeeway(t) == t # Unusable /\ GatewayNow < t.exp /\ GatewayNow >= t.nbf

\* The signature and, with the leeway either way, the times of the claims.
Parses(t) ==
  /\ t # Unusable
  /\ GatewayNow < t.exp + Leeway
  /\ GatewayNow >= t.nbf - Leeway

Parse(q) ==
  /\ place[q] = "presented"
  /\ UNCHANGED tokens
  /\ \/ Parses(token[q]) /\ Goto(q, "parsed") /\ UNCHANGED <<since, token>>
     \/ ~Parses(token[q]) /\ Answer(q, 401)

\* Mutant of Expired: only the parser looks at the time.
Expired_Never(t) == t.exp < 0

\* validate compares the expiry once more, with another time.Now() and no leeway.
Expired(t) == t.exp < GatewayNow

Admit(q) ==
  /\ place[q] = "parsed"
  /\ UNCHANGED tokens
  /\ \/ ~Expired(token[q]) /\ Goto(q, "admitted") /\ UNCHANGED <<since, token>>
     \/ Expired(token[q]) /\ Answer(q, 401)

\* parseRateQuery, then the call.
Handle(q) ==
  /\ place[q] = "admitted"
  /\ UNCHANGED tokens
  /\ \/ Goto(q, "calling") /\ UNCHANGED <<since, token>>
     \/ Answer(q, HttpOf("InvalidArgument"))

\* GetRate returns a status of the currency server, of the transport or, when the
\* client left, of the context.  No deadline of the gateway's own bounds it.
GetRateReturns(q) ==
  /\ place[q] = "calling"
  /\ \E code \in CallCodes : Answer(q, HttpOf(code))
  /\ UNCHANGED tokens

\* A panic of a handler: Recovery answers.
Panic(q) ==
  /\ place[q] \in InFlight
  /\ Answer(q, 500)
  /\ UNCHANGED tokens

------------------------------------------------------------------------------
(* The gateway's main goroutine.                                           *)

requestVars == <<tokens, place, since, user, token, status>>

Interrupt ==
  /\ mode = "up"
  /\ clock + ShutdownTimeout <= MaxClock
  /\ mode' = "stopping"
  /\ stopBy' = clock + ShutdownTimeout
  /\ UNCHANGED <<clock, skew, authVars, requestVars>>

\* Mutant of ShutdownReturns: Close instead of Shutdown.
ShutdownReturns_AtOnce ==
  /\ mode = "stopping"
  /\ mode' = "stopped"
  /\ UNCHANGED <<clock, skew, authVars, stopBy, requestVars>>

\* Shutdown saw every request end: "stopped" is logged and the exit is clean.
ShutdownReturns ==
  /\ mode = "stopping"
  /\ \A q \in Requests : place[q] \notin InFlight
  /\ mode' = "stopped"
  /\ UNCHANGED <<clock, skew, authVars, stopBy, requestVars>>

\* The process exits with requests in flight.
Abandon(m) ==
  /\ mode' = m
  /\ place' = [q \in Requests |-> IF place[q] \in InFlight THEN "dropped" ELSE place[q]]
  /\ since' = [q \in Requests |-> 0]
  /\ UNCHANGED <<clock, skew, authVars, stopBy, tokens, user, token, status>>

\* Mutant of ShutdownExpires: the context of Shutdown has no timeout.
ShutdownExpires_Never == FALSE

ShutdownExpires == mode = "stopping" /\ clock >= stopBy /\ Abandon("failed")

\* ListenAndServe fails: run returns without a Shutdown.
ListenFails == mode = "up" /\ Abandon("failed")

Over == mode \in {"stopped", "failed"} /\ UNCHANGED vars

------------------------------------------------------------------------------
LoginStep(q) ==
  \/ ReceiveLogin(q) \/ BodyRead(q) \/ BodyFails(q)
  \/ Verifies(q) \/ Issues(q) \/ LoginSucceeds(q) \/ LoginFails(q)
RateStep(q) ==
  ReceiveRate(q) \/ Parse(q) \/ Admit(q) \/ Handle(q) \/ GetRateReturns(q) \/ Panic(q)

Next ==
  \/ Tick
  \/ AuthRestarts
  \/ \E q \in Requests : LoginStep(q) \/ RateStep(q)
  \/ Interrupt \/ ShutdownReturns \/ ShutdownExpires \/ ListenFails
  \/ Over

\* Time passes, main and the timers of logins are served; no request for rates need
\* ever end, no client send its body and no auth service answer.
Fairness ==
  /\ WF_vars(Tick) /\ WF_vars(ShutdownReturns \/ ShutdownExpires)
  /\ \A q \in Requests : WF_vars(LoginTimesOut(q))

Safety == Init /\ [][Next]_vars
Spec == Safety /\ Fairness

------------------------------------------------------------------------------
(* Properties.                                                             *)

TypeOK ==
  /\ clock \in 0..MaxClock
  /\ skew \in (-MaxSkew)..MaxSkew
  /\ accounts \subseteq Users
  /\ leftAt \in [Users -> 0..MaxClock]
  /\ mode \in {"up", "stopping", "stopped", "failed"}
  /\ stopBy \in 0..MaxClock
  /\ place \in [Requests -> {"idle", "answered", "dropped"} \cup InFlight]
  /\ since \in [Requests -> 0..MaxClock]
  /\ user \in [Requests -> Users]
  /\ Unusable \notin tokens
  /\ \A q \in Requests : token[q] = Unusable \/ token[q].sub \in Users
  /\ status \in [Requests -> {0} \cup HttpStatuses]
  /\ \A q \in Requests : status[q] # 0 <=> place[q] = "answered"

\* A user an operator took out of the configuration is let in no longer than the
\* life of a token after that, by the gateway's clock: tokens cannot be revoked, so
\* the expiry is all there is, and the leeway must not lengthen it.
RemovedUsersFadeOut ==
  [][\A q \in Requests : place[q] = "parsed" /\ place'[q] = "admitted" =>
       token[q].sub \in accounts \/ GatewayNow <= leftAt[token[q].sub] + Ttl]_vars

\* A token a client got is good at once, unless the gateway's clock is behind by more than
\* the leeway, and until its whole life has passed by that clock, from the second it was
\* issued in.
FreshTokensWork ==
  [][\A q \in Requests : place[q] \in {"presented", "parsed"} /\ status'[q] = 401 =>
       \/ token[q] \notin tokens
       \/ skew < -Leeway
       \/ GatewayNow >= token[q].nbf + Ttl]_vars

\* "stopped" is said, and the exit clean, only when every request was answered.
CleanStopAnsweredAll ==
  mode = "stopped" => \A q \in Requests : place[q] \in {"idle", "answered"}

\* What Shutdown's time limit may cost: requests for rates, logins whose body is still
\* being read, and logins whose body came in the last AuthTimeout before the limit.  Any
\* other login is answered, although the auth service never does; so is each that was
\* with the auth client when the signal came.
ShutdownKeepsReadLogins ==
  [][\A q \in Requests :
       mode = "stopping" /\ place[q] \in AtLogin /\ since[q] + AuthTimeout < stopBy
         => place'[q] # "dropped"]_vars

\* A signal ends the process although requests hang in a currency server that
\* never answers: Shutdown gives up.
SignalEndsProcess == mode = "stopping" ~> mode \in {"stopped", "failed"}

\* What the comment on the leeway says it is for, "clock skew support": a gateway
\* whose clock is ahead by no more than the leeway refuses no token that has not
\* expired yet.
SkewIsSupported ==
  [][\A q \in Requests : place[q] \in {"presented", "parsed"} /\ status'[q] = 401 =>
       \/ token[q] \notin tokens
       \/ skew \notin 0..Leeway
       \/ clock >= token[q].exp]_vars

==============================================================================
