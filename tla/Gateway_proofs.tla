---------------------------- MODULE Gateway_proofs ----------------------------
(***************************************************************************)
(* Promises of the gateway for any number of requests and users, any       *)
(* skew between the clocks, any leeway and any life of a token.            *)
(*                                                                         *)
(* The bound on removed users rests on what is true of every token at      *)
(* every moment, in a client's hands or in a request: it expires within    *)
(* Ttl from now, and when its user has left, within Ttl from that moment.  *)
(* A token is only issued to a request whose user is in the configuration, *)
(* since a restart of the auth service loses the requests it had verified. *)
(***************************************************************************)
EXTENDS Gateway, TLAPS

GoodToken(t) ==
  /\ t.sub \in Users
  /\ t.exp \in Int
  /\ t.exp <= clock + Ttl
  /\ t.sub \notin accounts => t.exp <= leftAt[t.sub] + Ttl

TokenInv ==
  /\ clock \in Int /\ skew \in Int
  /\ accounts \subseteq Users
  /\ leftAt \in [Users -> Int]
  /\ \A u \in Users : leftAt[u] <= clock
  /\ DOMAIN place = Requests /\ DOMAIN token = Requests
  /\ user \in [Requests -> Users]
  /\ \A q \in Requests : place[q] = "verified" => user[q] \in accounts
  /\ \A q \in Requests : place[q] = "parsed" => token[q] # Unusable
  /\ \A q \in Requests : place[q] = "granted" => GoodToken(token[q])
  /\ \A q \in Requests : token[q] # Unusable => GoodToken(token[q])
  /\ \A t \in tokens : GoodToken(t)

\* Cutting an instant to whole seconds does not move it forward.
LEMMA TruncatedFact ==
  ASSUME NEW t \in Int PROVE Truncated(t) \in Int /\ Truncated(t) <= t
  <1>1. t % Second \in 0..(Second - 1)
    BY GatewayAssumption
  <1>2. QED
    BY <1>1, GatewayAssumption DEF Truncated

\* No token exists at first.
LEMMA TokenInit == Init => TokenInv
  BY GatewayAssumption DEF Init, TokenInv, GoodToken

\* The induction step: tokens are made by Issues alone, and every later clock only helps.
LEMMA TokenStep == TokenInv /\ [Next]_vars => TokenInv'
  <1> SUFFICES ASSUME TokenInv, [Next]_vars PROVE TokenInv'
    OBVIOUS
  <1>0. Ttl \in Int /\ 0 <= Ttl
    BY GatewayAssumption
  <1> USE DEF TokenInv
  <1>1. CASE UNCHANGED vars
    BY <1>1 DEF vars, GoodToken
  <1>2. CASE Tick
    BY <1>0, <1>2 DEF Tick, authVars, mainVars, GoodToken
  <1>3. CASE AuthRestarts
    <2>1. \A t : GoodToken(t) => GoodToken(t)'
      BY <1>0, <1>3 DEF AuthRestarts, GoodToken
    <2>2. \A u \in Users : leftAt'[u] \in Int /\ leftAt'[u] <= clock'
      BY <1>3 DEF AuthRestarts
    <2>3. \A q \in Requests : place'[q] # "verified" /\ (place'[q] = place[q] \/ place'[q] = "orphaned")
      BY <1>3 DEF AuthRestarts, AtAuth
    <2>4. QED
      BY <1>3, <2>1, <2>2, <2>3 DEF AuthRestarts
  <1>4. ASSUME NEW q \in Requests, Issues(q) PROVE TokenInv'
    <2> DEFINE t == [sub |-> user[q], nbf |-> Truncated(clock), exp |-> Truncated(clock + Ttl)]
    <2>1. GoodToken(t)
      BY <1>0, <1>4, TruncatedFact DEF Issues, GoodToken
    <2>2. \A s : GoodToken(s) => GoodToken(s)'
      BY <1>4 DEF Issues, Goto, authVars, GoodToken
    <2>3. token' = [token EXCEPT ![q] = t] /\ place' = [place EXCEPT ![q] = "granted"]
      BY <1>4 DEF Issues, Goto
    <2>4. QED
      BY <1>4, <2>1, <2>2, <2>3 DEF Issues, Goto, authVars
  <1>5. ASSUME NEW q \in Requests, LoginSucceeds(q) PROVE TokenInv'
    BY <1>5 DEF LoginSucceeds, Answer, authVars, GoodToken
  <1>6. ASSUME NEW q \in Requests, ReceiveRate(q) PROVE TokenInv'
    BY <1>6 DEF ReceiveRate, Goto, authVars, GoodToken
  <1>7. ASSUME NEW q \in Requests,
               \/ ReceiveLogin(q) \/ BodyRead(q) \/ BodyFails(q) \/ Verifies(q) \/ LoginFails(q)
               \/ Parse(q) \/ Admit(q) \/ Handle(q) \/ GetRateReturns(q) \/ Panic(q)
        PROVE  TokenInv'
    BY <1>7 DEF ReceiveLogin, BodyRead, BodyFails, Await, Verifies, Verify, LoginFails, Parse, Parses, Admit, Handle,
         GetRateReturns, Panic, Goto, Answer, authVars, GoodToken
  <1>8. CASE Interrupt \/ ShutdownReturns \/ Over
    BY <1>8 DEF Interrupt, ShutdownReturns, Over, authVars, requestVars, vars, GoodToken
  <1>9. CASE ShutdownExpires \/ ListenFails
    BY <1>9 DEF ShutdownExpires, ListenFails, Abandon, authVars, GoodToken
  <1>10. QED
    BY <1>1, <1>2, <1>3, <1>4, <1>5, <1>6, <1>7, <1>8, <1>9 DEF Next, LoginStep, RateStep

\* A user who left the configuration is let in for Ttl after that and no longer, by
\* the gateway's clock, however often the auth service was restarted since.
THEOREM RemovedUsersTheorem == Safety => RemovedUsersFadeOut
  <1>1. TokenInv /\ [Next]_vars =>
          [\A q \in Requests : place[q] = "parsed" /\ place'[q] = "admitted" =>
             token[q].sub \in accounts \/ GatewayNow <= leftAt[token[q].sub] + Ttl]_vars
    <2> SUFFICES ASSUME TokenInv, [Next]_vars, NEW q \in Requests,
                        place[q] = "parsed", place'[q] = "admitted"
                 PROVE  token[q].sub \in accounts \/ GatewayNow <= leftAt[token[q].sub] + Ttl
      OBVIOUS
    <2>1. Admit(q) /\ ~Expired(token[q])
      <3>1. \A p \in Requests : place'[q] = "admitted" /\ Admit(p) => p = q /\ ~Expired(token[q])
        BY DEF TokenInv, Admit, Goto, Answer
      <3>2. \A p \in Requests : ~(LoginStep(p) \/ ReceiveRate(p) \/ Parse(p) \/ Handle(p)
                                   \/ GetRateReturns(p) \/ Panic(p))
        BY DEF TokenInv, LoginStep, ReceiveLogin, BodyRead, BodyFails, Await, Verifies, Issues,
             LoginSucceeds, LoginFails, ReceiveRate, Parse, Handle, GetRateReturns, Panic, Goto, Answer, AtLogin, AtAuth
      <3>3. ~(Tick \/ AuthRestarts \/ Interrupt \/ ShutdownReturns \/ ShutdownExpires
              \/ ListenFails \/ Over \/ UNCHANGED vars)
        BY DEF TokenInv, Tick, AuthRestarts, Interrupt, ShutdownReturns, ShutdownExpires,
             ListenFails, Abandon, Over, vars, requestVars
      <3>4. QED
        BY <3>1, <3>2, <3>3 DEF Next, RateStep
    <2>2. GoodToken(token[q])
      BY DEF TokenInv
    <2>3. GatewayNow \in Int /\ GatewayNow <= token[q].exp
      BY <2>1, <2>2 DEF Expired, TokenInv, GoodToken, GatewayNow
    <2>4. token[q].sub \notin accounts => leftAt[token[q].sub] + Ttl \in Int
      BY <2>2, GatewayAssumption DEF TokenInv, GoodToken
    <2>5. QED
      BY <2>2, <2>3, <2>4 DEF GoodToken
  <1>2. QED
    BY TokenInit, TokenStep, <1>1, PTL DEF Safety, RemovedUsersFadeOut

StopInv ==
  /\ DOMAIN place = Requests
  /\ mode # "failed" => \A q \in Requests : place[q] # "dropped"
  /\ mode = "stopped" => \A q \in Requests : place[q] \notin InFlight
  /\ \A q \in Requests : place[q] \in {"idle", "answered", "dropped"} \cup InFlight

\* A clean exit answered every request it had received.
THEOREM CleanStopTheorem == Safety => []CleanStopAnsweredAll
  <1>1. Init => StopInv
    BY DEF Init, StopInv, InFlight, AtLogin, AtAuth, AtRate
  <1>2. StopInv /\ [Next]_vars => StopInv'
    <2> SUFFICES ASSUME StopInv, [Next]_vars PROVE StopInv'
      OBVIOUS
    <2> USE DEF StopInv, InFlight, AtLogin, AtAuth, AtRate
    <2>1. CASE Tick \/ Interrupt \/ ShutdownReturns \/ Over \/ UNCHANGED vars
      BY <2>1 DEF Tick, Interrupt, ShutdownReturns, Over, mainVars, requestVars, vars
    <2>2. CASE ShutdownExpires \/ ListenFails
      BY <2>2 DEF ShutdownExpires, ListenFails, Abandon
    <2>3. CASE AuthRestarts
      BY <2>3 DEF AuthRestarts, mainVars
    <2>4. ASSUME NEW q \in Requests, LoginStep(q) PROVE StopInv'
      BY <2>4 DEF LoginStep, ReceiveLogin, BodyRead, BodyFails, Await, Serving, Verifies, Issues,
           LoginSucceeds, LoginFails, Goto, Answer, mainVars
    <2>5. ASSUME NEW q \in Requests, RateStep(q) PROVE StopInv'
      BY <2>5 DEF RateStep, ReceiveRate, Serving, Parse, Admit, Handle, GetRateReturns, Panic, Goto,
           Answer, mainVars
    <2>6. QED
      BY <2>1, <2>2, <2>3, <2>4, <2>5 DEF Next
  <1>3. StopInv => CleanStopAnsweredAll
    BY DEF StopInv, CleanStopAnsweredAll
  <1>4. QED
    BY <1>1, <1>2, <1>3, PTL DEF Safety

Token == [sub : Users, nbf : Int, exp : Int]

TypeInv ==
  /\ TypeOK
  /\ tokens \subseteq Token
  /\ token \in [Requests -> Token \cup {Unusable}]
  /\ \A q \in Requests : place[q] = "granted" => token[q] # Unusable

\* The first state has the types.
LEMMA TypeInit == Init => TypeInv
  BY GatewayAssumption DEF Init, TypeInv, TypeOK

\* The induction step: every action writes values of the types of TypeOK.
LEMMA TypeStep == TypeInv /\ [Next]_vars => TypeInv'
  <1> SUFFICES ASSUME TypeInv, [Next]_vars PROVE TypeInv'
    OBVIOUS
  <1>0. {200, 400, 401, 500} \subseteq HttpStatuses /\ 0 \notin HttpStatuses
    <2>1. {"OK", "InvalidArgument", "Unauthenticated", "Internal"} \subseteq GrpcCodes
      BY DEF GrpcCodes
    <2>2. /\ HttpOf("OK") = 200 /\ HttpOf("InvalidArgument") = 400
          /\ HttpOf("Unauthenticated") = 401 /\ HttpOf("Internal") = 500
      BY DEF HttpOf
    <2>3. \A code : HttpOf(code) # 0
      BY DEF HttpOf
    <2>4. QED
      BY <2>1, <2>2, <2>3 DEF HttpStatuses
  <1> USE DEF TypeInv, TypeOK, InFlight, AtLogin, AtAuth, AtRate
  <1>1. CASE UNCHANGED vars \/ Over
    BY <1>1 DEF vars, Over
  <1>2. CASE Tick
    BY <1>2, GatewayAssumption DEF Tick, authVars, mainVars
  <1>3. CASE AuthRestarts
    BY <1>3 DEF AuthRestarts, mainVars
  <1>4. CASE Interrupt
    BY <1>4, GatewayAssumption DEF Interrupt, authVars, requestVars
  <1>5. CASE ShutdownReturns
    BY <1>5 DEF ShutdownReturns, authVars, requestVars
  <1>6. CASE ShutdownExpires \/ ListenFails
    BY <1>6, GatewayAssumption DEF ShutdownExpires, ListenFails, Abandon, authVars
  <1>7. ASSUME NEW q \in Requests, ReceiveLogin(q) \/ BodyRead(q) PROVE TypeInv'
    BY <1>7, GatewayAssumption DEF ReceiveLogin, BodyRead, Await, Goto, authVars, mainVars
  <1>8. ASSUME NEW q \in Requests, Issues(q) PROVE TypeInv'
    <2> DEFINE t == [sub |-> user[q], nbf |-> Truncated(clock), exp |-> Truncated(clock + Ttl)]
    <2>1. t \in Token /\ t.sub \in Users
      BY TruncatedFact, GatewayAssumption DEF Token
    <2>2. t # Unusable
      BY <2>1, GatewayAssumption DEF Token
    <2>3. token' = [token EXCEPT ![q] = t]
      BY <1>8 DEF Issues
    <2> HIDE DEF t
    <2>4. QED
      BY <1>8, <2>1, <2>2, <2>3 DEF Issues, Goto, authVars, mainVars
  <1>9. ASSUME NEW q \in Requests, ReceiveRate(q) PROVE TypeInv'
    BY <1>9 DEF ReceiveRate, Goto, authVars, mainVars, Token
  <1>10. ASSUME NEW q \in Requests,
                \/ BodyFails(q) \/ Verifies(q) \/ LoginSucceeds(q) \/ LoginFails(q)
                \/ Parse(q) \/ Admit(q) \/ Panic(q)
         PROVE  TypeInv'
    BY <1>0, <1>10, GatewayAssumption DEF BodyFails, Verifies, LoginSucceeds, LoginFails, Parse, Admit, Panic,
         Goto, Answer, authVars, mainVars
  <1>11. ASSUME NEW q \in Requests, Handle(q) \/ GetRateReturns(q) PROVE TypeInv'
    <2>1. \A code \in GrpcCodes : HttpOf(code) \in HttpStatuses
      BY DEF GrpcCodes, HttpOf, HttpStatuses
    <2>2. "InvalidArgument" \in GrpcCodes
      BY DEF GrpcCodes
    <2>3. PICK n \in HttpStatuses :
            \/ Goto(q, "calling") /\ UNCHANGED <<tokens, since, token>>
            \/ Answer(q, n) /\ UNCHANGED tokens
      BY <1>0, <1>11, <2>1, <2>2, GatewayAssumption DEF Handle, GetRateReturns
    <2>4. place[q] \in InFlight
      BY <1>11 DEF Handle, GetRateReturns
    <2>5. QED
      BY <1>0, <2>3, <2>4, GatewayAssumption DEF Goto, Answer, authVars, mainVars
  <1>12. QED
    BY <1>1, <1>2, <1>3, <1>4, <1>5, <1>6, <1>7, <1>8, <1>9, <1>10, <1>11
    DEF Next, LoginStep, RateStep

\* The state of the gateway and the auth service keeps its types: a response is on the
\* wire exactly when its status is chosen, and no client ever holds an unusable token.
THEOREM TypeCorrect == Safety => []TypeOK
  <1>1. TypeInv => TypeOK
    BY DEF TypeInv
  <1>2. QED
    BY TypeInit, TypeStep, <1>1, PTL DEF Safety

\* The auth client's time of no login in flight is overdue.
TimerInv ==
  /\ clock \in Int /\ stopBy \in Int
  /\ DOMAIN place = Requests /\ DOMAIN since = Requests
  /\ \A q \in Requests : place[q] \in AtLogin =>
       since[q] \in Int /\ clock <= since[q] + AuthTimeout

\* When Shutdown gives up it drops no login whose body came more than the auth client's
\* time before: that one has been answered; for any timeouts.
THEOREM ReadLoginsAreKept == Safety => ShutdownKeepsReadLogins
  <1>0. AuthTimeout \in Int /\ 0 <= AuthTimeout
    BY GatewayAssumption
  <1> USE DEF TimerInv, AtLogin, AtAuth
  <1>1. Init => TimerInv
    BY DEF Init
  <1>2. TimerInv /\ [Next]_vars => TimerInv'
    <2> SUFFICES ASSUME TimerInv, [Next]_vars PROVE TimerInv'
      OBVIOUS
    <2>1. CASE UNCHANGED vars \/ Over \/ ShutdownReturns
      BY <2>1 DEF vars, Over, ShutdownReturns, requestVars
    <2>2. CASE Tick
      BY <1>0, <2>2 DEF Tick, Waiting, Deadline, mainVars
    <2>3. CASE AuthRestarts
      BY <2>3 DEF AuthRestarts, mainVars
    <2>4. CASE Interrupt
      BY <2>4, GatewayAssumption DEF Interrupt, requestVars
    <2>5. CASE ShutdownExpires \/ ListenFails
      BY <2>5 DEF ShutdownExpires, ListenFails, Abandon, InFlight
    <2>6. ASSUME NEW q \in Requests, ReceiveLogin(q) \/ BodyRead(q) PROVE TimerInv'
      BY <1>0, <2>6 DEF ReceiveLogin, BodyRead, Await, Goto, mainVars
    <2>7. ASSUME NEW q \in Requests,
                 \/ BodyFails(q) \/ Verifies(q) \/ Issues(q) \/ LoginSucceeds(q) \/ LoginFails(q)
          PROVE  TimerInv'
      BY <2>7 DEF BodyFails, Verifies, Issues, LoginSucceeds, LoginFails, Goto, Answer, mainVars
    <2>8. ASSUME NEW q \in Requests, RateStep(q) PROVE TimerInv'
      BY <2>8 DEF RateStep, ReceiveRate, Parse, Admit, Handle, GetRateReturns, Panic, Goto,
           Answer, mainVars
    <2>9. QED
      BY <2>1, <2>2, <2>3, <2>4, <2>5, <2>6, <2>7, <2>8 DEF Next, LoginStep
  <1>3. TimerInv /\ [Next]_vars =>
          [\A q \in Requests :
             mode = "stopping" /\ place[q] \in AtLogin /\ since[q] + AuthTimeout < stopBy
               => place'[q] # "dropped"]_vars
    <2> SUFFICES ASSUME TimerInv, [Next]_vars, NEW q \in Requests, mode = "stopping",
                        place[q] \in AtLogin, since[q] + AuthTimeout < stopBy,
                        place'[q] = "dropped"
                 PROVE  FALSE
      OBVIOUS
    <2>1. ~ShutdownExpires
      BY <1>0 DEF ShutdownExpires
    <2>2. ~(Tick \/ AuthRestarts \/ Interrupt \/ ShutdownReturns \/ ListenFails \/ Over
            \/ UNCHANGED vars)
      BY DEF Tick, AuthRestarts, Interrupt, ShutdownReturns, ListenFails, Over, vars, requestVars
    <2>3. \A p \in Requests : ~LoginStep(p) /\ ~RateStep(p)
      BY DEF LoginStep, ReceiveLogin, BodyRead, BodyFails, Await, Verifies, Issues,
           LoginSucceeds, LoginFails, RateStep, ReceiveRate, Parse, Admit, Handle,
           GetRateReturns, Panic, Goto, Answer
    <2>4. QED
      BY <2>1, <2>2, <2>3 DEF Next
  <1>4. QED
    BY <1>1, <1>2, <1>3, PTL DEF Safety, ShutdownKeepsReadLogins

\* Moving an instant by whole seconds moves its second by as much.
LEMMA TruncatedMoves == ASSUME NEW t \in Int PROVE Truncated(t + Ttl) = Truncated(t) + Ttl
  <1>0. Second \in Nat \ {0} /\ Ttl \in Nat /\ Ttl % Second = 0
    BY GatewayAssumption
  <1> DEFINE a == t \div Second
             b == Ttl \div Second
             r == t % Second
  <1>1. a \in Int /\ b \in Int /\ r \in 0..(Second - 1)
    BY <1>0, SMT
  <1>2. Ttl = Second * b /\ t = Second * a + r
    BY <1>0, SMT
  <1>3. t + Ttl = Second * (a + b) + r
    BY <1>0, <1>1, <1>2, Z3
  <1>4. \A x, c, d \in Int : d \in 0..(Second - 1) /\ x = Second * c + d => x % Second = d
    BY <1>0, Z3
  <1>5. t + Ttl \in Int /\ a + b \in Int /\ r \in Int
    BY <1>0, <1>1
  <1> HIDE DEF a, b, r
  <1>6. (t + Ttl) % Second = r
    BY <1>1, <1>3, <1>4, <1>5, Zenon
  <1>7. t % Second = r
    BY DEF r
  <1>8. (t + Ttl) - r = (t - r) + Ttl
    BY <1>0, <1>5
  <1>9. QED
    BY <1>6, <1>7, <1>8, Zenon DEF Truncated

\* Valid from a moment that has come, for the whole life of a token.
FreshToken(t) ==
  /\ t.nbf \in Int /\ t.nbf <= clock
  /\ t.exp = t.nbf + Ttl

FreshInv ==
  /\ \A q \in Requests : place[q] = "granted" => FreshToken(token[q])
  /\ \A t \in tokens : FreshToken(t)

\* The induction step: tokens are made by Issues alone, and the clock only moves on.
LEMMA FreshStep == TypeInv /\ FreshInv /\ [Next]_vars => FreshInv'
  <1> SUFFICES ASSUME TypeInv, FreshInv, [Next]_vars PROVE FreshInv'
    OBVIOUS
  <1>0. /\ clock \in Int
        /\ DOMAIN place = Requests /\ DOMAIN token = Requests
    BY DEF TypeInv, TypeOK
  <1> USE DEF FreshInv
  <1>1. CASE UNCHANGED vars \/ Over \/ Interrupt \/ ShutdownReturns
    BY <1>1 DEF vars, Over, Interrupt, ShutdownReturns, requestVars, FreshToken
  <1>2. CASE Tick
    BY <1>0, <1>2 DEF Tick, FreshToken
  <1>3. CASE AuthRestarts
    BY <1>0, <1>3 DEF AuthRestarts, FreshToken
  <1>4. CASE ShutdownExpires \/ ListenFails
    BY <1>0, <1>4 DEF ShutdownExpires, ListenFails, Abandon, FreshToken
  <1>5. ASSUME NEW q \in Requests, Issues(q) PROVE FreshInv'
    <2> DEFINE t == [sub |-> user[q], nbf |-> Truncated(clock), exp |-> Truncated(clock + Ttl)]
    <2>1. FreshToken(t)
      BY <1>0, TruncatedFact, TruncatedMoves DEF FreshToken
    <2>2. token' = [token EXCEPT ![q] = t]
      BY <1>5 DEF Issues
    <2> HIDE DEF t
    <2>3. QED
      BY <1>0, <1>5, <2>1, <2>2 DEF Issues, Goto, FreshToken
  <1>6. ASSUME NEW q \in Requests, LoginStep(q), ~Issues(q) PROVE FreshInv'
    BY <1>0, <1>6 DEF LoginStep, ReceiveLogin, BodyRead, BodyFails, Await, Verifies,
         LoginSucceeds, LoginFails, Goto, Answer, FreshToken
  <1>7. ASSUME NEW q \in Requests, RateStep(q) PROVE FreshInv'
    BY <1>0, <1>7 DEF RateStep, ReceiveRate, Parse, Admit, Handle, GetRateReturns, Panic, Goto,
         Answer, FreshToken
  <1>8. QED
    BY <1>1, <1>2, <1>3, <1>4, <1>5, <1>6, <1>7 DEF Next

\* A token a client got is refused by neither check before its life is over by the gateway's
\* clock, unless that clock is behind by more than the leeway; for any length of a second,
\* life and leeway.
THEOREM FreshTokensTheorem == Safety => FreshTokensWork
  <1>1. Init => FreshInv
    BY DEF Init, FreshInv
  <1>2. TypeInv /\ FreshInv /\ [Next]_vars =>
          [\A q \in Requests : place[q] \in {"presented", "parsed"} /\ status'[q] = 401 =>
             \/ token[q] \notin tokens
             \/ skew < -Leeway
             \/ GatewayNow >= token[q].nbf + Ttl]_vars
    <2> SUFFICES ASSUME TypeInv, FreshInv, [Next]_vars, NEW q \in Requests,
                        place[q] \in {"presented", "parsed"}, status'[q] = 401,
                        token[q] \in tokens, skew >= -Leeway,
                        GatewayNow < token[q].nbf + Ttl
                 PROVE  FALSE
      BY GatewayAssumption DEF TypeInv, TypeOK, FreshInv, FreshToken, GatewayNow
    <2>1. status[q] # 401 /\ DOMAIN status = Requests
      BY DEF TypeInv, TypeOK
    <2>3. ~(Tick \/ AuthRestarts \/ Interrupt \/ ShutdownReturns \/ ShutdownExpires
            \/ ListenFails \/ Over \/ UNCHANGED vars)
      BY <2>1 DEF Tick, AuthRestarts, Interrupt, ShutdownReturns, ShutdownExpires, ListenFails,
           Abandon, Over, vars, requestVars
    <2>2. \A p \in Requests : p # q =>
            ~(\E n \in HttpStatuses : Answer(p, n)) /\ ~(\E a : Goto(p, a))
      BY <2>1 DEF Answer, Goto
    <2>4. \A p \in Requests : ~(LoginStep(p) \/ ReceiveRate(p) \/ Handle(p) \/ GetRateReturns(p)
                                 \/ Panic(p))
      BY <2>1 DEF LoginStep, ReceiveLogin, BodyRead, BodyFails, Await, Verifies, Issues,
           LoginSucceeds, LoginFails, ReceiveRate, Handle, GetRateReturns, Panic, Goto, Answer,
           AtLogin, AtAuth
    <2>5. token[q] # Unusable
      BY DEF TypeInv, TypeOK
    <2>6. /\ token[q].nbf \in Int /\ token[q].nbf <= clock
          /\ token[q].exp = token[q].nbf + Ttl
          /\ clock \in Int /\ skew \in Int /\ Leeway \in Nat /\ Ttl \in Nat
      BY GatewayAssumption DEF FreshInv, FreshToken, TypeInv, TypeOK
    <2>7. Parses(token[q]) /\ ~Expired(token[q])
      BY <2>5, <2>6 DEF Parses, Expired, GatewayNow
    <2>8. \A p \in Requests : ~(Parse(p) \/ Admit(p))
      BY <2>1, <2>7 DEF Parse, Admit, Goto, Answer
    <2>9. QED
      BY <2>3, <2>4, <2>8 DEF Next, RateStep
  <1>3. QED
    BY TypeInit, TypeStep, FreshStep, <1>1, <1>2, PTL DEF Safety, FreshTokensWork

===============================================================================
