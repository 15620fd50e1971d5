------------------------------ MODULE EcbClient ------------------------------
(***************************************************************************)
(* One call of the ECB client's FetchCurrentRates: RetryPolicy.Do around   *)
(* fetchOnce (currency/internal/clients/currency/).                        *)
(*                                                                         *)
(*   top       the head of the retry loop                                  *)
(*   build     fetchOnce builds the URL and the request                    *)
(*   sending   inside httpClient.Do                                        *)
(*   reading   status 200, the body is read and decoded                    *)
(*   judging   fn returned an error, Do decides                            *)
(*   waiting   the select between ctx.Done() and the timer                 *)
(*   returned  FetchCurrentRates returned                                  *)
(*                                                                         *)
(* The ECB, the network and net/http are external.  The context belongs to *)
(* the caller and ends at any moment.                                      *)
(***************************************************************************)
EXTENDS EcbDocument

CONSTANTS
  MaxAttempts,    \* api.retry.max_attempts, not validated
  BaseDelay,      \* api.retry.base_delay_ms
  MaxDelay,       \* api.retry.max_delay_ms
  Width           \* bits of time.Duration

ASSUME EcbClientAssumption ==
  /\ MaxAttempts \in Int
  /\ BaseDelay \in Nat
  /\ MaxDelay \in Nat
  /\ Width \in Nat \ {0}

VARIABLES
  pc,             \* where the call is
  attempt,        \* the loop variable of Do
  ctx,            \* "live", or how the caller's context ended
  wellFormed,     \* the request has no zero value and the URL parses
  lastErr,        \* the kind of the last error of fn
  result,         \* "pending", or what the call returned
  requests,       \* HTTP requests sent
  observed,       \* observations of ECBRequestDuration
  errors,         \* increments of ECBErrors
  delay,          \* the last backoff
  document,       \* the document of the last decoded body
  rates           \* the rates the call returned

answer == <<document, rates>>
counters == <<requests, observed, errors>>
vars == <<pc, attempt, ctx, wellFormed, lastErr, result, requests, observed, errors, delay,
          answer>>

Statuses == {"429", "5xx", "other"}
Retriable == {"429", "5xx", "network"}
Final == {"build", "ctx", "timeout", "other", "body", "parse"}

Live == ctx = "live"

------------------------------------------------------------------------------
(* backoff                                                                 *)

Pow2[n \in Nat] == IF n = 0 THEN 1 ELSE 2 * Pow2[n - 1]

\* Two's complement in Width bits.
Wrap(n) == LET half == Pow2[Width - 1] IN ((n + half) % (2 * half)) - half

\* 1 << n in a Duration: shifts of Width and more give 0.
ShiftLeft(n) == IF n >= Width THEN 0 ELSE Wrap(Pow2[n])

\* time.Duration(float64(d) * f/10): truncation toward zero.
Tenths(d, f) == IF d >= 0 THEN (d * f) \div 10 ELSE -((-d * f) \div 10)

\* Mutant of Capped: the delay does not grow.
Capped_Constant(n) == IF BaseDelay > MaxDelay THEN MaxDelay ELSE BaseDelay

Capped(n) ==
  LET d == Wrap(BaseDelay * ShiftLeft(n)) IN IF d > MaxDelay THEN MaxDelay ELSE d

\* Jitter of 30%, in tenths.
Backoffs(n) == {Tenths(Capped(n), f) : f \in 7..12}

------------------------------------------------------------------------------
Init ==
  /\ pc = "top"
  /\ attempt = 0
  /\ ctx = "live"
  /\ wellFormed \in BOOLEAN
  /\ lastErr = "none"
  /\ result = "pending"
  /\ requests = 0 /\ observed = 0 /\ errors = 0
  /\ delay = 0
  /\ document = <<>> /\ rates = NoRates

\* The caller's context is cancelled or expires.
EndCtx ==
  /\ Live
  /\ ctx' \in {"canceled", "deadline"}
  /\ UNCHANGED <<pc, attempt, wellFormed, lastErr, result, counters, delay, answer>>

\* The call returns; a result without data leaves the answer alone.
Return(value) ==
  /\ pc' = "returned"
  /\ result' = value
  /\ UNCHANGED <<attempt, ctx, wellFormed, lastErr, counters, delay>>

ReturnError(value) == Return(value) /\ UNCHANGED answer

\* fn returns an error of this kind, without or with counting the request.
Fail(kind) ==
  /\ pc' = "judging"
  /\ lastErr' = kind
  /\ UNCHANGED <<attempt, ctx, wellFormed, result, requests, delay, answer>>

FailUncounted(kind) == Fail(kind) /\ UNCHANGED <<observed, errors>>
FailCounted(kind) ==
  /\ Fail(kind)
  /\ observed' = observed + 1
  /\ errors' = errors + 1

\* The loop is over: by its condition, or by the break after the last attempt.
LoopOver ==
  \/ pc = "top" /\ attempt >= MaxAttempts
  \/ pc = "judging" /\ lastErr \in Retriable /\ attempt = MaxAttempts - 1

\* Mutant of Exhaust: the error is not returned.
Exhaust_Silent == LoopOver /\ ReturnError("pending")

Exhaust == LoopOver /\ ReturnError("exhausted")

\* The context is looked at before each attempt.
TopRefused == pc = "top" /\ attempt < MaxAttempts /\ ~Live /\ ReturnError("ctx")

TopEnters ==
  /\ pc = "top" /\ attempt < MaxAttempts /\ Live
  /\ pc' = "build"
  /\ UNCHANGED <<attempt, ctx, wellFormed, lastErr, result, counters, delay, answer>>

\* buildURL or NewRequestWithContext fails; Do with a dead context sends nothing.
BuildFails ==
  /\ pc = "build"
  /\ \/ ~wellFormed /\ FailUncounted("build")
     \/ wellFormed /\ ~Live /\ FailUncounted("ctx")

Send ==
  /\ pc = "build" /\ wellFormed /\ Live
  /\ pc' = "sending"
  /\ requests' = requests + 1
  /\ UNCHANGED <<attempt, ctx, wellFormed, lastErr, result, observed, errors, delay, answer>>

\* Do returns context.Canceled or context.DeadlineExceeded.
DoFailsByCtx == pc = "sending" /\ ~Live /\ FailUncounted("ctx")

\* http.Client.Timeout: the error also is a context.DeadlineExceeded.
DoTimesOut == pc = "sending" /\ FailUncounted("timeout")

\* Mutant of DoBreaks: network errors are retried uncounted.
DoBreaks_Uncounted == pc = "sending" /\ FailUncounted("network")

DoBreaks == pc = "sending" /\ FailCounted("network")

BadStatus == pc = "sending" /\ \E s \in Statuses : FailCounted(s)

StatusOK ==
  /\ pc = "sending"
  /\ pc' = "reading"
  /\ observed' = observed + 1
  /\ UNCHANGED <<attempt, ctx, wellFormed, lastErr, result, requests, errors, delay, answer>>

\* The body cannot be read (context, timeout, connection), or it is no XML, has
\* another root or an observation that does not parse.
BodyFails == pc = "reading" /\ \E kind \in {"body", "parse"} : FailUncounted(kind)

Decodes ==
  /\ pc = "reading"
  /\ \E doc \in Documents :
       /\ ~Refused(doc)
       /\ document' = doc
       /\ rates' = RatesOf(doc)
  /\ Return("data")

\* errors.As(err, &re) fails: no retry.
GiveUp == pc = "judging" /\ lastErr \notin Retriable /\ ReturnError("error")

\* Mutant of BackOff: every error is retried.
BackOff_AnyError ==
  /\ pc = "judging"
  /\ attempt # MaxAttempts - 1
  /\ pc' = "waiting"
  /\ delay' \in Backoffs(attempt)
  /\ UNCHANGED <<attempt, ctx, wellFormed, lastErr, result, counters, answer>>

BackOff ==
  /\ pc = "judging" /\ lastErr \in Retriable
  /\ attempt # MaxAttempts - 1
  /\ pc' = "waiting"
  /\ delay' \in Backoffs(attempt)
  /\ UNCHANGED <<attempt, ctx, wellFormed, lastErr, result, counters, answer>>

\* Mutant of TimerFires: the attempt is not counted.
TimerFires_SameAttempt ==
  /\ pc = "waiting"
  /\ pc' = "top"
  /\ UNCHANGED <<attempt, ctx, wellFormed, lastErr, result, counters, delay, answer>>

\* time.After(delay); a delay of zero or less fires at once.
TimerFires ==
  /\ pc = "waiting"
  /\ pc' = "top"
  /\ attempt' = attempt + 1
  /\ UNCHANGED <<ctx, wellFormed, lastErr, result, counters, delay, answer>>

CtxWins == pc = "waiting" /\ ~Live /\ ReturnError("ctx")

Done == pc = "returned" /\ UNCHANGED vars

------------------------------------------------------------------------------
Local == Exhaust \/ TopRefused \/ TopEnters \/ BuildFails \/ Send \/ GiveUp \/ BackOff
Do == DoFailsByCtx \/ DoTimesOut \/ DoBreaks \/ BadStatus \/ StatusOK
Read == BodyFails \/ Decodes
Wait == TimerFires \/ CtxWins

Next == EndCtx \/ Local \/ Do \/ Read \/ Wait \/ Done

\* The context always has a deadline (the worker's timeout).  Do and the body's
\* reader return once it ends; the server need never answer before that.
Fairness ==
  /\ WF_vars(EndCtx)
  /\ WF_vars(Local)
  /\ WF_vars(DoFailsByCtx)
  /\ WF_vars(~Live /\ Read)
  /\ WF_vars(Wait)

Safety == Init /\ [][Next]_vars
Spec == Safety /\ Fairness

------------------------------------------------------------------------------
(* Properties.                                                             *)

TypeOK ==
  /\ pc \in {"top", "build", "sending", "reading", "judging", "waiting", "returned"}
  /\ attempt \in Nat
  /\ ctx \in {"live", "canceled", "deadline"}
  /\ wellFormed \in BOOLEAN
  /\ lastErr \in {"none"} \cup Retriable \cup Final
  /\ result \in {"pending", "data", "exhausted", "ctx", "error"}
  /\ result = "pending" <=> pc # "returned"
  /\ requests \in Nat /\ observed \in Nat /\ errors \in Nat
  /\ delay \in {0} \cup UNION {Backoffs(n) : n \in 0..attempt}
  /\ document \in Documents
  /\ result # "data" => rates = NoRates

\* A new request is only sent after errors that are worth a retry: an answer of
\* 4xx, a malformed document, a broken body or an ended context end the call.  None is
\* sent when the context is over, whichever of the timer and the context the select took.
OnlyRetriableIsRetried ==
  [][requests' > requests => /\ requests = 0 \/ lastErr \in Retriable
                             /\ ctx = "live"]_vars

\* When the call is over, the duration histogram missed no request but the last,
\* and that one only if the context or the client's timeout ended it; every
\* request that was followed by another is in the error counter once.
MetricsMissAtMostTheLast ==
  pc = "returned" =>
    /\ observed = IF lastErr \in {"ctx", "timeout"} /\ requests > errors THEN requests - 1
                  ELSE requests
    /\ requests - errors \in {0, 1}

\* All or nothing: rates are returned only of a document every observation of which
\* parses or lacks an attribute, and they are the document's: one rate per day, the
\* last one, whatever series it is in, and none for a day without a value.
AnswerIsPublished ==
  result = "data" =>
    /\ Published(rates, document)
    /\ \A i \in DOMAIN document :
         Garbled \in {document[i].day, document[i].value} =>
           Missing \in {document[i].day, document[i].value}

\* The delay of backoff: the comments say base * 2^attempt, with a jitter of 30%,
\* and the code caps it at MaxDelay.
DelayFollowsComment ==
  pc = "waiting" =>
    LET exact == BaseDelay * Pow2[attempt]
        d == IF exact > MaxDelay THEN MaxDelay ELSE exact
    IN  10 * delay > 7 * d - 10 /\ 10 * delay <= 13 * d

\* The call keeps the promises of FetchCall, that it returns among them.
Call == INSTANCE FetchCall WITH
  result <- IF result = "ctx" THEN "error" ELSE result

CallSpec == Call!Spec

==============================================================================
