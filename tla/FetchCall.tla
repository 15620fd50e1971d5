------------------------------ MODULE FetchCall ------------------------------
(***************************************************************************)
(* What a caller of the ECB client's FetchCurrentRates can rely on: the    *)
(* call sends at most MaxAttempts requests, gives up as "exhausted" only   *)
(* when it sent them all, has data only from a request it sent, sends      *)
(* nothing more once it returned, and returns.                             *)
(*                                                                         *)
(* EcbClient implements this specification.                                *)
(***************************************************************************)
EXTENDS Integers

CONSTANT MaxAttempts

VARIABLES
  result,      \* "pending" until the call returns
  requests     \* HTTP requests sent so far

call == <<result, requests>>

Results == {"data", "exhausted", "error"}

Init == result = "pending" /\ requests = 0

Request ==
  /\ result = "pending"
  /\ requests < MaxAttempts
  /\ requests' = requests + 1
  /\ UNCHANGED result

Return(value) ==
  /\ result = "pending"
  /\ value = "data" => requests > 0
  /\ value = "exhausted" => requests >= MaxAttempts
  /\ result' = value
  /\ UNCHANGED requests

Next == Request \/ \E value \in Results : Return(value)

Safety == Init /\ [][Next]_call
Spec == Safety /\ <>(result # "pending")

==============================================================================
