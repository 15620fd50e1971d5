------------------------------ MODULE JobLedger ------------------------------
(***************************************************************************)
(* What the cron process promises about its fetch jobs, whatever happens   *)
(* to clocks, contexts, the ECB, the database and the process itself:      *)
(*                                                                         *)
(*   - a job ends once, as "succeeded", "failed" or "lost" (the process    *)
(*     died or exited under it), and a verdict never changes;              *)
(*   - an answer is written to the table at most once, only after the job  *)
(*     got it, never when it is empty;                                     *)
(*   - a job succeeds only when its answer is in the table or was empty;   *)
(*   - nothing is promised of the other verdicts: the answer of a failed   *)
(*     or lost job may be in the table, or get there later.                *)
(*                                                                         *)
(* FetchWorker implements this specification.                              *)
(***************************************************************************)
CONSTANT Runs

VARIABLES
  outcome,    \* [Runs -> {"idle", "running", "succeeded", "failed", "lost"}]
  answer,     \* [Runs -> {"none", "empty", "data"}]
  stored      \* the jobs whose answer is in the table

ledger == <<outcome, answer, stored>>

Init ==
  /\ outcome = [r \in Runs |-> "idle"]
  /\ answer  = [r \in Runs |-> "none"]
  /\ stored  = {}

Begin(r) ==
  /\ outcome[r] = "idle"
  /\ outcome' = [outcome EXCEPT ![r] = "running"]
  /\ UNCHANGED <<answer, stored>>

\* The answer arrives; an empty one ends the job at once.
Receive(r) ==
  /\ outcome[r] = "running"
  /\ answer[r] = "none"
  /\ UNCHANGED stored
  /\ \/ /\ answer' = [answer EXCEPT ![r] = "data"]
        /\ UNCHANGED outcome
     \/ /\ answer' = [answer EXCEPT ![r] = "empty"]
        /\ outcome' = [outcome EXCEPT ![r] = "succeeded"]

Store(r) ==
  /\ answer[r] = "data"
  /\ r \notin stored
  /\ outcome[r] # "succeeded"
  /\ stored' = stored \cup {r}
  /\ UNCHANGED <<outcome, answer>>

Succeed(r) ==
  /\ outcome[r] = "running"
  /\ r \in stored
  /\ outcome' = [outcome EXCEPT ![r] = "succeeded"]
  /\ UNCHANGED <<answer, stored>>

Fail(r) ==
  /\ outcome[r] = "running"
  /\ outcome' = [outcome EXCEPT ![r] = "failed"]
  /\ UNCHANGED <<answer, stored>>

\* The process goes away: every running job is lost with it.
Lose ==
  /\ outcome' = [r \in Runs |-> IF outcome[r] = "running" THEN "lost" ELSE outcome[r]]
  /\ UNCHANGED <<answer, stored>>

Next ==
  \/ \E r \in Runs : Begin(r) \/ Receive(r) \/ Store(r) \/ Succeed(r) \/ Fail(r)
  \/ Lose

Spec == Init /\ [][Next]_ledger

==============================================================================
