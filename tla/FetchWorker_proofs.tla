-------------------------- MODULE FetchWorker_proofs --------------------------
(***************************************************************************)
(* Safety of the cron process for any number of runs, any rates, any clock *)
(* bound and any length of a day.                                          *)
(*                                                                         *)
(* The inductive invariant is TypeOK, what a run carries at each place of  *)
(* its way (RunOK) and what the table owes to the applied INSERTs          *)
(* (TableOK); RunOK is what TypeOK lacks to be inductive: an INSERT that   *)
(* was sent holds marshalled values of the two days its run asked for, and *)
(* no run changes its answer or its date once the INSERT is out.           *)
(***************************************************************************)
EXTENDS FetchWorker, RateStore_proofs

Unanswered == {"unborn", "spawned", "dated", "asking", "calling"}

RunOK(r) ==
  /\ dayNow[r] <= clock
  /\ pc[r] \in {"asking", "calling"} => DayOf(dayNow[r]) - 1 <= from[r]
  /\ pc[r] \in Unanswered => DOMAIN rates[r] = {} /\ stmt[r] = "none"
  /\ pc[r] = "saving" => DOMAIN rates[r] # {} /\ stmt[r] = "none"
  /\ pc[r] = "executing" \/ stmt[r] # "none" => DOMAIN rates[r] # {}
  /\ pc[r] = "succeeded" => DOMAIN rates[r] = {} \/ stmt[r] = "applied"
  /\ stmt[r] # "none" => \A k \in DOMAIN rates[r] : rates[r][k] \in Rates
  /\ \A k \in DOMAIN rates[r] :
       k.kind = "date" /\ k.day \in (DayOf(dayNow[r]) - 1)..DayOf(dayNow[r])

RunsOK == \A r \in Runs : RunOK(r)

AppliedAreInRows ==
  \A r \in Runs : stmt[r] = "applied" =>
    /\ <<dayNow[r], Base>> \in DOMAIN rows
    /\ DOMAIN rates[r] \subseteq DOMAIN rows[<<dayNow[r], Base>>]

TypeInv  == TypeOK /\ RunsOK
TableInv == AppliedAreInRows /\ RowsComeFromRuns

IInv == TypeInv /\ TableInv /\ CronRunsDrainBeforeClose

------------------------------------------------------------------------------
(* What an answer of the ECB is.                                           *)

\* The last day of the model is a number, and none is before day 0.
LEMMA DaysFacts == DayOf(MaxClock) \in Int /\ 0 <= DayOf(MaxClock)
  <1>1. MaxClock \in Int /\ 0 \in Int /\ 0 <= MaxClock
    BY FetchWorkerAssumption
  <1>2. QED
    BY <1>1, DayOfInt, DayOfMonotone, DayOfZero

\* The date of an instant of the model is a date of the model.
LEMMA InstantDay ==
  ASSUME NEW t \in Instants
  PROVE  DayOf(t) \in Int /\ 0 <= DayOf(t) /\ DayOf(t) <= DayOf(MaxClock)
  <1>1. t \in Int /\ 0 <= t /\ t <= MaxClock /\ MaxClock \in Int
    BY FetchWorkerAssumption DEF Instants
  <1>2. QED
    BY <1>1, DayOfInt, DayOfMonotone, DayOfZero

\* An answer for days of the calendar is a JSON object keyed by those days.
LEMMA AnswersAreObjects ==
  ASSUME NEW first \in Days, NEW last \in Days, NEW answer \in Answers(first, last)
  PROVE  /\ IsObject(answer, Values)
         /\ \A k \in DOMAIN answer : k.kind = "date" /\ k.day \in first..last
  <1>1. PICK days \in SUBSET (first..last) : answer \in [{DateKey(d) : d \in days} -> Values]
    BY DEF Answers
  <1>2. first..last \subseteq Days
    BY DaysFacts DEF Days
  <1>3. DOMAIN answer = {DateKey(d) : d \in days}
    BY <1>1
  <1>4. IsObject(answer, Values)
    BY <1>1, <1>2, <1>3 DEF IsObject
  <1>5. \A k \in DOMAIN answer : k.kind = "date" /\ k.day \in first..last
    BY <1>3 DEF DateKey
  <1>6. QED
    BY <1>4, <1>5

------------------------------------------------------------------------------
(* Type correctness.                                                       *)

\* Types and the shape of runs hold before the launch.
LEMMA TypeInit == Init => TypeInv
  <1> SUFFICES ASSUME Init PROVE TypeInv
    OBVIOUS
  <1>1. TypeOK
    <2>1. 0 \in Instants /\ 0 \in Days
      BY FetchWorkerAssumption, DaysFacts DEF Instants, Days
    <2>2. QED
      BY <2>1 DEF Init, TypeOK, Places, Working, Ended, EmptyMap, IsObject, MaxInterrupts
  <1>2. RunsOK
    BY DEF Init, RunsOK, RunOK, Unanswered, EmptyMap
  <1>3. QED
    BY <1>1, <1>2 DEF TypeInv

\* Every step keeps them: one case per action.
LEMMA TypeStep == TypeInv /\ [Next]_vars => TypeInv'
  <1> SUFFICES ASSUME TypeInv, [Next]_vars PROVE TypeInv'
    OBVIOUS
  <1> USE FetchWorkerAssumption
  <1>1. CASE Tick
    <2>1. TypeOK'
      BY <1>1 DEF TypeInv, TypeOK, Tick, process, database, runVars, Instants
    <2>2. RunsOK'
      BY <1>1 DEF TypeInv, TypeOK, RunsOK, RunOK, Tick, process, database, runVars, Instants
    <2>3. QED
      BY <2>1, <2>2 DEF TypeInv
  <1>2. ASSUME NEW r \in Runs, NEW l \in {"startup", "cron"}, Spawn(r, l),
               phase' \in {"up"}, interrupts' \in 0..MaxInterrupts
        PROVE  TypeInv'
    <2>1. TypeOK'
      BY <1>2 DEF TypeInv, TypeOK, Spawn, process, database, Places, Working, Ended, Instants
    <2>2. RunsOK'
      BY <1>2 DEF TypeInv, TypeOK, RunsOK, RunOK, Unanswered, Spawn, process, database
    <2>3. QED
      BY <2>1, <2>2 DEF TypeInv
  <1>3. ASSUME NEW r \in Runs, Launch(r) \/ CronFires(r) PROVE TypeInv'
    BY <1>2, <1>3 DEF Launch, CronFires, TypeInv, TypeOK, process, MaxInterrupts
  <1>4. ASSUME NEW r \in Runs, ReadNow(r) PROVE TypeInv'
    <2>1. TypeOK'
      BY <1>4 DEF TypeInv, TypeOK, ReadNow, Goto, process, database, Places, Working, Ended
    <2>2. RunsOK'
      BY <1>4 DEF TypeInv, TypeOK, RunsOK, RunOK, Unanswered, ReadNow, Goto, process, database,
           Instants
    <2>3. QED
      BY <2>1, <2>2 DEF TypeInv
  <1>5. ASSUME NEW r \in Runs, ReadYesterday(r) PROVE TypeInv'
    <2>1. clock \in Instants /\ dayNow[r] \in Instants /\ dayNow[r] <= clock
      BY DEF TypeInv, TypeOK, RunsOK, RunOK
    <2>2. DayOf(clock) - 1 \in Days
      BY <2>1, InstantDay, DaysFacts DEF Days
    <2>3. DayOf(dayNow[r]) - 1 <= DayOf(clock) - 1
      BY <2>1, InstantDay, DayOfMonotone DEF Instants
    <2>4. TypeOK'
      BY <1>5, <2>2 DEF TypeInv, TypeOK, ReadYesterday, Goto, process, database, Places,
           Working, Ended
    <2>5. RunsOK'
      BY <1>5, <2>3 DEF TypeInv, TypeOK, RunsOK, RunOK, Unanswered, ReadYesterday, Goto,
           process, database
    <2>6. QED
      BY <2>4, <2>5 DEF TypeInv
  <1>6. ASSUME NEW r \in Runs, CallEcb(r) PROVE TypeInv'
    <2>1. TypeOK'
      BY <1>6 DEF TypeInv, TypeOK, CallEcb, Goto, process, database, Places, Working, Ended
    <2>2. RunsOK'
      BY <1>6 DEF TypeInv, TypeOK, RunsOK, RunOK, Unanswered, CallEcb, Goto, process, database
    <2>3. QED
      BY <2>1, <2>2 DEF TypeInv
  <1>7. ASSUME NEW r \in Runs, FetchFails(r) PROVE TypeInv'
    <2>1. TypeOK'
      BY <1>7 DEF TypeInv, TypeOK, FetchFails, Goto, process, database, Places, Working, Ended
    <2>2. RunsOK'
      BY <1>7 DEF TypeInv, TypeOK, RunsOK, RunOK, Unanswered, FetchFails, Goto, process, database
    <2>3. QED
      BY <2>1, <2>2 DEF TypeInv
  <1>8. ASSUME NEW r \in Runs, FetchReturns(r) PROVE TypeInv'
    <2>1. PICK answer \in Answers(from[r], DayOf(dayNow[r])) :
            /\ rates' = [rates EXCEPT ![r] = answer]
            /\ Goto(r, IF DOMAIN answer = {} THEN "succeeded" ELSE "saving")
      BY <1>8 DEF FetchReturns
    <2>2. dayNow[r] \in Instants /\ from[r] \in Days /\ DayOf(dayNow[r]) - 1 <= from[r]
      BY <1>8 DEF TypeInv, TypeOK, RunsOK, RunOK, FetchReturns
    <2>3. DayOf(dayNow[r]) \in Days /\ DayOf(dayNow[r]) \in Int /\ from[r] \in Int
      BY <2>2, InstantDay, DaysFacts DEF Days
    <2>4. /\ IsObject(answer, Values)
          /\ \A k \in DOMAIN answer : k.kind = "date" /\ k.day \in from[r]..DayOf(dayNow[r])
      BY <2>2, <2>3, AnswersAreObjects
    <2>5. \A k \in DOMAIN answer :
            k.kind = "date" /\ k.day \in (DayOf(dayNow[r]) - 1)..DayOf(dayNow[r])
      BY <2>2, <2>3, <2>4
    <2>6. TypeOK'
      BY <1>8, <2>1, <2>4 DEF TypeInv, TypeOK, FetchReturns, Goto, process, database, Places,
           Working, Ended
    <2>7. RunsOK'
      <3>1. ASSUME NEW q \in Runs PROVE RunOK(q)'
        BY <1>8, <2>1, <2>5 DEF TypeInv, TypeOK, RunsOK, RunOK, Unanswered, FetchReturns, Goto,
             process, database
      <3>2. QED
        BY <3>1 DEF RunsOK
    <2>8. QED
      BY <2>6, <2>7 DEF TypeInv
  <1>9. ASSUME NEW r \in Runs, SaveRefused(r) PROVE TypeInv'
    <2>1. TypeOK'
      BY <1>9 DEF TypeInv, TypeOK, SaveRefused, Goto, process, database, Places, Working, Ended
    <2>2. RunsOK'
      BY <1>9 DEF TypeInv, TypeOK, RunsOK, RunOK, Unanswered, SaveRefused, Goto, process, database
    <2>3. QED
      BY <2>1, <2>2 DEF TypeInv
  <1>10. ASSUME NEW r \in Runs, SaveSent(r) PROVE TypeInv'
    <2>1. TypeOK'
      BY <1>10 DEF TypeInv, TypeOK, SaveSent, Goto, process, database, Places, Working, Ended
    <2>2. \A k \in DOMAIN rates[r] : rates[r][k] \in Rates
      BY <1>10 DEF TypeInv, TypeOK, SaveSent, Marshals, IsObject, Values
    <2>3. RunsOK'
      BY <1>10, <2>2 DEF TypeInv, TypeOK, RunsOK, RunOK, Unanswered, SaveSent, Goto, process,
           database
    <2>4. QED
      BY <2>1, <2>3 DEF TypeInv
  <1>11. ASSUME NEW r \in Runs, SaveAcked(r) PROVE TypeInv'
    <2>1. TypeOK'
      BY <1>11 DEF TypeInv, TypeOK, SaveAcked, Goto, process, database, Places, Working, Ended
    <2>2. RunsOK'
      BY <1>11 DEF TypeInv, TypeOK, RunsOK, RunOK, Unanswered, SaveAcked, Goto, process, database
    <2>3. QED
      BY <2>1, <2>2 DEF TypeInv
  <1>12. ASSUME NEW r \in Runs, SaveFails(r) PROVE TypeInv'
    <2>1. TypeOK'
      BY <1>12 DEF TypeInv, TypeOK, SaveFails, Goto, process, database, Places, Working, Ended
    <2>2. RunsOK'
      BY <1>12 DEF TypeInv, TypeOK, RunsOK, RunOK, Unanswered, SaveFails, Goto, process, database
    <2>3. QED
      BY <2>1, <2>2 DEF TypeInv
  <1>13. ASSUME NEW r \in Runs, Apply(r) PROVE TypeInv'
    <2>1. rows' = Save(rows, dayNow[r], Base, rates[r])
      BY <1>13 DEF Apply
    <2>2. dayNow[r] \in Instants /\ IsObject(rates[r], Rates)
      BY <1>13 DEF TypeInv, TypeOK, RunsOK, RunOK, Apply, IsObject
    <2>3. DOMAIN rows' \subseteq Instants \X {Base}
      <3>1. DOMAIN rows' = DOMAIN rows \cup {<<dayNow[r], Base>>}
        BY <2>1 DEF Save
      <3>2. QED
        BY <2>2, <3>1 DEF TypeInv, TypeOK
    <2>4. \A id \in DOMAIN rows' : IsObject(rows'[id], Rates)
      <3>1. \A id \in DOMAIN rows : rows[id] \in [DOMAIN rows[id] -> Rates]
        BY DEF TypeInv, TypeOK, IsObject
      <3>2. rates[r] \in [DOMAIN rates[r] -> Rates]
        BY <2>2 DEF IsObject
      <3>3. \A id \in DOMAIN rows' : rows'[id] \in [DOMAIN rows'[id] -> Rates]
        BY <2>1, <3>1, <3>2, SaveFunction
      <3>4. \A id \in DOMAIN rows' : \A k \in DOMAIN rows'[id] : k \in {DateKey(d) : d \in Days}
        BY <2>1, <2>2, SaveEntries DEF TypeInv, TypeOK, IsObject
      <3>5. QED
        BY <3>3, <3>4 DEF IsObject
    <2>5. TypeOK'
      <3>1. stmt' \in [Runs -> {"none", "sent", "applied", "dropped"}]
        BY <1>13 DEF TypeInv, TypeOK, Apply
      <3>2. UNCHANGED <<clock, phase, interrupts, pc, trigger, deadline, dayNow, from, rates>>
        BY <1>13 DEF Apply, process, runVars
      <3>3. QED
        BY <2>3, <2>4, <3>1, <3>2 DEF TypeInv, TypeOK
    <2>6. RunsOK'
      BY <1>13 DEF TypeInv, TypeOK, RunsOK, RunOK, Unanswered, Apply, process, runVars
    <2>7. QED
      BY <2>5, <2>6 DEF TypeInv
  <1>14. ASSUME NEW r \in Runs, Drop(r) PROVE TypeInv'
    BY <1>14 DEF TypeInv, TypeOK, RunsOK, RunOK, Unanswered, Drop, process, runVars
  <1>15. CASE Interrupt
    BY <1>15 DEF TypeInv, TypeOK, RunsOK, RunOK, Interrupt, database, runVars, MaxInterrupts
  <1>16. CASE Vanish
    BY <1>16 DEF TypeInv, TypeOK, RunsOK, RunOK, Unanswered, Vanish, database, Places, Working, Ended
  <1>17. CASE BeginStop \/ StopReturns \/ ReleaseSignals \/ CloseDb
    BY <1>17 DEF TypeInv, TypeOK, RunsOK, RunOK, BeginStop, StopReturns, ReleaseSignals,
         CloseDb, MoveTo, database, runVars
  <1>18. CASE UNCHANGED vars
    BY <1>18 DEF TypeInv, TypeOK, RunsOK, RunOK, vars
  <1>19. QED
    BY <1>1, <1>2, <1>3, <1>4, <1>5, <1>6, <1>7, <1>8, <1>9, <1>10, <1>11, <1>12, <1>13, <1>14, <1>15, <1>16, <1>17, <1>18
       DEF Next, RunStep, MainStep, Exit, Kill, StayDown

\* TypeOK holds in every state: among the rest, no NaN reaches the table and
\* every key of it is a day of the calendar.
THEOREM TypeCorrect == Safety => []TypeOK
  <1>1. TypeInv => TypeOK
    BY DEF TypeInv
  <1>2. QED
    BY TypeInit, TypeStep, <1>1, PTL DEF Safety

------------------------------------------------------------------------------
(* The table.                                                              *)

\* Statements and answers stay, the clock and the dates too: a step that leaves
\* the table, the answers of the applied runs and their dates alone.
LEMMA TableFrame ==
  ASSUME TypeInv, TableInv, UNCHANGED rows,
         \A q \in Runs : stmt'[q] = "applied" <=> stmt[q] = "applied",
         \A q \in Runs : stmt[q] # "none" => dayNow'[q] = dayNow[q] /\ rates'[q] = rates[q]
  PROVE  TableInv'
  <1>1. AppliedAreInRows'
    BY DEF TableInv, AppliedAreInRows
  <1>2. RowsComeFromRuns'
    BY DEF TableInv, RowsComeFromRuns
  <1>3. QED
    BY <1>1, <1>2 DEF TableInv

\* Every step keeps what is known of the table and of the INSERTs on their way to it.
LEMMA TableStep == TypeInv /\ TableInv /\ [Next]_vars => TableInv'
  <1> SUFFICES ASSUME TypeInv, TableInv, [Next]_vars PROVE TableInv'
    OBVIOUS
  <1> DEFINE Quiet ==
        /\ UNCHANGED rows
        /\ \A q \in Runs : stmt'[q] = "applied" <=> stmt[q] = "applied"
        /\ \A q \in Runs : stmt[q] # "none" => dayNow'[q] = dayNow[q] /\ rates'[q] = rates[q]
  <1>1. ASSUME NEW r \in Runs, RunStep(r) PROVE Quiet
    BY <1>1 DEF TypeInv, TypeOK, RunsOK, RunOK, Unanswered, RunStep, ReadNow, ReadYesterday, CallEcb, FetchFails,
         FetchReturns, SaveRefused, SaveSent, SaveAcked, SaveFails, database
  <1>2. ASSUME NEW r \in Runs, Launch(r) \/ CronFires(r) \/ Drop(r) PROVE Quiet
    BY <1>2 DEF TypeInv, TypeOK, Launch, CronFires, Spawn, Drop, database, runVars
  <1>3. CASE Tick \/ Interrupt \/ Kill \/ MainStep \/ UNCHANGED vars
    <2> Quiet
      BY <1>3 DEF Tick, Interrupt, Kill, MainStep, BeginStop, StopReturns, ReleaseSignals,
           CloseDb, Exit, Vanish, MoveTo, database, runVars, vars
    <2> QED
      BY TableFrame
  <1>4. ASSUME NEW r \in Runs, Apply(r) PROVE TableInv'
    <2>1. /\ rows' = Save(rows, dayNow[r], Base, rates[r])
          /\ UNCHANGED <<dayNow, rates>>
          /\ stmt' = [stmt EXCEPT ![r] = "applied"]
      BY <1>4 DEF Apply, runVars
    <2>2. stmt \in [Runs -> {"none", "sent", "applied", "dropped"}]
      BY DEF TypeInv, TypeOK
    <2>3. AppliedAreInRows'
      <3>1. DOMAIN rows' = DOMAIN rows \cup {<<dayNow[r], Base>>}
        BY <2>1 DEF Save
      <3>2. DOMAIN rates[r] \subseteq DOMAIN rows'[<<dayNow[r], Base>>]
        BY <2>1, SaveWrites, Zenon
      <3>3. \A id \in DOMAIN rows : DOMAIN rows[id] \subseteq DOMAIN rows'[id]
        BY <2>1, SaveKeeps, Zenon
      <3>4. ASSUME NEW q \in Runs, stmt'[q] = "applied", q # r
            PROVE  /\ <<dayNow[q], Base>> \in DOMAIN rows'
                   /\ DOMAIN rates[q] \subseteq DOMAIN rows'[<<dayNow[q], Base>>]
        BY <2>1, <2>2, <3>1, <3>3, <3>4 DEF TableInv, AppliedAreInRows
      <3>5. QED
        BY <2>1, <3>1, <3>2, <3>4 DEF AppliedAreInRows
    <2>4. RowsComeFromRuns'
      <3>1. SUFFICES ASSUME NEW id \in DOMAIN rows', NEW k \in DOMAIN rows'[id]
                     PROVE  \E q \in Runs : /\ stmt'[q] = "applied"
                                            /\ dayNow[q] = id[1]
                                            /\ k \in DOMAIN rates[q]
                                            /\ rates[q][k] = rows'[id][k]
        BY <2>1 DEF RowsComeFromRuns
      <3>2. CASE id = <<dayNow[r], Base>> /\ k \in DOMAIN rates[r] /\ rows'[id][k] = rates[r][k]
        BY <2>1, <2>2, <3>2
      <3>3. CASE id \in DOMAIN rows /\ k \in DOMAIN rows[id] /\ rows'[id][k] = rows[id][k]
        BY <2>1, <2>2, <3>3 DEF TableInv, RowsComeFromRuns
      <3>4. QED
        BY <2>1, <3>2, <3>3, SaveEntries
    <2>5. QED
      BY <2>3, <2>4 DEF TableInv
  <1>5. QED
    BY <1>1, <1>2, <1>3, <1>4, TableFrame DEF Next, StayDown

\* It is known of the empty table.
LEMMA TableInit == Init => TableInv
  BY DEF Init, TableInv, AppliedAreInRows, RowsComeFromRuns, EmptyMap

\* The invariants of the table follow from the two inductive invariants.
LEMMA TableConsequences ==
  ASSUME TypeInv, TableInv
  PROVE  SuccessIsDurable /\ RowsComeFromRuns /\ RowSpansTwoDays
  <1>1. SuccessIsDurable
    BY DEF TypeInv, RunsOK, RunOK, TableInv, AppliedAreInRows, SuccessIsDurable
  <1>2. RowSpansTwoDays
    BY DEF TypeInv, RunsOK, RunOK, TableInv, RowsComeFromRuns, RowSpansTwoDays
  <1>3. QED
    BY <1>1, <1>2 DEF TableInv

\* What a successful run fetched is in the table and stays there.
THEOREM DurabilityOfSuccess == Safety => []SuccessIsDurable
  BY TypeInit, TypeStep, TableInit, TableStep, TableConsequences, PTL DEF Safety

\* The table holds answers of the ECB to runs that dated the row, nothing else.
THEOREM RowProvenance == Safety => []RowsComeFromRuns
  BY TypeInit, TypeStep, TableInit, TableStep, TableConsequences, PTL DEF Safety

\* Every observation of a row is of the row's day or of the day before.
THEOREM RowDays == Safety => []RowSpansTwoDays
  BY TypeInit, TypeStep, TableInit, TableStep, TableConsequences, PTL DEF Safety

------------------------------------------------------------------------------
(* Shutdown.                                                               *)

\* No scheduled run is in flight once Stop returned, until the next launch.
LEMMA DrainStep ==
  TypeInv /\ CronRunsDrainBeforeClose /\ [Next]_vars => CronRunsDrainBeforeClose'
  <1> SUFFICES ASSUME TypeInv, CronRunsDrainBeforeClose, [Next]_vars
               PROVE  CronRunsDrainBeforeClose'
    OBVIOUS
  <1>1. ASSUME NEW r \in Runs, RunStep(r) PROVE CronRunsDrainBeforeClose'
    <2>1. PICK p \in Places : pc' = [pc EXCEPT ![r] = p]
      BY <1>1 DEF RunStep, ReadNow, ReadYesterday, CallEcb, FetchFails, FetchReturns,
           SaveRefused, SaveSent, SaveAcked, SaveFails, Goto, Places, Working, Ended
    <2>2. pc[r] \in Working /\ UNCHANGED <<phase, trigger>>
      BY <1>1 DEF RunStep, ReadNow, ReadYesterday, CallEcb, FetchFails, FetchReturns,
           SaveRefused, SaveSent, SaveAcked, SaveFails, Goto, Working, process
    <2>3. QED
      BY <2>1, <2>2 DEF CronRunsDrainBeforeClose, Cron, TypeInv, TypeOK
  <1>2. ASSUME NEW r \in Runs, Launch(r) \/ CronFires(r) PROVE CronRunsDrainBeforeClose'
    BY <1>2 DEF Launch, CronFires, CronRunsDrainBeforeClose, process
  <1>3. ASSUME NEW r \in Runs, Apply(r) \/ Drop(r) PROVE CronRunsDrainBeforeClose'
    BY <1>3 DEF Apply, Drop, CronRunsDrainBeforeClose, Cron, process, runVars
  <1>4. CASE Tick \/ Interrupt \/ BeginStop \/ ReleaseSignals \/ CloseDb \/ UNCHANGED vars
    BY <1>4 DEF Tick, Interrupt, BeginStop, ReleaseSignals, CloseDb, MoveTo, process, runVars,
         vars, CronRunsDrainBeforeClose, Cron
  <1>5. CASE StopReturns
    BY <1>5 DEF StopReturns, MoveTo, runVars, CronRunsDrainBeforeClose, Cron
  <1>6. CASE Vanish
    BY <1>6 DEF Vanish, CronRunsDrainBeforeClose, Cron, Working, TypeInv, TypeOK
  <1>7. QED
    BY <1>1, <1>2, <1>3, <1>4, <1>5, <1>6 DEF Next, MainStep, Exit, Kill, StayDown

\* An orderly shutdown takes the pool and the process from no scheduled run.
THEOREM DrainBeforeClose == Safety => []CronRunsDrainBeforeClose
  <1>1. Init => CronRunsDrainBeforeClose
    BY DEF Init, CronRunsDrainBeforeClose, Working
  <1>2. QED
    BY TypeInit, TypeStep, DrainStep, <1>1, PTL DEF Safety

------------------------------------------------------------------------------
(* Steps of the table.                                                     *)

\* No step, of a run, of the server or of the process, loses an observation.
THEOREM ObservationsAreKept == Safety => ObservationsStay
  <1>1. ASSUME [Next]_vars, NEW id \in DOMAIN rows
        PROVE  id \in DOMAIN rows' /\ DOMAIN rows[id] \subseteq DOMAIN rows'[id]
    <2>1. CASE UNCHANGED rows
      BY <2>1
    <2>2. CASE \E r \in Runs : Apply(r)
      <3>1. PICK r \in Runs : rows' = Save(rows, dayNow[r], Base, rates[r])
        BY <2>2 DEF Apply
      <3>2. id \in DOMAIN rows'
        BY <3>1 DEF Save
      <3>3. DOMAIN rows[id] \subseteq DOMAIN rows'[id]
        BY <3>1, SaveKeeps, Zenon
      <3>4. QED
        BY <3>2, <3>3
    <2>3. UNCHANGED rows \/ \E r \in Runs : Apply(r)
      BY <1>1 DEF Next, Tick, Launch, CronFires, Spawn, RunStep, ReadNow, ReadYesterday,
           CallEcb, FetchFails, FetchReturns, SaveRefused, SaveSent, SaveAcked, SaveFails, Drop,
           Interrupt, Kill, MainStep, BeginStop, StopReturns, ReleaseSignals, CloseDb, Exit,
           Vanish, MoveTo, StayDown, Goto, database, vars
    <2>4. QED
      BY <2>1, <2>2, <2>3
  <1>2. [Next]_vars => [\A id \in DOMAIN rows :
           id \in DOMAIN rows' /\ DOMAIN rows[id] \subseteq DOMAIN rows'[id]]_vars
    BY <1>1
  <1>3. QED
    BY <1>2, PTL DEF Safety, ObservationsStay

------------------------------------------------------------------------------
(* The promises of JobLedger.                                              *)

\* The initial states of the job are initial states of the ledger.
LEMMA LedgerInit == Init => Ledger!Init
  BY DEF Init, Ledger!Init, LedgerOutcome, LedgerAnswer, EmptyMap, Working

\* Every step of the job is a step of the ledger or leaves it alone.
LEMMA LedgerStep == TypeInv /\ [Next]_vars => [Ledger!Next]_(Ledger!ledger)
  <1> SUFFICES ASSUME TypeInv, [Next]_vars PROVE [Ledger!Next]_(Ledger!ledger)
    OBVIOUS
  <1> USE DEF Ledger!ledger
  <1>1. ASSUME NEW r \in Runs, ReadNow(r) \/ ReadYesterday(r) \/ SaveSent(r) \/ Drop(r)
        PROVE  UNCHANGED Ledger!ledger
    <2>1. /\ pc[r] \in Working => pc'[r] \in Working
          /\ pc[r] \notin Working => pc'[r] = pc[r]
          /\ \A q \in Runs \ {r} : pc'[q] = pc[q]
          /\ UNCHANGED rates
      BY <1>1 DEF ReadNow, ReadYesterday, SaveSent, Drop, Goto, database, runVars, TypeInv,
           TypeOK, Working
    <2>2. \A q \in Runs : stmt'[q] = "applied" <=> stmt[q] = "applied"
      BY <1>1 DEF ReadNow, ReadYesterday, SaveSent, Drop, Goto, database, runVars, TypeInv,
           TypeOK, RunsOK, RunOK
    <2>3. LedgerOutcome' = LedgerOutcome /\ LedgerAnswer' = LedgerAnswer
      BY <2>1 DEF LedgerOutcome, LedgerAnswer, Working
    <2>4. QED
      BY <2>2, <2>3
  <1>2. ASSUME NEW r \in Runs, Launch(r) \/ CronFires(r) PROVE Ledger!Begin(r)
    <2>1. /\ pc[r] = "unborn" /\ pc' = [pc EXCEPT ![r] = "spawned"]
          /\ UNCHANGED <<stmt, rates>>
      BY <1>2 DEF Launch, CronFires, Spawn, database
    <2>2. /\ LedgerOutcome' = [LedgerOutcome EXCEPT ![r] = "running"]
          /\ LedgerAnswer' = LedgerAnswer
          /\ LedgerOutcome[r] = "idle"
      BY <2>1 DEF TypeInv, TypeOK, LedgerOutcome, LedgerAnswer, Working
    <2>3. QED
      BY <2>1, <2>2 DEF Ledger!Begin
  <1>3. ASSUME NEW r \in Runs, pc[r] \in Working, pc' = [pc EXCEPT ![r] = "failed"],
               UNCHANGED <<stmt, rates>>
        PROVE  Ledger!Fail(r)
    <2>1. /\ LedgerOutcome' = [LedgerOutcome EXCEPT ![r] = "failed"]
          /\ LedgerAnswer' = LedgerAnswer
          /\ LedgerOutcome[r] = "running"
      BY <1>3 DEF TypeInv, TypeOK, LedgerOutcome, LedgerAnswer, Working
    <2>2. QED
      BY <1>3, <2>1 DEF Ledger!Fail
  <1>4. ASSUME NEW r \in Runs, FetchFails(r) \/ SaveRefused(r) \/ SaveFails(r)
        PROVE  Ledger!Fail(r)
    BY <1>3, <1>4 DEF FetchFails, SaveRefused, SaveFails, Goto, database, Working
  <1>5. ASSUME NEW r \in Runs, CallEcb(r) PROVE Ledger!Fail(r) \/ UNCHANGED Ledger!ledger
    <2>1. CASE CtxDone(r)
      BY <1>3, <1>5, <2>1 DEF CallEcb, Goto, database, Working
    <2>2. CASE ~CtxDone(r)
      BY <1>5, <2>2 DEF CallEcb, Goto, database, TypeInv, TypeOK, Working, LedgerOutcome,
           LedgerAnswer
    <2>3. QED
      BY <2>1, <2>2
  <1>6. ASSUME NEW r \in Runs, FetchReturns(r) PROVE Ledger!Receive(r)
    <2>1. /\ pc[r] = "calling" /\ DOMAIN rates[r] = {} /\ UNCHANGED stmt
      BY <1>6 DEF FetchReturns, database, TypeInv, RunsOK, RunOK, Unanswered
    <2>2. PICK answer \in Answers(from[r], DayOf(dayNow[r])) :
            /\ rates' = [rates EXCEPT ![r] = answer]
            /\ pc' = [pc EXCEPT ![r] = IF DOMAIN answer = {} THEN "succeeded" ELSE "saving"]
      BY <1>6 DEF FetchReturns, Goto
    <2>3. LedgerOutcome[r] = "running" /\ LedgerAnswer[r] = "none"
      BY <2>1 DEF LedgerOutcome, LedgerAnswer, Working
    <2>4. CASE DOMAIN answer = {}
      <3>1. /\ LedgerAnswer' = [LedgerAnswer EXCEPT ![r] = "empty"]
            /\ LedgerOutcome' = [LedgerOutcome EXCEPT ![r] = "succeeded"]
        BY <2>1, <2>2, <2>4 DEF TypeInv, TypeOK, LedgerOutcome, LedgerAnswer, Working
      <3>2. QED
        BY <2>1, <2>3, <3>1 DEF Ledger!Receive
    <2>5. CASE DOMAIN answer # {}
      <3>1. /\ LedgerAnswer' = [LedgerAnswer EXCEPT ![r] = "data"]
            /\ LedgerOutcome' = LedgerOutcome
        BY <2>1, <2>2, <2>5 DEF TypeInv, TypeOK, LedgerOutcome, LedgerAnswer, Working
      <3>2. QED
        BY <2>1, <2>3, <3>1 DEF Ledger!Receive
    <2>6. QED
      BY <2>4, <2>5
  <1>7. ASSUME NEW r \in Runs, SaveAcked(r) PROVE Ledger!Succeed(r)
    <2>1. /\ pc[r] = "executing" /\ stmt[r] = "applied" /\ DOMAIN rates[r] # {}
          /\ pc' = [pc EXCEPT ![r] = "succeeded"] /\ UNCHANGED <<stmt, rates>>
      BY <1>7 DEF SaveAcked, Goto, database, TypeInv, RunsOK, RunOK
    <2>2. /\ LedgerOutcome' = [LedgerOutcome EXCEPT ![r] = "succeeded"]
          /\ LedgerAnswer' = LedgerAnswer
          /\ LedgerOutcome[r] = "running"
      BY <2>1 DEF TypeInv, TypeOK, LedgerOutcome, LedgerAnswer, Working
    <2>3. QED
      BY <2>1, <2>2 DEF Ledger!Succeed
  <1>8. ASSUME NEW r \in Runs, Apply(r) PROVE Ledger!Store(r)
    <2>1. /\ stmt[r] = "sent" /\ stmt' = [stmt EXCEPT ![r] = "applied"]
          /\ UNCHANGED <<pc, rates>>
      BY <1>8 DEF Apply, runVars
    <2>2. pc[r] # "succeeded" /\ pc[r] # "unborn" /\ DOMAIN rates[r] # {}
      BY <2>1 DEF TypeInv, RunsOK, RunOK, Unanswered
    <2>3. LedgerAnswer[r] = "data" /\ LedgerOutcome[r] # "succeeded"
      BY <2>2 DEF LedgerOutcome, LedgerAnswer
    <2>4. UNCHANGED <<LedgerOutcome, LedgerAnswer>>
      BY <2>1 DEF LedgerOutcome, LedgerAnswer
    <2>5. {q \in Runs : stmt'[q] = "applied"} = {q \in Runs : stmt[q] = "applied"} \cup {r}
      BY <2>1 DEF TypeInv, TypeOK
    <2>6. QED
      BY <2>1, <2>3, <2>4, <2>5 DEF Ledger!Store
  <1>9. CASE Vanish
    <2>1. /\ pc' = [r \in Runs |-> IF pc[r] \in Working THEN "lost" ELSE pc[r]]
          /\ UNCHANGED <<stmt, rates>>
      BY <1>9 DEF Vanish, database
    <2>2. LedgerAnswer' = LedgerAnswer
      BY <2>1 DEF LedgerAnswer, Working
    <2>3. LedgerOutcome' =
            [r \in Runs |-> IF LedgerOutcome[r] = "running" THEN "lost" ELSE LedgerOutcome[r]]
      BY <2>1 DEF TypeInv, TypeOK, Places, Ended, LedgerOutcome, Working
    <2>4. QED
      BY <2>1, <2>2, <2>3 DEF Ledger!Next, Ledger!Lose
  <1>10. CASE \/ Tick \/ Interrupt \/ BeginStop \/ StopReturns \/ ReleaseSignals \/ CloseDb
              \/ UNCHANGED vars
    BY <1>10 DEF Tick, Interrupt, BeginStop, StopReturns, ReleaseSignals, CloseDb, MoveTo,
         database, runVars, vars, LedgerOutcome, LedgerAnswer
  <1>11. QED
    BY <1>1, <1>2, <1>4, <1>5, <1>6, <1>7, <1>8, <1>9, <1>10
       DEF Next, RunStep, MainStep, Exit, Kill, StayDown, Ledger!Next

\* The process implements JobLedger: one verdict per job, one INSERT at most, and
\* a success only for an answer that is in the table or empty.
THEOREM LedgerRefinement == Safety => LedgerSpec
  BY TypeInit, TypeStep, LedgerInit, LedgerStep, PTL DEF Safety, LedgerSpec, Ledger!Spec

==============================================================================
