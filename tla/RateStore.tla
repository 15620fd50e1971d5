------------------------------ MODULE RateStore ------------------------------
(***************************************************************************)
(* The table exchange_rates and the two statements the repository runs on  *)
(* it (currency/internal/repository/postgres.go).                          *)
(*                                                                         *)
(* A table is a function from primary keys <<date, base>> to JSON objects; *)
(* a JSON object is a function from object keys to rates.  The UNIQUE      *)
(* constraint of the migration is the functionality of the table.          *)
(*                                                                         *)
(* Instants are numbers of clock ticks and DayOf is the calendar date of   *)
(* an instant.  A JSON object key is a string; the model only tells apart  *)
(* the two kinds of strings the program uses as keys, a formatted date and *)
(* a currency code, which are never equal.                                 *)
(***************************************************************************)
EXTENDS Integers

CONSTANT TicksPerDay        \* clock ticks in a calendar day

ASSUME TicksPerDayAssumption == TicksPerDay \in Nat \ {0}

DayOf(t) == t \div TicksPerDay

DateKey(d)     == [kind |-> "date", day |-> d]
CurrencyKey(c) == [kind |-> "currency", code |-> c]

EmptyMap == [k \in {} |-> 0]

\* JSONB concatenation old || new: the entries of new win.
Concat(old, new) ==
  [k \in DOMAIN old \cup DOMAIN new |->
     IF k \in DOMAIN new THEN new[k] ELSE old[k]]

\* Mutants of Save: the conflict clause overwrites the object, or does nothing.
Save_Overwrites(table, date, base, rates) ==
  [id \in DOMAIN table \cup {<<date, base>>} |->
     IF id = <<date, base>> THEN rates ELSE table[id]]

\* INSERT ... ON CONFLICT (date, base_currency) DO UPDATE.
Save(table, date, base, rates) ==
  LET key == <<date, base>>
  IN  [id \in DOMAIN table \cup {key} |->
         IF id # key THEN table[id]
         ELSE IF key \in DOMAIN table THEN Concat(table[key], rates)
         ELSE rates]

\* The rows the SELECT of FindInInterval keeps.
RowsInInterval(table, base, target, from, to) ==
  {id \in DOMAIN table : /\ DayOf(id[1]) \in from..to
                         /\ id[2] = base
                         /\ CurrencyKey(target) \in DOMAIN table[id]}

\* Its result: the SELECT has no ORDER BY, so a set.
FindInInterval(table, base, target, from, to) ==
  {[date |-> id[1], rate |-> table[id][CurrencyKey(target)]] :
     id \in RowsInInterval(table, base, target, from, to)}

==============================================================================
