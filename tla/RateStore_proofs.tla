--------------------------- MODULE RateStore_proofs ---------------------------
(***************************************************************************)
(* Facts about the calendar and the store operators, and what the two      *)
(* statements of the repository make of each other's work, for any table.  *)
(***************************************************************************)
EXTENDS RateStore, TLAPS

\* The calendar date of an instant is an integer.
LEMMA DayOfInt == ASSUME NEW a \in Int PROVE DayOf(a) \in Int
  BY TicksPerDayAssumption DEF DayOf

\* A later instant has the same or a later date.
LEMMA DayOfMonotone ==
  ASSUME NEW a \in Int, NEW b \in Int, a <= b
  PROVE  DayOf(a) <= DayOf(b)
  BY TicksPerDayAssumption, SMTT(30) DEF DayOf

\* The clock starts on day 0.
LEMMA DayOfZero == DayOf(0) = 0
  BY TicksPerDayAssumption, SMTT(30) DEF DayOf

\* No row loses an entry.
LEMMA SaveKeeps ==
  ASSUME NEW table, NEW d, NEW b, NEW o, NEW id \in DOMAIN table
  PROVE  DOMAIN table[id] \subseteq DOMAIN Save(table, d, b, o)[id]
  BY DEF Save, Concat

\* The row that is written has every entry of the object.
LEMMA SaveWrites ==
  ASSUME NEW table, NEW d, NEW b, NEW o
  PROVE  DOMAIN o \subseteq DOMAIN Save(table, d, b, o)[<<d, b>>]
  BY DEF Save, Concat

\* Every entry of the new table is an entry of o in the written row or an entry
\* of the old table.
LEMMA SaveEntries ==
  ASSUME NEW table, NEW d, NEW b, NEW o,
         NEW id \in DOMAIN Save(table, d, b, o),
         NEW k \in DOMAIN Save(table, d, b, o)[id]
  PROVE  \/ /\ id = <<d, b>>
            /\ k \in DOMAIN o
            /\ Save(table, d, b, o)[id][k] = o[k]
         \/ /\ id \in DOMAIN table
            /\ k \in DOMAIN table[id]
            /\ Save(table, d, b, o)[id][k] = table[id][k]
  <1>1. CASE id # <<d, b>>
    BY <1>1 DEF Save
  <1>2. CASE id = <<d, b>> /\ id \in DOMAIN table
    <2>1. Save(table, d, b, o)[id] = Concat(table[id], o)
      BY <1>2 DEF Save
    <2>2. QED
      BY <1>2, <2>1 DEF Concat
  <1>3. CASE id = <<d, b>> /\ id \notin DOMAIN table
    BY <1>3 DEF Save
  <1>4. QED
    BY <1>1, <1>2, <1>3

\* A row is a function when the rows of the table and o are.
LEMMA SaveFunction ==
  ASSUME NEW table, NEW d, NEW b, NEW o, NEW V,
         \A id \in DOMAIN table : table[id] \in [DOMAIN table[id] -> V],
         o \in [DOMAIN o -> V]
  PROVE  \A id \in DOMAIN Save(table, d, b, o) :
           Save(table, d, b, o)[id] \in [DOMAIN Save(table, d, b, o)[id] -> V]
  <1> SUFFICES ASSUME NEW id \in DOMAIN Save(table, d, b, o)
               PROVE  Save(table, d, b, o)[id] \in [DOMAIN Save(table, d, b, o)[id] -> V]
    OBVIOUS
  <1>1. CASE id # <<d, b>>
    BY <1>1 DEF Save
  <1>2. CASE id = <<d, b>> /\ id \in DOMAIN table
    <2>1. Save(table, d, b, o)[id] = Concat(table[id], o)
      BY <1>2 DEF Save
    <2>2. QED
      BY <1>2, <2>1 DEF Concat
  <1>3. CASE id = <<d, b>> /\ id \notin DOMAIN table
    BY <1>3 DEF Save
  <1>4. QED
    BY <1>1, <1>2, <1>3

\* The dates of a search's result are the dates of the rows it keeps.
LEMMA DatesOfSearch ==
  ASSUME NEW table, NEW base, NEW target, NEW from, NEW to,
         \A id \in DOMAIN table : id = <<id[1], id[2]>>
  PROVE  LET found == FindInInterval(table, base, target, from, to)
             kept  == RowsInInterval(table, base, target, from, to)
         IN  /\ \A record \in found : <<record.date, base>> \in kept
             /\ \A date : <<date, base>> \in kept => \E record \in found : record.date = date
  <1> DEFINE kept == RowsInInterval(table, base, target, from, to)
             rec(id) == [date |-> id[1], rate |-> table[id][CurrencyKey(target)]]
  <1>1. \A id \in kept : id = <<id[1], base>>
    BY DEF RowsInInterval
  <1>2. FindInInterval(table, base, target, from, to) = {rec(id) : id \in kept}
    BY DEF FindInInterval
  <1> HIDE DEF kept
  <1>3. \A id \in kept : rec(id).date = id[1] /\ <<id[1], base>> \in kept
    BY <1>1
  <1>4. \A date : <<date, base>> \in kept => rec(<<date, base>>).date = date
    OBVIOUS
  <1> HIDE DEF rec
  <1>5. QED
    BY <1>2, <1>3, <1>4 DEF kept

------------------------------------------------------------------------------
(* What the repository's integration test asserts of a few rows, for any   *)
(* table with primary keys <<date, base>>.                                 *)

\* The row a Save writes, and the others.
LEMMA SavedRow ==
  ASSUME NEW table, NEW d, NEW b, NEW o, NEW k
  PROVE  LET row == Save(table, d, b, o)[<<d, b>>]
         IN  /\ k \in DOMAIN row <=>
                  \/ k \in DOMAIN o
                  \/ <<d, b>> \in DOMAIN table /\ k \in DOMAIN table[<<d, b>>]
             /\ k \in DOMAIN o => row[k] = o[k]
             /\ k \notin DOMAIN o /\ <<d, b>> \in DOMAIN table /\ k \in DOMAIN table[<<d, b>>] =>
                  row[k] = table[<<d, b>>][k]
  <1> DEFINE id == <<d, b>>
             row == Save(table, d, b, o)[id]
  <1>1. CASE id \in DOMAIN table
    <2>1. row = Concat(table[id], o)
      BY <1>1 DEF Save
    <2> HIDE DEF row, id
    <2>2. QED
      BY <1>1, <2>1 DEF Concat, row, id
  <1>2. CASE id \notin DOMAIN table
    BY <1>2 DEF Save
  <1>3. QED
    BY <1>1, <1>2

\* "Upsert merges JSONB" and "insert new": after a Save a search has what it had before, but
\* with the saved rate, if there is one, at the date of the Save.
THEOREM SearchAfterSave ==
  ASSUME NEW table, \A id \in DOMAIN table : id = <<id[1], id[2]>>,
         NEW d, NEW b, NEW o, NEW target, NEW from, NEW to
  PROVE  LET before == FindInInterval(table, b, target, from, to)
             saved  == IF DayOf(d) \in from..to
                       THEN {[date |-> d, rate |-> o[CurrencyKey(target)]]} ELSE {}
         IN  FindInInterval(Save(table, d, b, o), b, target, from, to) =
               IF CurrencyKey(target) \in DOMAIN o
               THEN {record \in before : record.date # d} \cup saved
               ELSE before
  <1> DEFINE new == Save(table, d, b, o)
             key == CurrencyKey(target)
             id0 == <<d, b>>
             Kept(t) == RowsInInterval(t, b, target, from, to)
             Rec(t, id) == [date |-> id[1], rate |-> t[id][key]]
             saved == IF DayOf(d) \in from..to THEN {[date |-> d, rate |-> o[key]]} ELSE {}
  <1>1. /\ DOMAIN new = DOMAIN table \cup {id0}
        /\ \A id \in DOMAIN table : id # id0 => new[id] = table[id]
    BY DEF Save
  <1>2. /\ \A t : FindInInterval(t, b, target, from, to) = {Rec(t, id) : id \in Kept(t)}
        /\ \A t, id : id \in Kept(t) <=> /\ id \in DOMAIN t
                                         /\ DayOf(id[1]) \in from..to
                                         /\ id[2] = b
                                         /\ key \in DOMAIN t[id]
    BY DEF FindInInterval, RowsInInterval
  <1>3. LET had == id0 \in DOMAIN table /\ key \in DOMAIN table[id0]
        IN  /\ key \in DOMAIN new[id0] <=> (key \in DOMAIN o \/ had)
            /\ key \in DOMAIN o => new[id0][key] = o[key]
            /\ key \notin DOMAIN o /\ had => new[id0][key] = table[id0][key]
    BY SavedRow
  <1> HIDE DEF new, key, Kept
  <1>4. ASSUME NEW id, id # id0
        PROVE  /\ id \in Kept(new) <=> id \in Kept(table)
               /\ id \in Kept(table) => Rec(new, id) = Rec(table, id)
    BY <1>1, <1>2, <1>4
  <1>5. /\ id0 \in Kept(new) <=> DayOf(d) \in from..to /\ key \in DOMAIN new[id0]
        /\ id0 \in Kept(table) <=>
             DayOf(d) \in from..to /\ id0 \in DOMAIN table /\ key \in DOMAIN table[id0]
        /\ \A t : Rec(t, id0) = [date |-> d, rate |-> t[id0][key]]
    BY <1>1, <1>2
  <1>6. \A id \in Kept(table) : id # id0 <=> Rec(table, id).date # d
    BY <1>2
  <1> HIDE DEF id0, Rec
  <1>7. CASE key \notin DOMAIN o
    <2>1. \A id : id \in Kept(new) <=> id \in Kept(table)
      BY <1>3, <1>4, <1>5, <1>7
    <2>2. \A id \in Kept(table) : Rec(new, id) = Rec(table, id)
      BY <1>3, <1>4, <1>5, <1>7
    <2>3. Kept(new) = Kept(table)
      BY <2>1 DEF Kept, RowsInInterval
    <2>4. {Rec(new, id) : id \in Kept(new)} = {Rec(table, id) : id \in Kept(table)}
      BY <2>2, <2>3
    <2>5. FindInInterval(new, b, target, from, to) = FindInInterval(table, b, target, from, to)
      BY <1>2, <2>4, Zenon
    <2>6. QED
      BY <1>7, <2>5 DEF new, key
  <1>8. CASE key \in DOMAIN o
    <2>1. {record \in {Rec(table, id) : id \in Kept(table)} : record.date # d} =
            {Rec(new, id) : id \in Kept(new) \ {id0}}
      BY <1>4, <1>6
    <2>2. {Rec(new, id) : id \in Kept(new) \cap {id0}} = saved
      BY <1>3, <1>5, <1>8
    <2>3. {Rec(new, id) : id \in Kept(new)} =
            {Rec(new, id) : id \in Kept(new) \ {id0}} \cup {Rec(new, id) : id \in Kept(new) \cap {id0}}
      OBVIOUS
    <2>4. QED
      BY <1>2, <1>8, <2>1, <2>2, <2>3 DEF new, key
  <1>9. QED
    BY <1>7, <1>8

\* "Different base_currency isolated": a search only sees what is saved for its base.
THEOREM BasesAreIsolated ==
  ASSUME NEW table, NEW d, NEW b, NEW o, NEW base, base # b, NEW target, NEW from, NEW to
  PROVE  FindInInterval(Save(table, d, b, o), base, target, from, to) =
           FindInInterval(table, base, target, from, to)
  <1> DEFINE new == Save(table, d, b, o)
             Kept(t) == RowsInInterval(t, base, target, from, to)
  <1>1. ASSUME NEW id, id[2] = base
        PROVE  /\ id \in DOMAIN new <=> id \in DOMAIN table
               /\ id \in DOMAIN table => new[id] = table[id]
    <2>1. id # <<d, b>>
      BY <1>1
    <2>2. QED
      BY <2>1 DEF Save
  <1> HIDE DEF new
  <1>2. ASSUME NEW id PROVE id \in Kept(new) <=> id \in Kept(table)
    BY <1>1 DEF RowsInInterval
  <1>3. \A id \in Kept(table) : new[id] = table[id]
    BY <1>1 DEF RowsInInterval
  <1>4. Kept(new) = Kept(table)
    BY <1>2
  <1>5. FindInInterval(new, base, target, from, to) = FindInInterval(table, base, target, from, to)
    BY <1>3, <1>4 DEF FindInInterval
  <1>6. QED
    BY <1>5 DEF new

\* An INSERT that commits after another, of another run or another life of the process, leaves
\* the table it had left before it: the order does not matter, unless they are of one row and
\* disagree.
THEOREM SavesCommute ==
  ASSUME NEW table, NEW d1, NEW b1, NEW o1, NEW d2, NEW b2, NEW o2,
         <<d1, b1>> = <<d2, b2>> => \A k \in DOMAIN o1 \cap DOMAIN o2 : o1[k] = o2[k],
         o1 = [k \in DOMAIN o1 |-> o1[k]], o2 = [k \in DOMAIN o2 |-> o2[k]]
  PROVE  Save(Save(table, d1, b1, o1), d2, b2, o2) = Save(Save(table, d2, b2, o2), d1, b1, o1)
  <1> DEFINE i1 == <<d1, b1>>
             i2 == <<d2, b2>>
             m1 == Save(table, d1, b1, o1)
             m2 == Save(table, d2, b2, o2)
             x == Save(m1, d2, b2, o2)
             y == Save(m2, d1, b1, o1)
             both == DOMAIN table \cup {i1, i2}
  <1>1. DOMAIN m1 = DOMAIN table \cup {i1} /\ DOMAIN m2 = DOMAIN table \cup {i2}
    BY DEF Save
  <1>2. x = [id \in DOMAIN m1 \cup {i2} |-> x[id]] /\ y = [id \in DOMAIN m2 \cup {i1} |-> y[id]]
    BY DEF Save
  <1>3. /\ \A id \in DOMAIN table : id # i1 => m1[id] = table[id]
        /\ \A id \in DOMAIN table : id # i2 => m2[id] = table[id]
        /\ \A id \in DOMAIN m1 : id # i2 => x[id] = m1[id]
        /\ \A id \in DOMAIN m2 : id # i1 => y[id] = m2[id]
    BY DEF Save
  <1>4. /\ m1[i1] = IF i1 \in DOMAIN table THEN Concat(table[i1], o1) ELSE o1
        /\ m2[i2] = IF i2 \in DOMAIN table THEN Concat(table[i2], o2) ELSE o2
        /\ x[i2] = IF i2 \in DOMAIN m1 THEN Concat(m1[i2], o2) ELSE o2
        /\ y[i1] = IF i1 \in DOMAIN m2 THEN Concat(m2[i1], o1) ELSE o1
    BY DEF Save
  <1> HIDE DEF i1, i2, m1, m2, x, y
  <1>5. ASSUME NEW id \in both PROVE x[id] = y[id]
    <2>1. CASE id \notin {i1, i2}
      BY <1>1, <1>3, <2>1
    <2>2. CASE i1 # i2 /\ id \in {i1, i2}
      BY <1>1, <1>3, <1>4, <2>2
    <2>3. CASE i1 = i2 /\ id = i1
      <3>1. \A k \in DOMAIN o1 \cap DOMAIN o2 : o1[k] = o2[k]
        BY <2>3 DEF i1, i2
      <3>2. Concat(o1, o2) = Concat(o2, o1)
        BY <3>1 DEF Concat
      <3>3. \A r : Concat(Concat(r, o1), o2) = Concat(Concat(r, o2), o1)
        BY <3>1 DEF Concat
      <3>4. QED
        BY <1>1, <1>4, <2>3, <3>2, <3>3
    <2>4. QED
      BY <2>1, <2>2, <2>3
  <1>6. x = y
    BY <1>1, <1>2, <1>5
  <1>7. QED
    BY <1>6 DEF x, y, m1, m2

===============================================================================
