------------------------------ MODULE EcbDocument ------------------------------
(***************************************************************************)
(* What the ECB client makes of the body of a 200: extractObs and the map  *)
(* fetchOnce builds of it (currency/internal/clients/currency/).           *)
(*                                                                         *)
(* A document is the sequence of its observations.  Repeated DataSets and  *)
(* Series are decoded into the same struct, whose slice of observations    *)
(* grows, so their observations follow each other.  A blank body and a     *)
(* document without observations both are the empty sequence.              *)
(***************************************************************************)
EXTENDS Integers, Sequences

CONSTANTS
  Days,       \* days a TIME_PERIOD may name
  Values,     \* numbers an OBS_VALUE may be, NaN and Inf among them
  Missing,    \* an attribute that is absent or empty
  Garbled,    \* an attribute that does not parse
  MaxObs      \* bound: observations in a document

ASSUME EcbDocumentAssumption ==
  /\ {Missing, Garbled} \cap (Days \cup Values) = {}
  /\ Missing # Garbled
  /\ MaxObs \in Nat

Observations == [day : Days \cup {Missing, Garbled}, value : Values \cup {Missing, Garbled}]
Documents == UNION {[1..n -> Observations] : n \in 0..MaxObs}

NoRates == [day \in {} |-> 0]

Skipped(obs) == Missing \in {obs.day, obs.value}
Malformed(obs) == ~Skipped(obs) /\ Garbled \in {obs.day, obs.value}

\* Mutant of Refused: an observation that does not parse is passed over.
Refused_Never(doc) == FALSE

\* The first observation that does not parse is an error of the whole document.
Refused(doc) == \E i \in DOMAIN doc : Malformed(doc[i])

\* Mutant of Put: the first observation of a day is kept.
Put_KeepsFirst(rates, obs) ==
  [day \in DOMAIN rates \cup {obs.day} |-> IF day \in DOMAIN rates THEN rates[day] ELSE obs.value]

\* rates[p.Date.Format("2006-01-02")] = p.Value
Put(rates, obs) ==
  [day \in DOMAIN rates \cup {obs.day} |-> IF day = obs.day THEN obs.value ELSE rates[day]]

\* extractObs passes over the incomplete observations, fetchOnce puts the others into
\* the map, in the order of the document.
RatesOf(doc) ==
  LET after[n \in 0..Len(doc)] ==
        IF n = 0 THEN NoRates
        ELSE IF Skipped(doc[n]) THEN after[n - 1]
        ELSE Put(after[n - 1], doc[n])
  IN  after[Len(doc)]

\* A reference for RatesOf: days with a complete observation, each with its last one.
Published(rates, doc) ==
  LET Complete(i) == {doc[i].day, doc[i].value} \cap {Missing, Garbled} = {}
  IN  /\ DOMAIN rates \subseteq Days
      /\ \A day \in Days :
           LET at == {i \in DOMAIN doc : Complete(i) /\ doc[i].day = day}
           IN  /\ day \in DOMAIN rates <=> at # {}
               /\ at # {} => rates[day] = doc[CHOOSE i \in at : \A j \in at : j <= i].value

================================================================================
