------------------------------ MODULE MCRatePath ------------------------------
(* Small instances of RatePath for TLC. *)
EXTENDS RatePath

MCCodes == {"usd", "USD"}
MCToUpper == [c \in MCCodes |-> "USD"]

\* A query the server can answer, one of each kind the gateway stops, and a base of
\* the client's own.
MCQuery(currency, base, from, to) ==
  [currency |-> currency, base |-> base, dateFrom |-> from, dateTo |-> to]

MCQueries ==
  {MCQuery("usd", Blank, 1, 1), MCQuery("usd", Blank, 1, 0), MCQuery("usd", Blank, 0, 1),
   MCQuery("usd", Blank, Malformed, 1), MCQuery("usd", Blank, 1, Malformed),
   MCQuery(Blank, Blank, 1, 1), MCQuery(NotThree, Blank, 1, 1), MCQuery("usd", Blank, Blank, 1),
   MCQuery(NotUtf8, Blank, 1, 1), MCQuery("usd", NotUtf8, 1, 1)}
===============================================================================
