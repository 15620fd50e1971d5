-------------------------- MODULE MCCurrencyServer --------------------------
(* Small instances of CurrencyServer for TLC. *)
EXTENDS CurrencyServer

\* Two currencies, one of them written in either case.
MCCodes == {"usd", "USD", "EUR"}
MCToUpper == [c \in MCCodes |-> IF c = "usd" THEN "USD" ELSE c]
=============================================================================
