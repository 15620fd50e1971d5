--------------------------- MODULE MCFetchWorker ---------------------------
(* Small instances of FetchWorker for TLC. *)
EXTENDS FetchWorker, TLC

CONSTANTS r1, r2, r3

\* The configuration may name the base currency in either case.
MCCodes == {"usd", "USD", "EUR"}
MCToUpper == [c \in MCCodes |-> IF c = "usd" THEN "USD" ELSE c]

RunSymmetry == Permutations(Runs)
=============================================================================
