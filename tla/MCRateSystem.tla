---------------------------- MODULE MCRateSystem ----------------------------
(* Small instances of RateSystem for TLC. *)
EXTENDS RateSystem

MCCodes == {"USD", "EUR"}
MCToUpper == [c \in MCCodes |-> c]
=============================================================================
