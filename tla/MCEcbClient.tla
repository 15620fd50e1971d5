----------------------------- MODULE MCEcbClient -----------------------------
(* Small instances of EcbClient for TLC. *)
EXTENDS EcbClient
=============================================================================
