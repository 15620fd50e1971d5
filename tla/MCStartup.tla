------------------------------ MODULE MCStartup ------------------------------
(* Small instances of Startup for TLC. *)
EXTENDS Startup

\* The ports of the example configurations, and configurations that go wrong: two
\* sockets on one port, a port out of range, an absent one, a check that fails, an
\* unknown env, a malformed schedule, no timeout, no attempts, a URL of no use.
Ports == [s \in Sockets |->
  CASE s = "server.grpc" -> 1 [] s = "server.metrics" -> 2 [] s = "cron.metrics" -> 3
    [] s = "gateway.http" -> 4 [] OTHER -> 5]

Good == [port |-> Ports, sound |-> Files, env |-> Files, schedule |-> TRUE, timeout |-> TRUE,
         attempts |-> TRUE, address |-> TRUE]

WithPorts(s, m, t, n) == [Good EXCEPT !.port[s] = m, !.port[t] = n]

MCSettings ==
  {[Good EXCEPT !.sound = {"currency"}],
   [Good EXCEPT !.sound = {"currency"}, !.attempts = FALSE, !.address = FALSE],
   [WithPorts("server.metrics", 1, "gateway.http", 3) EXCEPT
      !.schedule = FALSE, !.timeout = FALSE],
   WithPorts("cron.metrics", 2, "gateway.http", 6),
   WithPorts("cron.metrics", 0, "gateway.http", 0),
   [Good EXCEPT !.sound = {"gateway"}], [Good EXCEPT !.env = {}]}
==============================================================================
