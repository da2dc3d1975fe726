--------------------------- MODULE MCServerSettings ---------------------------
(* Instances of ServerSettings for TLC. *)
EXTENDS ServerSettings

\* With 2 sleeps a second and integers of 4 and 6 bits: timeouts that are over at
\* once, that end, whose counter wraps around, and whose product does.
MCTimeOuts == {-1, 0, 3, 4, 17}

MCConfigs == {[port |-> 8080, timeOut |-> 3, options |-> None],
              [port |-> 8081, timeOut |-> 0, options |-> "verbose"]}
=============================================================================
