------------------------- MODULE MCGracefulRestart -------------------------
(* The configurations of the run of GracefulRestart: ports on every address *)
(* that come and go, and two hosts on one port by their addresses.          *)
EXTENDS GracefulRestart

A(i, p) == [ip |-> i, port |-> p]
Http == A("", 80)
Https == A("", 443)
One == A("10.0.0.1", 8080)
Other == A("10.0.0.2", 8080)

Addresses == {Http, Https, One, Other}
Configs == {<<Http>>, <<Https>>, <<Http, Https>>, <<Https, Http>>, <<One, Other>>, <<Http, One>>}

\* What ListensWhereToldTo assumes of the configurations.
ASSUME OneAddressPerPort /\ DistinctSections
=============================================================================
