------------------------------ MODULE Admission -----------------------------
(***************************************************************************)
(* What a worker promises about the connections it holds, whatever it does *)
(* with sessions, lists and trees: limits.max_http_session_count and       *)
(* limits.max_connections_per_ip of the configuration.                     *)
(***************************************************************************)
EXTENDS Integers, FiniteSets

CONSTANTS
    Conn,      \* identities of connections
    Origin,    \* client addresses
    Total,     \* how many connections may be open
    Unlimited, \* TRUE when there is no limit per address
    PerOrigin  \* how many may come from one address

VARIABLE open   \* the address each open connection came from

From(o) == {c \in DOMAIN open : open[c] = o}

Init == open = [c \in {} |-> c]

Open(c, o) ==
    /\ c \notin DOMAIN open
    /\ Cardinality(DOMAIN open) < Total
    /\ Unlimited \/ Cardinality(From(o)) < PerOrigin
    /\ open' = [d \in DOMAIN open \cup {c} |-> IF d = c THEN o ELSE open[d]]

Close(c) ==
    /\ c \in DOMAIN open
    /\ open' = [d \in DOMAIN open \ {c} |-> open[d]]

Next == \E c \in Conn : Close(c) \/ \E o \in Origin : Open(c, o)

Spec == Init /\ [][Next]_open
=============================================================================
