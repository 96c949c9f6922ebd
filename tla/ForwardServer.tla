---------------------------- MODULE ForwardServer ---------------------------
(***************************************************************************)
(* The forward servers of a virtual host: LeastConnectionCountTree.c and   *)
(* SelectForwardAddress of OnConnectingForward.c.                          *)
(*                                                                         *)
(* server_order is what the rule reads: the round-robin list from its      *)
(* head, or the least-connection tree in order.  The path from the root to *)
(* a new leaf passes its two neighbours in the order, and in a tree whose  *)
(* counts have moved since they were inserted nothing else is certain.     *)
(***************************************************************************)
EXTENDS Integers, Sequences

CONSTANTS
    ServerList,      \* the forward servers, in the order of the configuration
    Rule,            \* forward_rule[0]: "R" round robin, "L" least connection
    ForwardDisable,  \* http_options__forward_disable, in seconds
    NoServer         \* p_forward_server == NULL

Server == {ServerList[i] : i \in DOMAIN ServerList}

ASSUME ForwardAssumption ==
    /\ ServerList \in Seq(Server)
    /\ \A i, j \in DOMAIN ServerList : i # j => ServerList[i] # ServerList[j]
    /\ Rule \in {"R", "L"}
    /\ ForwardDisable \in Nat
    /\ NoServer \notin Server

VARIABLES
    connection_count,  \* connection_count of each server
    disabled_left,     \* seconds until timestamp_to_valid has passed
    server_order       \* roundrobin_list or leastconnection_rbtree

serverVars == <<connection_count, disabled_left, server_order>>

ServersInit ==
    /\ connection_count = [f \in Server |-> 0]
    /\ disabled_left = [f \in Server |-> 0]
    /\ server_order = ServerList

ServersTick ==
    disabled_left' = [f \in Server |->
        IF disabled_left[f] = 0 THEN 0 ELSE disabled_left[f] - 1]

\* The address of a failed server is left alone until GETSECONDSTAMP is
\* larger than the timestamp written here.
Disable(left, f) == [left EXCEPT ![f] = ForwardDisable + 1]

-----------------------------------------------------------------------------
(* SelectForwardAddress: the first usable server of the order.             *)

Usable(left) == {k \in DOMAIN server_order : left[server_order[k]] = 0}

SelectForwardAddress(left) ==
    {server_order[k] : k \in {i \in Usable(left) : \A j \in Usable(left) : i <= j}}

\* A connection attempt to f: round robin has moved f to the tail, and the
\* tree has been updated for the count it has with this attempt.
Position(f) == CHOOSE k \in DOMAIN server_order : server_order[k] = f

Without(f) ==
    SubSeq(server_order, 1, Position(f) - 1)
        \o SubSeq(server_order, Position(f) + 1, Len(server_order))

\* Mistaken: a node is put into the tree without being taken out.
AddLeastConnectionCountTreeNode(f, count) ==
    LET rest == server_order IN
    {SubSeq(rest, 1, p) \o <<f>> \o SubSeq(rest, p + 1, Len(rest)) :
        p \in {i \in 0 .. Len(rest) :
                  /\ i > 0 => count[f] > count[rest[i]]
                  /\ i < Len(rest) => count[f] <= count[rest[i + 1]]}}

UpdateLeastConnectionCountTreeNode(f, count) ==
    LET rest == Without(f) IN
    {SubSeq(rest, 1, p) \o <<f>> \o SubSeq(rest, p + 1, Len(rest)) :
        p \in {i \in 0 .. Len(rest) :
                  /\ i > 0 => count[f] > count[rest[i]]
                  /\ i < Len(rest) => count[f] <= count[rest[i + 1]]}}

OrderAfterSelect(f) ==
    IF Rule = "R" THEN Append(Without(f), f) ELSE server_order

\* count is connection_count with the attempt counted.
OrderAfterConnect(f, count) ==
    IF Rule = "R" THEN {Append(Without(f), f)}
    ELSE UpdateLeastConnectionCountTreeNode(f, count)

\* The list or the tree has f at one place.
OnceIn(order, f) ==
    \E k \in DOMAIN order : /\ order[k] = f
                            /\ \A j \in DOMAIN order : order[j] = f => j = k
=============================================================================
