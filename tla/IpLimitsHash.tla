---------------------------- MODULE IpLimitsHash ----------------------------
(***************************************************************************)
(* The per-address connection counters of IpLimitsHash.c.  The chained     *)
(* hash table is a function from addresses to counts; count 0 stands for   *)
(* "no node", which is how the code forgets an address.                    *)
(***************************************************************************)
EXTENDS Integers

CONSTANTS
    Ip,                   \* client addresses
    MaxConnectionsPerIp   \* limits__max_connections_per_ip, -1 when unlimited

ASSUME IpLimitAssumption == MaxConnectionsPerIp \in Int

VARIABLE iplimits

\* FetchHttpSessionUnused and SetHttpSessionUnused consult the table only then.
IpLimited == MaxConnectionsPerIp # -1

IpLimitsInit == iplimits = [ip \in Ip |-> 0]

\* Mistaken: lets an address reach one more than its limit.
RefusedTooLate(ip) ==
    /\ iplimits[ip] # 0
    /\ iplimits[ip] > MaxConnectionsPerIp

\* IncreaseIpLimitsHashNode counts first and takes the count back when it is
\* over the limit; a new node is never compared with the limit.
IncreaseRefused(ip) ==
    /\ iplimits[ip] # 0
    /\ iplimits[ip] + 1 > MaxConnectionsPerIp

IncreaseIpLimitsHashNode(ip) == [iplimits EXCEPT ![ip] = @ + 1]

\* Mistaken: the node goes with the first of the connections it counts.
ForgetIp(ip) == [iplimits EXCEPT ![ip] = 0]

\* An address without a node makes the code return 1, which its caller logs.
DecreaseIpLimitsHashNode(ip) ==
    [iplimits EXCEPT ![ip] = IF @ = 0 THEN 0 ELSE @ - 1]

\* The largest count an address can reach: a limit below 1 still admits one.
IpCap == IF MaxConnectionsPerIp < 1 THEN 1 ELSE MaxConnectionsPerIp
=============================================================================
