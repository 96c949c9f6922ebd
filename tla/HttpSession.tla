----------------------------- MODULE HttpSession ----------------------------
(***************************************************************************)
(* The pool of HTTP sessions of one worker process: HttpSession.c with the *)
(* two red-black trees of HttpSessionTimeoutTree.c and ...ElapseTree.c.    *)
(* Sessions are malloc'ed in batches, wait in a FIFO list, and are moved   *)
(* to both trees while a connection uses them.                             *)
(*                                                                         *)
(* Time is relative: a tree maps a session to the seconds left until its   *)
(* timestamp (timeout_timestamp - GETSECONDSTAMP), 0 once it has passed,   *)
(* so the order of two expired sessions is not kept.                       *)
(***************************************************************************)
EXTENDS IpLimitsHash, Sequences, FiniteSets

CONSTANTS
    MaxSessions,  \* limits__max_http_session_count
    InitSessions, \* INIT_HTTP_SESSION_COUNT
    Increment,    \* INCRE_HTTP_SESSION_COUNT
    Timeout,      \* http_options__timeout, in seconds
    Elapse,       \* http_options__elapse, in seconds
    MaxOrphans    \* bound: sessions left uncounted by failed allocations

ASSUME PoolAssumption ==
    /\ MaxSessions \in Nat \ {0}
    /\ InitSessions \in Nat \ {0}
    /\ Increment \in Nat \ {0}
    /\ Timeout \in Nat /\ Elapse \in Nat
    /\ MaxOrphans \in Nat

VARIABLES
    unused_list,   \* http_session_unused_list
    unused_count,  \* http_session_unused_count
    used_count,    \* http_session_used_count
    timeout_tree,  \* http_session_timeout_rbtree_used
    elapse_tree,   \* http_session_elapse_rbtree_used
    netaddr_ip,    \* netaddr.addr.sin_addr of each session, kept when unused
    allocated      \* sessions in http_session_array_list, never freed

listVars == <<unused_list, unused_count, allocated>>
treeVars == <<timeout_tree, elapse_tree>>
poolVars == <<listVars, used_count, treeVars, netaddr_ip, iplimits>>

Session == 1 .. MaxSessions + MaxOrphans

-----------------------------------------------------------------------------
(* The trees.                                                              *)

AddNode(tree, s, left) ==
    [t \in DOMAIN tree \cup {s} |-> IF t = s THEN left ELSE tree[t]]

RemoveNode(tree, s) == [t \in DOMAIN tree \ {s} |-> tree[t]]

Expired(tree) == {s \in DOMAIN tree : tree[s] = 0}

Tick(tree) == [s \in DOMAIN tree |-> IF tree[s] = 0 THEN 0 ELSE tree[s] - 1]

InUse == DOMAIN timeout_tree

UpdateTimeout(s) == timeout_tree' = AddNode(RemoveNode(timeout_tree, s), s, Timeout)
UpdateElapse(s) == elapse_tree' = AddNode(RemoveNode(elapse_tree, s), s, Elapse)

-----------------------------------------------------------------------------
(* Growing the pool.  The limit compares the used sessions only, and is    *)
(* tested only when the counter of unused ones is 0.                       *)

\* Mistaken: a batch is as large as the caller asks for.
Unclamped(wanted, used) == wanted

Clamp(wanted, used) ==
    IF used + wanted > MaxSessions THEN MaxSessions - used ELSE wanted

Fresh(n) == [i \in 1 .. n |-> allocated + i]

PoolInit ==
    /\ allocated = Clamp(InitSessions, 0)
    /\ unused_list = [i \in 1 .. Clamp(InitSessions, 0) |-> i]
    /\ unused_count = Clamp(InitSessions, 0)
    /\ used_count = 0
    /\ timeout_tree = [s \in {} |-> s]
    /\ elapse_tree = [s \in {} |-> s]
    /\ \E ip \in Ip : netaddr_ip = [s \in Session |-> ip]
    /\ IpLimitsInit

-----------------------------------------------------------------------------
(* FetchHttpSessionUnused, one action per outcome.                         *)

CountIp(ip) ==
    IF IpLimited THEN /\ ~IncreaseRefused(ip)
                      /\ iplimits' = IncreaseIpLimitsHashNode(ip)
                 ELSE UNCHANGED iplimits

\* Mistaken: the head of the list stays in it.
TakeWithoutUnlinking(ip, list, unused) ==
    LET s == Head(list) IN
    /\ unused_list' = list
    /\ unused_count' = unused - 1
    /\ used_count' = used_count + 1
    /\ timeout_tree' = AddNode(timeout_tree, s, Timeout)
    /\ elapse_tree' = AddNode(elapse_tree, s, Elapse)
    /\ netaddr_ip' = [netaddr_ip EXCEPT ![s] = ip]

\* Move the head of list to the trees and fill in the peer's address.
Take(ip, list, unused) ==
    LET s == Head(list) IN
    /\ unused_list' = Tail(list)
    /\ unused_count' = unused - 1
    /\ used_count' = used_count + 1
    /\ timeout_tree' = AddNode(timeout_tree, s, Timeout)
    /\ elapse_tree' = AddNode(elapse_tree, s, Elapse)
    /\ netaddr_ip' = [netaddr_ip EXCEPT ![s] = ip]

FetchFromList(ip) ==
    /\ CountIp(ip)
    /\ unused_count # 0
    /\ Take(ip, unused_list, unused_count)
    /\ UNCHANGED allocated

FetchAfterIncrease(ip) ==
    /\ CountIp(ip)
    /\ unused_count = 0
    /\ used_count < MaxSessions
    /\ LET n == Clamp(Increment, used_count) IN
       /\ Take(ip, unused_list \o Fresh(n), n)
       /\ allocated' = allocated + n

\* The address is at its limit, or there is no memory for its counter.
FetchRefused(ip) ==
    /\ IpLimited
    /\ IncreaseRefused(ip) \/ iplimits[ip] = 0
    /\ UNCHANGED poolVars

\* The pool is at its limit; the address stays counted.
FetchLimited(ip) ==
    /\ CountIp(ip)
    /\ unused_count = 0
    /\ used_count >= MaxSessions
    /\ UNCHANGED <<listVars, used_count, treeVars, netaddr_ip>>

\* Allocation fails after k complete sessions: they are in the list but not
\* in the counter, and the address stays counted.
FetchMallocFails(ip, k) ==
    /\ CountIp(ip)
    /\ unused_count = 0
    /\ used_count < MaxSessions
    /\ k < Clamp(Increment, used_count)
    /\ Len(unused_list) + k <= MaxOrphans
    /\ unused_list' = unused_list \o Fresh(k)
    /\ allocated' = allocated + k
    /\ UNCHANGED <<unused_count, used_count, treeVars, netaddr_ip>>

FetchFails(ip) ==
    \/ FetchRefused(ip)
    \/ FetchLimited(ip)
    \/ \E k \in 0 .. Increment - 1 : FetchMallocFails(ip, k)

FetchHttpSessionUnused(ip) == FetchFromList(ip) \/ FetchAfterIncrease(ip)

-----------------------------------------------------------------------------
(* SetHttpSessionUnused, as far as the pool goes.                          *)

\* Mistaken: one step of the release is left out.
UnusedNotCounted(s) ==
    /\ iplimits' = IF IpLimited THEN DecreaseIpLimitsHashNode(netaddr_ip[s])
                                ELSE iplimits
    /\ timeout_tree' = RemoveNode(timeout_tree, s)
    /\ elapse_tree' = RemoveNode(elapse_tree, s)
    /\ unused_list' = Append(unused_list, s)
    /\ used_count' = used_count - 1
    /\ UNCHANGED <<netaddr_ip, allocated, unused_count>>

LeftInElapseTree(s) ==
    /\ iplimits' = IF IpLimited THEN DecreaseIpLimitsHashNode(netaddr_ip[s])
                                ELSE iplimits
    /\ timeout_tree' = RemoveNode(timeout_tree, s)
    /\ unused_list' = Append(unused_list, s)
    /\ used_count' = used_count - 1
    /\ unused_count' = unused_count + 1
    /\ UNCHANGED <<netaddr_ip, allocated, elapse_tree>>

SetHttpSessionUnused(s) ==
    /\ iplimits' = IF IpLimited THEN DecreaseIpLimitsHashNode(netaddr_ip[s])
                                ELSE iplimits
    /\ timeout_tree' = RemoveNode(timeout_tree, s)
    /\ elapse_tree' = RemoveNode(elapse_tree, s)
    /\ unused_list' = Append(unused_list, s)
    /\ used_count' = used_count - 1
    /\ unused_count' = unused_count + 1
    /\ UNCHANGED <<netaddr_ip, allocated>>

-----------------------------------------------------------------------------
(* The pool under callers that release a session only while it is in use.  *)

Close(s) == s \in InUse /\ SetHttpSessionUnused(s)

Refresh(s) ==
    /\ s \in InUse
    /\ UpdateTimeout(s)
    /\ UpdateElapse(s) \/ UNCHANGED elapse_tree
    /\ UNCHANGED <<listVars, used_count, netaddr_ip, iplimits>>

Second ==
    /\ timeout_tree' = Tick(timeout_tree)
    /\ elapse_tree' = Tick(elapse_tree)
    /\ UNCHANGED <<listVars, used_count, netaddr_ip, iplimits>>

PoolNext ==
    \/ \E ip \in Ip : FetchHttpSessionUnused(ip) \/ FetchFails(ip)
    \/ \E s \in Session : Close(s) \/ Refresh(s)
    \/ Second

PoolSpec == PoolInit /\ [][PoolNext]_poolVars

-----------------------------------------------------------------------------
Elems(list) == {list[i] : i \in DOMAIN list}
Distinct(list) == \A i, j \in DOMAIN list : i # j => list[i] # list[j]
Listed == Elems(unused_list)
OpenFrom(ip) == {s \in InUse : netaddr_ip[s] = ip}
Orphans == Len(unused_list) - unused_count

TypeOK ==
    /\ iplimits \in [Ip -> Nat]
    /\ unused_list \in Seq(Session)
    /\ unused_count \in Nat
    /\ used_count \in Nat
    /\ InUse \subseteq Session
    /\ timeout_tree \in [InUse -> 0 .. Timeout]
    /\ elapse_tree \in [InUse -> 0 .. Elapse]
    /\ netaddr_ip \in [Session -> Ip]
    /\ allocated \in 0 .. MaxSessions + MaxOrphans

\* Every session ever allocated is either listed exactly once or in use, in
\* both trees: FetchHttpSessionUnused and SetHttpSessionUnused move a session
\* between the list and the trees and never lose or duplicate one.
NothingLost ==
    /\ Distinct(unused_list)
    /\ Listed \cap InUse = {}
    /\ Listed \cup InUse = 1 .. allocated

\* The two counters, which alone decide whether the head of the list may be
\* taken and whether the pool may grow, agree with the list and the trees.
Accounting ==
    /\ used_count = Cardinality(InUse)
    /\ Orphans \in 0 .. MaxOrphans
    /\ used_count + unused_count <= MaxSessions
    /\ allocated = used_count + Len(unused_list)

\* No address ever has more connections open than are counted for it in the
\* hash table, so a connection is never admitted over the limit.
IpCovered ==
    IpLimited => \A ip \in Ip :
        /\ Cardinality(OpenFrom(ip)) <= iplimits[ip]
        /\ iplimits[ip] <= IpCap

\* The pool implements the two admission limits.
AdmissionLimits == INSTANCE Admission WITH
    Conn <- Session, Origin <- Ip, Total <- MaxSessions,
    Unlimited <- ~IpLimited, PerOrigin <- IpCap,
    open <- [s \in InUse |-> netaddr_ip[s]]

AdmissionSpec == AdmissionLimits!Spec
=============================================================================
