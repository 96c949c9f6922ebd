----------------------------- MODULE Connection -----------------------------
(***************************************************************************)
(* What one worker does with a connection: the handlers On*.c, the epoll   *)
(* masks they register, and SetHttpSessionUnused with _05 and _02.         *)
(*                                                                         *)
(* A handler runs to completion on the worker's only thread, so each of    *)
(* its outcomes is one action.  What the kernel, the client, the forward   *)
(* server or a TLS library may answer is a choice between the outcomes.    *)
(***************************************************************************)
EXTENDS HttpSession, ForwardServer

CONSTANTS
    ForwardSsl,  \* TRUE when the virtual host has a forward_ssl_ctx
    Pipelining,  \* TRUE when clients may send more than one request
    Failing      \* the system calls that may fail for want of a resource

ASSUME ConnectionAssumption ==
    /\ ForwardSsl \in BOOLEAN
    /\ Pipelining \in BOOLEAN
    /\ Failing \subseteq {"accept", "epoll_ctl", "epoll_wait", "socket",
                          "connect", "inotify_add_watch"}

VARIABLES
    conn,   \* the fields of each session that the handlers read and write
    heap,   \* "corrupt" once a session is released or moved while unused
    alive   \* FALSE once a handler has made WorkerThread return

connVars == <<conn, heap, alive>>

\* mask and fmask are what epoll watches on the client's and the forward
\* server's socket, "none" when the socket is not registered.  ssl and fssl
\* join ssl with ssl_accepted, and forward_ssl with forward_ssl_connected.
\* extra says where the request buffer has bytes behind a whole request:
\* "tail" behind the current one, "front" after ResetHttpEnv moved them.
Unopened ==
    [mask |-> "none", ssl |-> "none", http |-> "empty", extra |-> "none",
     server |-> NoServer, flags |-> "none", fssl |-> "none", fmask |-> "none"]

ConnType ==
    [mask : {"none", "IN", "OUT", "RDHUP"},
     ssl : {"none", "handshake", "accepted"},
     http : {"empty", "request", "response"},
     extra : {"none", "tail", "front"},
     server : Server \cup {NoServer},
     flags : {"none", "CONNECTING", "CONNECTED"},
     fssl : {"none", "handshake", "connected"},
     fmask : {"none", "IN", "OUT"}]

ConnInit ==
    /\ conn = [s \in Session |-> Unopened]
    /\ heap = "intact"
    /\ alive = TRUE

-----------------------------------------------------------------------------
(* The ends of a handler.                                                  *)

Become(s, c) == conn' = [conn EXCEPT ![s] = c] /\ UNCHANGED <<heap, alive>>

KeepPool == UNCHANGED poolVars
KeepServers == UNCHANGED serverVars

\* Both timestamps, one of them, or none moves to the end of its interval.
RestartTimeout(s) ==
    /\ UpdateTimeout(s)
    /\ UNCHANGED <<listVars, used_count, elapse_tree, netaddr_ip, iplimits>>

\* Mistaken: only the later of the two limits is moved.
RestartElapseOnly(s) ==
    /\ UpdateElapse(s)
    /\ UNCHANGED <<listVars, used_count, timeout_tree, netaddr_ip, iplimits>>

RestartBoth(s) ==
    /\ UpdateTimeout(s)
    /\ UpdateElapse(s)
    /\ UNCHANGED <<listVars, used_count, netaddr_ip, iplimits>>

\* ResetHttpEnv keeps the bytes behind a whole request, once.
ResetHttpEnv(extra) == IF extra = "tail" THEN "front" ELSE "none"

\* Mistaken: a connection that is still being made is not uncounted.
UncountConnected(c) ==
    IF c.flags # "CONNECTED" THEN connection_count
    ELSE [connection_count EXCEPT ![c.server] = @ - 1]

\* SetHttpSessionUnused_02 uncounts the server when forward_flags is set.
CountAfterClose(c) ==
    IF c.flags = "none" THEN connection_count
    ELSE [connection_count EXCEPT ![c.server] = @ - 1]

\* Mistaken: the client's socket stays in epoll.
ReleaseStillWatched(s) ==
    /\ SetHttpSessionUnused(s)
    /\ connection_count' = CountAfterClose(conn[s])
    /\ Become(s, [Unopened EXCEPT !.extra = ResetHttpEnv(conn[s].extra),
                                  !.mask = conn[s].mask])
    /\ UNCHANGED <<disabled_left, server_order>>

Release(s) ==
    /\ SetHttpSessionUnused(s)
    /\ connection_count' = CountAfterClose(conn[s])
    /\ Become(s, [Unopened EXCEPT !.extra = ResetHttpEnv(conn[s].extra)])
    /\ UNCHANGED <<disabled_left, server_order>>

\* A node that is in no tree is erased from it, and a node of the list is
\* added to it again: the heap is not to be trusted from here on.
CorruptHeap ==
    /\ heap' = "corrupt"
    /\ UNCHANGED <<conn, alive>>
    /\ KeepPool /\ KeepServers

\* A negative return value makes WorkerThread return.
StopWorker ==
    /\ alive' = FALSE
    /\ UNCHANGED <<conn, heap>>
    /\ KeepPool /\ KeepServers

-----------------------------------------------------------------------------
(* OnAcceptingSocket, once per connection, and OnAcceptingSslSocket, which *)
(* it calls at once for a listener with an ssl_ctx.                        *)

Accepted(ip, withSsl) ==
    /\ FetchHttpSessionUnused(ip)
    /\ \E s \in DOMAIN timeout_tree' \ InUse :
          Become(s, [conn[s] EXCEPT !.mask = "IN",
                                    !.ssl = IF withSsl THEN "handshake" ELSE "none"])
    /\ KeepServers

OnAcceptingSslSocket(s) ==
    \/ /\ \/ Become(s, [conn[s] EXCEPT !.mask = "IN", !.ssl = "accepted"])
          \/ \E mask \in {"IN", "OUT"} : Become(s, [conn[s] EXCEPT !.mask = mask])
       /\ KeepPool /\ KeepServers
    \/ Release(s)

-----------------------------------------------------------------------------
(* ConnectForwardServer on a session whose fields are c.                   *)

\* Mistaken: a connection in progress is not registered.
ConnectUnregistered(c, f) ==
    LET tried == [c EXCEPT !.server = f, !.flags = "CONNECTING", !.fmask = "none"] IN
    {[ok |-> TRUE, c |-> tried, tried |-> TRUE]}

\* What connect() and the calls behind it leave, and whether the caller is
\* told HTTP_OK.  A socket that connect() refuses at once is CONNECTING and
\* counted but not registered; nor is the one a TLS handshake is begun on,
\* and what that branch returns is not HTTP_OK.
ConnectForwardServer(c, f) ==
    LET tried == [c EXCEPT !.server = f, !.flags = "CONNECTING", !.fmask = "none"]
        done == [tried EXCEPT !.flags = "CONNECTED"] IN
    {[ok |-> TRUE, c |-> [tried EXCEPT !.fmask = "OUT"], tried |-> TRUE]}
    \cup {[ok |-> TRUE, c |-> [done EXCEPT !.fmask = "OUT"], tried |-> TRUE] :
             ssl \in {ForwardSsl} \ {TRUE}}
    \cup {[ok |-> FALSE, c |-> [done EXCEPT !.fssl = "handshake"], tried |-> TRUE] :
             ssl \in {ForwardSsl} \ {FALSE}}
    \cup {[ok |-> FALSE, c |-> tried, tried |-> TRUE] :
             call \in Failing \cap {"connect"}}
    \cup {[ok |-> FALSE, c |-> [c EXCEPT !.server = f, !.flags = "none"], tried |-> FALSE] :
             call \in Failing \cap {"socket"}}
    \cup {[ok |-> FALSE, tried |-> TRUE,
           c |-> [c EXCEPT !.server = NoServer, !.flags = "none", !.fssl = "none"]] :
             call \in Failing \cap {"epoll_ctl"}}

\* What an attempt on f leaves of the tables, of which count is the caller's.
Attempt(c, f, count) ==
    LET counted == [count EXCEPT ![f] = @ + 1]
        Orders(r) == IF r.tried THEN OrderAfterConnect(f, counted)
                                ELSE {OrderAfterSelect(f)} IN
    UNION {{[ok |-> r.ok, c |-> r.c, order |-> order,
             count |-> IF r.c.flags = "none" THEN count ELSE counted] :
               order \in Orders(r)} : r \in ConnectForwardServer(c, f)}

\* Select a server and connect to it, once.
Forward(c, count, left) ==
    IF SelectForwardAddress(left) = {}
    THEN {[ok |-> FALSE, c |-> c, order |-> server_order, count |-> count]}
    ELSE UNION {Attempt(c, f, count) : f \in SelectForwardAddress(left)}

ServersBecome(r, left) ==
    /\ connection_count' = r.count
    /\ server_order' = r.order
    /\ disabled_left' = left

-----------------------------------------------------------------------------
(* OnReceivingSocket and ProcessHttpRequest.                               *)

\* Mistaken: the client's socket is watched for input.
RespondWatchingInput(c) == [c EXCEPT !.mask = "IN", !.http = "response"]

Respond(c) == [c EXCEPT !.mask = "OUT", !.http = "response"]

AwaitForward(c) == [c EXCEPT !.mask = "RDHUP", !.http = "request"]

\* While a forward connection is under way no timestamp is moved.
RestartUnlessForwarding(s) ==
    IF conn'[s].mask = "RDHUP" THEN KeepPool ELSE RestartBoth(s)

\* A whole request: answered from files or with an error or redirection page,
\* or handed to a forward server.
ProcessHttpRequest(s, c) ==
    \/ /\ Become(s, Respond(c))
       /\ RestartBoth(s)
       /\ KeepServers
    \/ /\ Server # {}
       /\ \E r \in Forward(c, connection_count, disabled_left) :
             /\ Become(s, IF r.ok THEN AwaitForward(r.c) ELSE Respond(r.c))
             /\ ServersBecome(r, disabled_left)
       /\ RestartUnlessForwarding(s)
    \/ "inotify_add_watch" \in Failing /\ StopWorker

\* Mistaken: any progress restarts the elapse limit too.
NotDoneRestartsBoth(s) ==
    /\ RestartBoth(s)
    /\ UNCHANGED <<conn, heap, alive>>
    /\ KeepServers

NotDone(s) ==
    /\ RestartTimeout(s)
    /\ UNCHANGED <<conn, heap, alive>>
    /\ KeepServers

\* Bytes that ResetHttpEnv moved to the front are parsed before anything is
\* received; their first byte has been overwritten, so they never make a
\* request.
OnReceivingSocket(s) ==
    \/ NotDone(s)
    \/ Release(s)
    \/ /\ conn[s].extra # "front"
       /\ \E extra \in {"none"} \cup (IF Pipelining THEN {"tail"} ELSE {}) :
             ProcessHttpRequest(s, [conn[s] EXCEPT !.extra = extra])

\* Mistaken: the client's socket is still watched for output.
KeepAliveWatchingOutput(s) ==
    \/ Release(s)
    \/ conn[s].http # "empty" /\ NotDone(s)
    \/ /\ conn[s].http # "empty"
       /\ Become(s, [conn[s] EXCEPT !.http = "empty", !.extra = ResetHttpEnv(@)])
       /\ RestartBoth(s)
       /\ KeepServers

\* CheckHttpKeepAlive reads what the client asked for, which is no when there
\* has been no request.
OnSendingSocket(s) ==
    \/ Release(s)
    \/ conn[s].http # "empty" /\ NotDone(s)
    \/ /\ conn[s].http # "empty"
       /\ Become(s, [conn[s] EXCEPT !.mask = "IN", !.http = "empty",
                                    !.extra = ResetHttpEnv(@)])
       /\ RestartBoth(s)
       /\ KeepServers

-----------------------------------------------------------------------------
(* The handlers of a forward connection.  None of them moves a timestamp.  *)

Registered(c) == c.fmask # "none"

\* epoll_ctl fails on a socket that was never registered, and the caller is
\* told 1 as for a failed handshake.
ForwardHandshake(c) ==
    IF Registered(c)
    THEN {[c EXCEPT !.fmask = "OUT", !.fssl = "connected"]}
         \cup {[c EXCEPT !.fmask = mask, !.fssl = "handshake"] : mask \in {"IN", "OUT"}}
    ELSE {}

OnConnectingSslForward(s) ==
    \/ /\ \E c \in ForwardHandshake(conn[s]) : Become(s, c)
       /\ KeepPool /\ KeepServers
    \/ Release(s)

\* Mistaken: when the other server fails too the client is left waiting.
ConnectFailedSilently(s) ==
    LET c == conn[s]
        closed == [c EXCEPT !.flags = "none", !.fmask = "none"]
        left == Disable(disabled_left, c.server) IN
    /\ Registered(c)
    /\ \E r \in Forward(closed, CountAfterClose(c), left) :
          /\ Become(s, r.c)
          /\ ServersBecome(r, left)
    /\ KeepPool

\* SO_ERROR is set: the server is left alone for a while, and another one is
\* tried once.  Only the client's mask tells the two outcomes apart.
ConnectFailed(s) ==
    LET c == conn[s]
        closed == [c EXCEPT !.flags = "none", !.fmask = "none"]
        left == Disable(disabled_left, c.server) IN
    /\ Registered(c)
    /\ \E r \in Forward(closed, CountAfterClose(c), left) :
          /\ Become(s, IF r.ok THEN r.c ELSE Respond(r.c))
          /\ ServersBecome(r, left)
    /\ KeepPool

\* A failed first handshake step is ignored here.
ConnectedSsl(s) ==
    LET c == [conn[s] EXCEPT !.flags = "CONNECTED", !.fssl = "handshake"] IN
    /\ ForwardSsl
    /\ \E d \in ForwardHandshake(c) \cup {c} : Become(s, d)
    /\ KeepPool /\ KeepServers

\* Without TLS the socket is modified in epoll, which has to know it.
Connected(s) ==
    /\ ~ForwardSsl
    /\ \/ /\ Registered(conn[s])
          /\ Become(s, [conn[s] EXCEPT !.flags = "CONNECTED", !.fmask = "OUT"])
          /\ KeepPool /\ KeepServers
       \/ ~Registered(conn[s]) /\ StopWorker

OnConnectingForward(s) == ConnectFailed(s) \/ ConnectedSsl(s) \/ Connected(s)

Unfinished == UNCHANGED <<connVars, poolVars, serverVars>>

OnSendingForward(s) ==
    \/ Unfinished
    \/ Release(s)
    \/ /\ Become(s, [conn[s] EXCEPT !.fmask = "IN"])
       /\ KeepPool /\ KeepServers

\* Mistaken: the end of a forwarded request does not uncount the server.
ReceivedStillCounted(s) ==
    \/ Unfinished
    \/ Release(s)
    \/ /\ Become(s, Respond([conn[s] EXCEPT !.flags = "none", !.fmask = "none"]))
       /\ KeepPool /\ KeepServers

\* A response that does not parse leaves an error page in the response
\* buffer and the forward connection as it is.
OnReceivingForward(s) ==
    \/ Unfinished
    \/ Release(s)
    \/ /\ Become(s, [conn[s] EXCEPT !.http = "response"])
       /\ KeepPool /\ KeepServers
    \/ /\ connection_count' = CountAfterClose(conn[s])
       /\ Become(s, Respond([conn[s] EXCEPT !.flags = "none", !.fmask = "none"]))
       /\ KeepPool
       /\ UNCHANGED <<disabled_left, server_order>>

-----------------------------------------------------------------------------
(* The dispatch of WorkerThread on the flag an event was delivered with.   *)

DuringHandshake(s) ==
    \/ conn[s].ssl = "handshake" /\ OnAcceptingSslSocket(s)
    \/ /\ conn[s].ssl # "handshake"
       /\ conn[s].fssl = "handshake"
       /\ OnConnectingSslForward(s)

Established(s) == conn[s].ssl # "handshake" /\ conn[s].fssl # "handshake"

OnIn(s) ==
    \/ DuringHandshake(s)
    \/ Established(s) /\ conn[s].flags = "none" /\ OnReceivingSocket(s)
    \/ Established(s) /\ conn[s].flags # "none" /\ OnReceivingForward(s)

OnOut(s) ==
    \/ DuringHandshake(s)
    \/ Established(s) /\ conn[s].flags = "none" /\ OnSendingSocket(s)
    \/ Established(s) /\ conn[s].flags = "CONNECTED" /\ OnSendingForward(s)
    \/ Established(s) /\ conn[s].flags = "CONNECTING" /\ OnConnectingForward(s)

OnRdhup(s) ==
    \/ conn[s].flags # "none" /\ Release(s)
    \/ conn[s].flags = "none" /\ Unfinished

OnErr(s) ==
    \/ conn[s].flags = "none" /\ Release(s)
    \/ conn[s].flags = "CONNECTING" /\ OnConnectingForward(s)
    \/ conn[s].flags = "CONNECTED" /\ Unfinished

Handle(s, flag) ==
    \/ flag = "IN" /\ OnIn(s)
    \/ flag = "OUT" /\ OnOut(s)
    \/ flag = "RDHUP" /\ OnRdhup(s)
    \/ flag = "ERR" /\ OnErr(s)

\* A session that has been released since its event was delivered: whatever
\* the handler does with the closed socket ends in a second release, except
\* for a flag that is ignored.
HandleReleased(flag) ==
    \/ flag = "RDHUP" /\ Unfinished
    \/ flag # "RDHUP" /\ CorruptHeap
=============================================================================
