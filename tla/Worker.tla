------------------------------- MODULE Worker -------------------------------
(***************************************************************************)
(* A worker process: the loop of WorkerThread.c over the events of its     *)
(* epoll instance, and the timer thread of TimerThread.c beside it.        *)
(*                                                                         *)
(* An event is collected once and acted on later: the sweep of expired     *)
(* sessions and the events before it in the batch come first.  Epoll is    *)
(* level triggered, so any registered descriptor may be in any batch, and  *)
(* which of the flags it is watched for are set is the environment's       *)
(* choice.  Only the flag that the dispatch acts on is kept.               *)
(***************************************************************************)
EXTENDS Connection

CONSTANTS
    Listener,             \* listening sockets
    SslListener,          \* those with an ssl_ctx
    MaxEvents,            \* bound on a batch, at most MAX_EPOLL_EVENTS
    MaxAccepts,           \* MAX_LISTEN_EPOLL_EVENTS
    ReopenLog,            \* TRUE when the monitor may ask to reopen the logs
    VirtualHostHashsize   \* virtual_host_hashsize of the last listener

ASSUME WorkerAssumption ==
    /\ SslListener \subseteq Listener
    /\ MaxEvents \in Nat \ {0}
    /\ MaxAccepts \in Nat \ {0}
    /\ ReopenLog \in BOOLEAN
    /\ VirtualHostHashsize \in {2 * n : n \in 1 .. VirtualHostHashsize}

VARIABLES
    pc,                  \* where the worker is in its loop
    batch,               \* events from p_event on
    nfds,                \* epoll_nfds
    index,               \* i, which decides whether the loop goes on
    accepts,             \* connections accepted for the event at hand
    current,             \* the session whose first handshake step is due
    g_worker_exit_flag,
    g_second_elapse,
    timer                \* where the timer thread is

loopVars == <<pc, batch, nfds, index, accepts, current, g_worker_exit_flag>>
timerVars == <<g_second_elapse, timer>>
vars == <<connVars, poolVars, serverVars, loopVars, timerVars>>

NoSession == 0

Running == alive /\ heap = "intact"

Init ==
    /\ PoolInit /\ ServersInit /\ ConnInit
    /\ pc = "epoll_wait"
    /\ batch = <<>>
    /\ nfds = 0
    /\ index = 0
    /\ accepts = 0
    /\ current = NoSession
    /\ g_worker_exit_flag = FALSE
    /\ g_second_elapse = FALSE
    /\ timer = "sleep"

-----------------------------------------------------------------------------
(* The timer thread.  The flag is set before the cached time is renewed.   *)

KeepLoop == UNCHANGED loopVars
KeepTimer == UNCHANGED timerVars
KeepSessions == UNCHANGED <<connVars, poolVars, serverVars>>

TimerWakes ==
    /\ Running
    /\ timer = "sleep"
    /\ g_second_elapse' = TRUE
    /\ timer' = "update"
    /\ KeepSessions /\ KeepLoop

TimerUpdates ==
    /\ Running
    /\ timer = "update"
    /\ Second
    /\ ServersTick
    /\ timer' = "sleep"
    /\ UNCHANGED <<connVars, connection_count, server_order, g_second_elapse>>
    /\ KeepLoop

-----------------------------------------------------------------------------
(* epoll_wait and the end of the loop.                                     *)

Mask(s, fd) == IF fd = "netaddr" THEN conn[s].mask ELSE conn[s].fmask

HttpEvents ==
    {e \in [type : {"HTTP"}, of : InUse, fd : {"netaddr", "forward_netaddr"},
            flag : {"IN", "OUT", "RDHUP", "ERR"}] :
        /\ Mask(e.of, e.fd) # "none"
        /\ e.flag \in {Mask(e.of, e.fd), "ERR"}}

\* The listeners and the pipe are closed when the exit flag is set.
LoopEvents ==
    IF g_worker_exit_flag THEN {}
    ELSE [type : {"LISTEN"}, of : Listener, fd : {"netaddr"}, flag : {"IN"}]
         \cup [type : {"PIPE"}, of : {NoSession}, fd : {"pipe"}, flag : {"IN"}]

SameDescriptor(d, e) == d.type = e.type /\ d.of = e.of /\ d.fd = e.fd

Delivered(n) ==
    {q \in [1 .. n -> HttpEvents \cup LoopEvents] :
        \A k, m \in 1 .. n : k # m => ~SameDescriptor(q[k], q[m])}

EpollWait ==
    /\ Running
    /\ pc = "epoll_wait"
    /\ ~g_worker_exit_flag \/ used_count > 0
    /\ \/ /\ \E n \in 0 .. MaxEvents :
             batch' \in Delivered(n) /\ nfds' = n /\ index' = 0
          /\ pc' = IF g_second_elapse THEN "sweep_timeout" ELSE "dispatch"
          /\ KeepSessions
          /\ UNCHANGED <<accepts, current, g_worker_exit_flag>>
       \/ "epoll_wait" \in Failing /\ StopWorker /\ KeepLoop
    /\ KeepTimer

\* Mistaken: waits for the list of unused sessions to run empty.
LoopEndsOnUnused ==
    /\ Running
    /\ pc = "epoll_wait"
    /\ g_worker_exit_flag /\ used_count = 0 /\ unused_count = 0
    /\ pc' = "returned"
    /\ UNCHANGED <<batch, nfds, index, accepts, current, g_worker_exit_flag>>
    /\ KeepSessions /\ KeepTimer

LoopEnds ==
    /\ Running
    /\ pc = "epoll_wait"
    /\ g_worker_exit_flag /\ used_count = 0
    /\ pc' = "returned"
    /\ UNCHANGED <<batch, nfds, index, accepts, current, g_worker_exit_flag>>
    /\ KeepSessions /\ KeepTimer

-----------------------------------------------------------------------------
(* The sweep of expired sessions, one release at a time.                   *)

GoTo(place) ==
    /\ pc' = place
    /\ UNCHANGED <<batch, nfds, index, accepts, current, g_worker_exit_flag>>

SweepTimeout ==
    /\ Running
    /\ pc = "sweep_timeout"
    /\ \/ /\ \E s \in Expired(timeout_tree) : Release(s)
          /\ KeepLoop
       \/ /\ Expired(timeout_tree) = {}
          /\ KeepSessions
          /\ GoTo("sweep_elapse")
    /\ KeepTimer

\* Mistaken: expired sessions are not looked for in the second tree.
SweepElapseSkipped ==
    /\ Running
    /\ pc = "sweep_elapse"
    /\ g_second_elapse' = FALSE
    /\ UNCHANGED timer
    /\ KeepSessions
    /\ GoTo("dispatch")

SweepElapse ==
    /\ Running
    /\ pc = "sweep_elapse"
    /\ \/ /\ \E s \in Expired(elapse_tree) : Release(s)
          /\ KeepLoop /\ KeepTimer
       \/ /\ Expired(elapse_tree) = {}
          /\ g_second_elapse' = FALSE
          /\ UNCHANGED timer
          /\ KeepSessions
          /\ GoTo("dispatch")

-----------------------------------------------------------------------------
(* The events of a batch, in the order in which epoll_wait returned them.  *)

At(type) ==
    /\ Running
    /\ pc = "dispatch"
    /\ index < nfds /\ batch # <<>>
    /\ Head(batch).type = type

NextEvent ==
    /\ batch' = Tail(batch)
    /\ index' = index + 1
    /\ pc' = "dispatch"
    /\ UNCHANGED nfds

BatchDone ==
    /\ Running
    /\ pc = "dispatch"
    /\ index >= nfds
    /\ batch' = <<>>
    /\ nfds' = 0
    /\ index' = 0
    /\ pc' = "epoll_wait"
    /\ UNCHANGED <<accepts, current, g_worker_exit_flag>>
    /\ KeepSessions /\ KeepTimer

\* Past the events that were returned the array holds null pointers.
PastTheEvents ==
    /\ Running
    /\ pc = "dispatch"
    /\ index < nfds /\ batch = <<>>
    /\ StopWorker
    /\ KeepLoop /\ KeepTimer

HttpEvent ==
    /\ At("HTTP")
    /\ LET e == Head(batch) IN
       \/ e.of \in InUse /\ Handle(e.of, e.flag)
       \/ e.of \notin InUse /\ HandleReleased(e.flag)
    /\ NextEvent
    /\ UNCHANGED <<accepts, current, g_worker_exit_flag>>
    /\ KeepTimer

\* A listener whose type was set to 0 by the exit matches no branch.
MaskedEvent ==
    /\ At("0")
    /\ NextEvent
    /\ UNCHANGED <<accepts, current, g_worker_exit_flag>>
    /\ KeepSessions /\ KeepTimer

-----------------------------------------------------------------------------
(* OnAcceptingSocket: connections are accepted until there are none left,  *)
(* MaxAccepts are, one is refused, or one needs a TLS handshake.           *)

ListenEvent ==
    /\ At("LISTEN")
    /\ pc' = "accept"
    /\ accepts' = 0
    /\ UNCHANGED <<batch, nfds, index, current, g_worker_exit_flag>>
    /\ KeepSessions /\ KeepTimer

Accept ==
    /\ Running
    /\ pc = "accept"
    /\ accepts < MaxAccepts
    /\ \E ip \in Ip : Accepted(ip, Head(batch).of \in SslListener)
    /\ accepts' = accepts + 1
    /\ IF Head(batch).of \in SslListener
       THEN /\ current' \in DOMAIN timeout_tree' \ InUse
            /\ pc' = "handshake"
       ELSE UNCHANGED <<current, pc>>
    /\ UNCHANGED <<batch, nfds, index, g_worker_exit_flag>>
    /\ KeepTimer

\* No session for the connection, which is closed; or nothing to accept.
AcceptEnds ==
    /\ Running
    /\ pc = "accept"
    /\ \/ /\ accepts < MaxAccepts
          /\ \E ip \in Ip : FetchFails(ip)
          /\ UNCHANGED <<connVars, serverVars>>
       \/ KeepSessions
    /\ NextEvent
    /\ accepts' = 0
    /\ UNCHANGED <<current, g_worker_exit_flag>>
    /\ KeepTimer

AcceptFails ==
    /\ Running
    /\ pc = "accept"
    /\ Failing \cap {"accept", "epoll_ctl"} # {}
    /\ StopWorker
    /\ KeepLoop /\ KeepTimer

FirstHandshake ==
    /\ Running
    /\ pc = "handshake"
    /\ OnAcceptingSslSocket(current)
    /\ NextEvent
    /\ accepts' = 0
    /\ current' = NoSession
    /\ UNCHANGED g_worker_exit_flag
    /\ KeepTimer

-----------------------------------------------------------------------------
(* The pipe from the monitor process.                                      *)

\* Mistaken: events of the closed listeners stay in the batch.
PipeClosedUnmasked ==
    /\ At("PIPE")
    /\ g_worker_exit_flag' = TRUE
    /\ batch' = Tail(batch)
    /\ index' = index + 1
    /\ UNCHANGED <<pc, nfds, accepts, current>>
    /\ KeepSessions /\ KeepTimer

PipeClosed ==
    /\ At("PIPE")
    /\ g_worker_exit_flag' = TRUE
    /\ batch' = [k \in 1 .. Len(batch) - 1 |->
          IF batch[k + 1].type = "LISTEN" THEN [batch[k + 1] EXCEPT !.type = "0"]
                                          ELSE batch[k + 1]]
    /\ index' = index + 1
    /\ UNCHANGED <<pc, nfds, accepts, current>>
    /\ KeepSessions /\ KeepTimer

\* The loop over the virtual hosts uses the index of the loop over the
\* events, and leaves it at virtual_host_hashsize.
PipeReopenLog ==
    /\ ReopenLog
    /\ At("PIPE")
    /\ batch' = Tail(batch)
    /\ index' = VirtualHostHashsize + 1
    /\ UNCHANGED <<pc, nfds, accepts, current, g_worker_exit_flag>>
    /\ KeepSessions /\ KeepTimer

-----------------------------------------------------------------------------
Timer == TimerWakes \/ TimerUpdates

Loop ==
    \/ EpollWait \/ LoopEnds
    \/ SweepTimeout \/ SweepElapse
    \/ BatchDone \/ PastTheEvents
    \/ HttpEvent \/ MaskedEvent
    \/ ListenEvent \/ Accept \/ AcceptEnds \/ AcceptFails \/ FirstHandshake
    \/ PipeClosed \/ PipeReopenLog

Next == Timer \/ Loop

Spec == Init /\ [][Next]_vars

\* Both threads are always scheduled again, and epoll_wait returns within a
\* second whether there are events or not.
FairSpec == Spec /\ WF_vars(Timer) /\ WF_vars(Loop)

-----------------------------------------------------------------------------
Stopped == pc = "returned" \/ ~Running

Event ==
    [type : {"HTTP", "LISTEN", "PIPE", "0"},
     of : Session \cup Listener \cup {NoSession},
     fd : {"netaddr", "forward_netaddr", "pipe"},
     flag : {"IN", "OUT", "RDHUP", "ERR"}]

WorkerTypeOK ==
    /\ TypeOK
    /\ connection_count \in [Server -> Nat]
    /\ disabled_left \in [Server -> 0 .. ForwardDisable + 1]
    /\ server_order \in Seq(Server)
    /\ conn \in [Session -> ConnType]
    /\ heap \in {"intact", "corrupt"}
    /\ alive \in BOOLEAN
    /\ pc \in {"epoll_wait", "sweep_timeout", "sweep_elapse", "dispatch",
               "accept", "handshake", "returned"}
    /\ batch \in Seq(Event)
    /\ nfds \in 0 .. MaxEvents
    /\ index \in Nat
    /\ accepts \in 0 .. MaxAccepts
    /\ current \in Session \cup {NoSession}
    /\ g_worker_exit_flag \in BOOLEAN
    /\ g_second_elapse \in BOOLEAN
    /\ timer \in {"sleep", "update"}

\* Whatever order events, expiries and failures come in, connection_count of
\* a server is the number of sessions with a forward connection to it: each
\* way out of a forward connection takes back what ConnectForwardServer added.
ForwardsCounted ==
    \A f \in Server : connection_count[f] =
        Cardinality({s \in InUse : conn[s].server = f /\ conn[s].flags # "none"})

\* Wherever the counts of a tree have gone since its nodes were put into it, and
\* however often the list was turned, the rule goes through every server, once:
\* none is lost to the clients by an attempt that fails, and none has two turns.
EveryServerOnce == \A f \in Server : OnceIn(server_order, f)

\* A client that is only watched for hanging up has a forward connection that
\* epoll watches, so something other than the timeout can end its wait; a
\* session that is not in use is watched for nothing.
NobodyForgotten ==
    \A s \in Session :
        /\ s \in InUse <=> conn[s].mask # "none"
        /\ s \notin InUse => ~Registered(conn[s]) /\ conn[s].flags = "none"
        /\ conn[s].mask = "RDHUP" => /\ conn[s].flags # "none"
                                     /\ Registered(conn[s])

\* The worker watches a client for output only with something to send or a
\* handshake or forward connection to go on with, and for input only between
\* a response and the next request.
RequestThenResponse ==
    \A s \in InUse : conn[s].ssl # "handshake" =>
        /\ conn[s].mask = "OUT" => conn[s].http = "response"
        /\ conn[s].mask = "IN" => /\ conn[s].http = "empty"
                                  /\ conn[s].flags = "none"

\* Once the pipe is closed no connection is accepted, not even for an event
\* of the same batch.
NoneAcceptedAfterExit ==
    [][g_worker_exit_flag => InUse' \subseteq InUse]_vars

\* To the pool a worker is a caller that releases a session only while it is
\* in use, up to the release of a session that was already released.
UsesPool == PoolSpec

\* No connection is held for longer than http_options.elapse without a
\* request or a response being completed, whatever its peer does: nothing
\* less restarts the interval, and a session whose interval is not restarted
\* is released.
ElapseEnforced ==
    /\ [][\A s \in InUse \cap InUse' :
             elapse_tree'[s] > elapse_tree[s] => conn'[s].http # conn[s].http]_vars
    /\ \A s \in Session :
          s \in InUse ~> (s \notin InUse \/ elapse_tree[s] = Elapse \/ Stopped)

\* Once the pipe is closed the worker returns, unless a connection goes on
\* completing requests or responses.
GracefulExit ==
    g_worker_exit_flag ~> (Stopped \/ \E s \in InUse : elapse_tree[s] = Elapse)

-----------------------------------------------------------------------------
(* What a comment of the code says and the code does not do.               *)

\* SetHttpSessionUnused moves "the current working session" to the list of
\* unused ones: it is called for sessions in use only.
ReleasedOnlyInUse == heap = "intact"
=============================================================================
