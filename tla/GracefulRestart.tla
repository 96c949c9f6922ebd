-------------------------- MODULE GracefulRestart --------------------------
(***************************************************************************)
(* The generations of the server (Envirment.c, ListenSession.c): on        *)
(* SIGUSR2 the monitor saves the numbers of its listening sockets in the   *)
(* environment and executes the program again; the next generation adopts  *)
(* the sockets that its configuration asks for, makes the others it needs, *)
(* and closes the ones it has no use for.  bin/hetao.sh then terminates    *)
(* the old generation.  The monitor and the workers of one generation hold *)
(* the same sockets and are one process here; Monitor has them apart.      *)
(***************************************************************************)
EXTENDS Integers, Sequences, SequencesExt

CONSTANTS
    Address,        \* records of ip and port; ip "" is every address of the host
    Config,         \* the listen sections of a configuration, sequences of addresses
    MaxGenerations  \* bound: how often the program is executed

ASSUME GracefulRestartAssumption ==
    /\ \A a \in Address : DOMAIN a = {"ip", "port"}
    /\ \A c \in Config : c \in Seq(Address) /\ c # <<>>
    /\ MaxGenerations \in Nat

\* The configurations for which GetListener can do no harm: a port that is asked for on
\* every address of the host is asked for on no single one, and no address is named twice.
OneAddressPerPort == \A a, b \in Address : a.ip = "" /\ a.port = b.port => a = b
DistinctSections ==
    \A c \in Config : \A i, j \in DOMAIN c : c[i] = c[j] => i = j

VARIABLES
    sockets,  \* the address each listening socket is bound to, in the order they were made
    backlog,  \* the sockets with a connection that nobody has accepted yet
    gens      \* the generations, in the order they were executed

vars == <<sockets, backlog, gens>>

\* conf: what the configuration file said; old: old_netaddr_array, ip being "" once
\* taken; listen: listen_session_list; fds: the listening sockets it holds.
Executed(conf, old, fds) ==
    [phase |-> "starting", conf |-> conf, old |-> old, listen |-> <<>>, fds |-> fds]
Live == {g \in DOMAIN gens : gens[g].phase \in {"starting", "serving", "draining"}}
Serving == {g \in DOMAIN gens : gens[g].phase = "serving"}
Held == UNION {gens[g].fds : g \in Live}

Init == sockets = <<>> /\ backlog = {} /\ gens = <<>>

\* Sockets that no process holds any longer are closed, and their backlog is reset.
Become(g, r) ==
    /\ gens' = [gens EXCEPT ![g] = r]
    /\ backlog' = backlog \cap UNION {gens'[h].fds : h \in DOMAIN gens}

-----------------------------------------------------------------------------
(* SaveListenSockets, fork, execvp and LoadOldListenSockets.               *)

\* Mistaken: the number of sockets is one too small.
SaveAllButOne(listen) == Tail(listen)

\* What getsockname and inet_ntop give for each socket; inet_ntop is handed the
\* sockaddr instead of the address in it, so that the text is of neither use.
SaveListenSockets(listen) == listen
LoadOldListenSockets(saved) == [i \in DOMAIN saved |-> [sock |-> saved[i], ip |-> "text"]]

\* hetao.sh start, when no generation is left.
Start(conf) ==
    /\ Live = {} /\ Len(gens) < MaxGenerations
    /\ gens' = Append(gens, Executed(conf, <<>>, {}))
    /\ UNCHANGED <<sockets, backlog>>

\* hetao.sh restart_graceful, when there is one monitor.
Restart(g, conf) ==
    /\ Live = {g} /\ g \in Serving /\ Len(gens) < MaxGenerations
    /\ LET old == LoadOldListenSockets(SaveListenSockets(gens[g].listen)) IN
       gens' = Append(gens, Executed(conf, old, gens[g].fds))
    /\ UNCHANGED <<sockets, backlog>>

-----------------------------------------------------------------------------
(* InitListenEnvirment: one step for each listen section.                  *)

Wanted(g) == gens[g].conf[Len(gens[g].listen) + 1]
StillListening(g) ==
    gens[g].phase = "starting" /\ Len(gens[g].listen) < Len(gens[g].conf)

\* The address is compared with the word ip and not with the parameter of that name.
Matches(o, a) == (a.ip = "" \/ o.ip = "ip") /\ sockets[o.sock].port = a.port

\* Mistaken: an adopted socket is not marked, and will be closed with the unused ones.
GetListenerUnmarked(old, a) ==
    {[old |-> old, sock |-> old[i].sock] :
        i \in {j \in DOMAIN old : Matches(old[j], a) /\ \A k \in 1 .. j - 1 : ~ Matches(old[k], a)}}

\* Empty, or the first match and the array with that entry marked as taken.
GetListener(old, a) ==
    {[old |-> [old EXCEPT ![i].ip = ""], sock |-> old[i].sock] :
        i \in {j \in DOMAIN old : Matches(old[j], a) /\ \A k \in 1 .. j - 1 : ~ Matches(old[k], a)}}

Adopt(g) ==
    /\ StillListening(g)
    /\ \E l \in GetListener(gens[g].old, Wanted(g)) :
         Become(g, [gens[g] EXCEPT !.old = l.old, !.listen = <<l.sock>> \o @])
    /\ UNCHANGED sockets

\* SO_REUSEADDR or not, an address that somebody listens on cannot be bound.
InUse(a) ==
    \E s \in Held : sockets[s].port = a.port
                    /\ (sockets[s].ip = a.ip \/ sockets[s].ip = "" \/ a.ip = "")

Bind(g) ==
    LET s == Len(sockets) + 1 IN
    /\ StillListening(g) /\ GetListener(gens[g].old, Wanted(g)) = {} /\ ~ InUse(Wanted(g))
    /\ sockets' = Append(sockets, Wanted(g))
    /\ Become(g, [gens[g] EXCEPT !.listen = <<s>> \o @, !.fds = @ \cup {s}])

BindRefused(g) ==
    /\ StillListening(g) /\ GetListener(gens[g].old, Wanted(g)) = {} /\ InUse(Wanted(g))
    /\ Become(g, [gens[g] EXCEPT !.phase = "refused", !.fds = {}])
    /\ UNCHANGED sockets

\* execvp, the configuration, memory, a certificate, a log file or the rest of
\* InitEnvirment fails: the process returns from main.
StartFails(g) ==
    /\ gens[g].phase = "starting"
    /\ Become(g, [gens[g] EXCEPT !.phase = "failed", !.fds = {}])
    /\ UNCHANGED sockets

\* Mistaken: all sockets of the old generation are closed.
CloseAllOldListeners(r) ==
    [r EXCEPT !.fds = @ \ {o.sock : o \in ToSet(r.old)}]

\* Mistaken: the sockets that are not adopted stay open.
CloseNoOldListeners(r) == r

\* Mistaken: the adopted sockets are closed and not the others.
CloseTakenListeners(r) ==
    [r EXCEPT !.fds = @ \ {o.sock : o \in {q \in ToSet(r.old) : q.ip = ""}}]

CloseUnusedOldListeners(r) ==
    [r EXCEPT !.fds = @ \ {o.sock : o \in {q \in ToSet(r.old) : q.ip # ""}}]

\* The rest of InitEnvirment and BindDaemonServer: the monitor is there, with its workers.
Serve(g) ==
    /\ gens[g].phase = "starting" /\ ~ StillListening(g)
    /\ Become(g, [CloseUnusedOldListeners(gens[g]) EXCEPT !.phase = "serving", !.old = <<>>])
    /\ UNCHANGED sockets

-----------------------------------------------------------------------------
(* The end of a generation, and the clients.                               *)

\* SIGTERM, from hetao.sh once there is a new monitor, or to stop the server: the
\* workers close the listeners and go on with their connections, and the monitor waits.
Terminate(g) ==
    /\ g \in Serving /\ \A h \in Serving : g <= h
    /\ Become(g, [gens[g] EXCEPT !.phase = "draining"])
    /\ UNCHANGED sockets

GenerationEnds(g) ==
    /\ gens[g].phase = "draining"
    /\ Become(g, [gens[g] EXCEPT !.phase = "ended", !.fds = {}])
    /\ UNCHANGED sockets

Connect(s) ==
    /\ s \in Held \ backlog
    /\ backlog' = backlog \cup {s}
    /\ UNCHANGED <<sockets, gens>>

Accept(g, s) ==
    /\ g \in Serving /\ s \in ToSet(gens[g].listen) \cap gens[g].fds \cap backlog
    /\ backlog' = backlog \ {s}
    /\ UNCHANGED <<sockets, gens>>

-----------------------------------------------------------------------------
Next ==
    \/ \E c \in Config : Start(c) \/ \E g \in DOMAIN gens : Restart(g, c)
    \/ \E g \in DOMAIN gens :
         \/ Adopt(g) \/ Bind(g) \/ BindRefused(g) \/ StartFails(g) \/ Serve(g)
         \/ Terminate(g) \/ GenerationEnds(g)
         \/ \E s \in ToSet(gens[g].listen) : Accept(g, s)
    \/ \E s \in DOMAIN sockets : Connect(s)

Spec == Init /\ [][Next]_vars

-----------------------------------------------------------------------------
(* Properties.                                                             *)

GracefulRestartTypeOK ==
    /\ sockets \in Seq(Address)
    /\ backlog \subseteq Held
    /\ \A g \in DOMAIN gens :
         /\ gens[g].conf \in Config
         /\ gens[g].fds \subseteq DOMAIN sockets
         /\ ToSet(gens[g].listen) \subseteq DOMAIN sockets
         /\ g \in Serving => ToSet(gens[g].listen) \subseteq gens[g].fds
         /\ Len(gens[g].listen) <= Len(gens[g].conf)

\* A generation that serves listens on every address of its configuration, whichever of
\* the sockets it has inherited, adopted or made (GetListener, CloseUnusedOldListeners).
ListensWhereConfigured ==
    \A g \in Serving : \A k \in DOMAIN gens[g].conf :
        \E s \in gens[g].fds : s \in ToSet(gens[g].listen) /\ sockets[s] = gens[g].conf[k]

\* It holds no other: a port that was taken out of the configuration is free for others
\* once the generation that had it is gone, however many restarts lie between.
HoldsNothingElse == \A g \in Serving : gens[g].fds \subseteq ToSet(gens[g].listen)

\* bind is refused only for an address that is given explicitly: a server that listens on
\* every address of the host can be restarted with any configuration of that kind.
RefusedOnlyExplicit ==
    \A g \in DOMAIN gens : gens[g].phase = "refused" => Wanted(g).ip # ""

\* No step of a restart, failed or not, resets a client that has connected to an address
\* which a serving generation has in its configuration and that waits to be accepted.
Stays(s) == \E g \in Serving : sockets[s] \in ToSet(gens[g].conf)
NobodyReset == [][\A s \in backlog : Stays(s) => s \in Held']_vars
=============================================================================
