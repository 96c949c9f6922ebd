------------------------------- MODULE Monitor ------------------------------
(***************************************************************************)
(* The monitor process of MonitorProcess.c and, as far as it can tell,     *)
(* its workers: fork and waitpid, the pipes, the signals, and the epoll    *)
(* instances that InitEnvirment makes before it forks, so that a worker    *)
(* started in the place of another finds the one that worker used.         *)
(*                                                                         *)
(* pid and the descriptors of the pipes are in shared memory, and fork's   *)
(* result is stored there by both processes.                               *)
(***************************************************************************)
EXTENDS Integers, FiniteSets

CONSTANTS
    WorkerProcesses,  \* worker_processes
    Listener,         \* listening sockets
    AcceptMutex,      \* accept_mutex
    Failing           \* what may fail: "worker", "monitor", "fork", "malloc"

ASSUME MonitorAssumption ==
    /\ WorkerProcesses \in Nat \ {0}
    /\ AcceptMutex \in BOOLEAN
    /\ Failing \subseteq {"worker", "monitor", "fork", "malloc"}

VARIABLES
    mpc,                  \* where the monitor is
    mi,                   \* i of MonitorProcess
    worker_processes,     \* the local count of workers that are not reaped
    sig,                  \* the g_SIG*_flag that are set
    g_monitor_exit_flag,
    pid,                  \* process_info_array[i].pid
    pipe,                 \* the process that the pipe of each place leads to
    state,                \* where each process is
    writers,              \* who has the write end of the pipe of a process
    registered,           \* the listeners in each epoll instance
    ready,                \* the LISTEN events a worker has yet to act on
    died                  \* history: a worker has ended

monitorVars == <<mpc, mi, worker_processes, sig, g_monitor_exit_flag>>
tableVars == <<pid, pipe>>
listenVars == <<registered, ready>>
processVars == <<state, writers, died>>
vars == <<monitorVars, tableVars, listenVars, processVars>>

Place == 0 .. WorkerProcesses - 1
NoPid == 0
TheMonitor == -1

\* The numbers themselves make no difference, so every place has two of its
\* own, which would do for two workers at a time, and the next generation one.
Pid == 1 .. 2 * WorkerProcesses + 1
Generation == 2 * WorkerProcesses + 1
place(p) == (p - 1) \div 2    \* process_info_index of a worker
Worker == Pid \ {Generation}

\* "exec" and "generation" are the next generation, before and after execvp.
Booting == {"store", "branch", "close", "starting"}
Alive == Booting \cup {"running", "exiting"}

\* A new worker has the first of its place's pids that is free: the number of
\* the one before it, once that one is reaped, serves again.
NewPids(i) ==
    {p \in Worker : /\ place(p) = i /\ state[p] = "none"
                    /\ \A q \in 1 .. p - 1 : place(q) = i => state[q] # "none"}

Stopping == g_monitor_exit_flag \/ mpc \in {"worker", "finished", "gone"}

Init ==
    /\ mpc = "start" /\ mi = 0 /\ worker_processes = 0
    /\ sig = {} /\ g_monitor_exit_flag = FALSE
    /\ pid = [i \in Place |-> NoPid] /\ pipe = [i \in Place |-> NoPid]
    /\ state = [p \in Pid |-> "none"]
    /\ writers = [p \in Pid |-> {}]
    /\ registered = [i \in Place |-> {}] /\ ready = [p \in Pid |-> {}]
    /\ died = FALSE

-----------------------------------------------------------------------------
(* Descriptors.  A child has a copy of every write end its parent has.     *)

Inherited(p) ==
    [q \in Pid |-> IF TheMonitor \in writers[q] THEN writers[q] \cup {p} ELSE writers[q]]

Without(w, x) == [q \in Pid |-> w[q] \ {x}]

ForkWorker(i, p, first) ==
    /\ state' = [state EXCEPT ![p] = first]
    /\ writers' = [Inherited(p) EXCEPT ![p] = {TheMonitor, p}]
    /\ pipe' = [pipe EXCEPT ![i] = p]

\* What the monitor had in mind and the flags end with it.
MonitorEnds(how) ==
    /\ mpc' = how
    /\ mi' = 0 /\ worker_processes' = 0 /\ sig' = {}
    /\ writers' = Without(writers, TheMonitor)
    /\ UNCHANGED <<g_monitor_exit_flag, tableVars, listenVars, state, died>>

-----------------------------------------------------------------------------
(* The monitor.  Its first workers have their pid stored by it alone.  mi  *)
(* is kept while the place it names is being started, and is 0 otherwise.  *)

StartWorker ==
    /\ mpc = "start"
    /\ \E p \in NewPids(mi) :
          ForkWorker(mi, p, "close") /\ pid' = [pid EXCEPT ![mi] = p]
    /\ IF mi + 1 = WorkerProcesses
       THEN mpc' = "loop" /\ worker_processes' = WorkerProcesses
       ELSE UNCHANGED <<mpc, worker_processes>>
    /\ mi' = IF mi + 1 = WorkerProcesses THEN 0 ELSE mi + 1
    /\ UNCHANGED <<sig, g_monitor_exit_flag, died, listenVars>>

Children == {p \in Pid : state[p] # "none"}

\* waitpid waits for a child, or fails when there is none.
Waits ==
    /\ mpc = "loop"
    /\ worker_processes > 0
    /\ \A p \in Pid : state[p] # "zombie"
    /\ \/ /\ Children # {}
          /\ mpc' = "waitpid"
          /\ UNCHANGED <<mi, worker_processes, sig, g_monitor_exit_flag, tableVars,
                         listenVars, processVars>>
       \/ Children = {} /\ MonitorEnds("gone")

\* Mistaken: a pid that was cleared matches too.
MatchedOrCleared(p) == {i \in Place : pid[i] \in {p, NoPid}}

Matched(p) == {i \in Place : pid[i] = p}

\* Mistaken: the process is counted before it is looked for.
ReapUncounted(p) ==
    /\ state' = [state EXCEPT ![p] = "none"]
    /\ worker_processes' = worker_processes - 1
    /\ mpc' = "loop"
    /\ UNCHANGED <<mi, writers>>

ReapUnknown(p) ==
    /\ Matched(p) = {}
    /\ state' = [state EXCEPT ![p] = "none"]
    /\ mpc' = "loop"
    /\ UNCHANGED <<mi, worker_processes, writers>>

\* Mistaken: a worker is never started again.
NeverRestart(p, i) ==
    /\ state' = [state EXCEPT ![p] = "none"]
    /\ writers' = [writers EXCEPT ![pipe[i]] = @ \ {TheMonitor}]
    /\ worker_processes' = worker_processes - 1
    /\ mpc' = "loop"
    /\ UNCHANGED mi

\* Mistaken: a worker that was reaped still counts.
ReapStillCounted(p, i) ==
    /\ state' = [state EXCEPT ![p] = "none"]
    /\ writers' = [writers EXCEPT ![pipe[i]] = @ \ {TheMonitor}]
    /\ IF g_monitor_exit_flag THEN mpc' = "loop" /\ UNCHANGED mi
                              ELSE mpc' = "sleep" /\ mi' = i
    /\ UNCHANGED worker_processes

\* A worker of the table: its pipe is closed, and it is started again after
\* a second unless the exit flag is set at this moment.
ReapWorker(p, i) ==
    /\ state' = [state EXCEPT ![p] = "none"]
    /\ writers' = [writers EXCEPT ![pipe[i]] = @ \ {TheMonitor}]
    /\ worker_processes' = worker_processes - 1
    /\ IF g_monitor_exit_flag THEN mpc' = "loop" /\ UNCHANGED mi
                              ELSE mpc' = "sleep" /\ mi' = i

Reap(p) ==
    /\ mpc \in {"loop", "waitpid"}
    /\ worker_processes > 0
    /\ state[p] = "zombie"
    /\ ReapUnknown(p) \/ \E i \in Matched(p) : ReapWorker(p, i)
    /\ UNCHANGED <<sig, g_monitor_exit_flag, tableVars, died, listenVars>>

\* After the sleep, pipe() and fork(); then the result is stored, and read
\* again from the table.
Restart ==
    /\ mpc = "sleep"
    /\ \E p \in NewPids(mi) : ForkWorker(mi, p, "store")
    /\ mpc' = "store"
    /\ UNCHANGED <<mi, worker_processes, sig, g_monitor_exit_flag, pid,
                   died, listenVars>>

MonitorStores ==
    /\ mpc = "store"
    /\ pid' = [pid EXCEPT ![mi] = pipe[mi]]
    /\ mpc' = "branch"
    /\ UNCHANGED <<mi, worker_processes, sig, g_monitor_exit_flag, pipe,
                   listenVars, processVars>>

\* With 0 in the table the monitor goes on as if it were the child.
MonitorBranches ==
    /\ mpc = "branch"
    /\ \/ pid[mi] = NoPid /\ MonitorEnds("worker")
       \/ /\ pid[mi] # NoPid
          /\ mpc' = "loop" /\ mi' = 0
          /\ worker_processes' = worker_processes + 1
          /\ UNCHANGED <<sig, g_monitor_exit_flag, tableVars, listenVars, processVars>>

\* The loop ends when every worker of the table has been reaped.
MonitorReturns ==
    /\ mpc = "loop" /\ worker_processes = 0
    /\ MonitorEnds("finished")

-----------------------------------------------------------------------------
(* Signals set a flag, and interrupt the monitor only in waitpid.  Bound:  *)
(* there is one next generation at a time.                                 *)

Signal(s) ==
    /\ mpc \notin {"worker", "finished", "gone"}
    /\ s \notin sig
    /\ s = "USR2" => state[Generation] = "none"
    /\ sig' = sig \cup {s}
    /\ mpc' = IF mpc = "waitpid" THEN "eintr" ELSE mpc
    /\ UNCHANGED <<mi, worker_processes, g_monitor_exit_flag, tableVars,
                   listenVars, processVars>>

\* A byte in the pipe of each worker, which makes it reopen its logs.
ReopenLogs ==
    /\ sig' = sig \ {"USR1"}
    /\ UNCHANGED <<g_monitor_exit_flag, state, writers>>

\* The flag stays set when the listeners cannot be saved.
NextGeneration ==
    \/ /\ state[Generation] = "none"
       /\ state' = [state EXCEPT ![Generation] = "exec"]
       /\ writers' = Inherited(Generation)
       /\ sig' = sig \ {"USR2"}
       /\ UNCHANGED g_monitor_exit_flag
    \/ /\ "fork" \in Failing
       /\ sig' = sig \ {"USR2"}
       /\ UNCHANGED <<g_monitor_exit_flag, state, writers>>
    \/ "malloc" \in Failing /\ UNCHANGED <<sig, g_monitor_exit_flag, state, writers>>

\* Mistaken: the exit flag is not set.
CloseOnly ==
    /\ writers' = Without(writers, TheMonitor)
    /\ sig' = sig \ {"TERM"}
    /\ UNCHANGED <<g_monitor_exit_flag, state>>

CloseAll ==
    /\ writers' = Without(writers, TheMonitor)
    /\ sig' = sig \ {"TERM"}
    /\ g_monitor_exit_flag' = TRUE
    /\ UNCHANGED state

\* sig_proc acts on one flag.
SigProc ==
    /\ mpc = "eintr"
    /\ \/ "USR1" \in sig /\ ReopenLogs
       \/ "USR1" \notin sig /\ "USR2" \in sig /\ NextGeneration
       \/ sig = {"TERM"} /\ CloseAll
    /\ mpc' = "loop"
    /\ UNCHANGED <<mi, worker_processes, tableVars, listenVars, died>>

\* The monitor is killed, or pipe() or fork() fails and it returns.
MonitorFails ==
    /\ \/ "monitor" \in Failing /\ mpc \notin {"finished", "gone"}
       \/ "fork" \in Failing /\ mpc \in {"start", "sleep"}
    /\ MonitorEnds("gone")

-----------------------------------------------------------------------------
(* A worker's process, from fork to its loop.                              *)

\* The end of a worker; its pipe has no reader any more.
Dies(p) ==
    /\ state' = [state EXCEPT ![p] = "zombie"]
    /\ writers' = [Without(writers, p) EXCEPT ![p] = {}]
    /\ ready' = [ready EXCEPT ![p] = {}]
    /\ died' = TRUE

KeepMonitor == UNCHANGED <<monitorVars, pipe>>

ChildStores(p) ==
    /\ state[p] = "store"
    /\ pid' = [pid EXCEPT ![place(p)] = NoPid]
    /\ state' = [state EXCEPT ![p] = "branch"]
    /\ KeepMonitor
    /\ UNCHANGED <<listenVars, writers, died>>

\* With its own pid in the table the child goes on as if it were the parent:
\* it waits for children it does not have, and returns.
ChildBranches(p) ==
    /\ state[p] = "branch"
    /\ \/ /\ pid[place(p)] = NoPid
          /\ state' = [state EXCEPT ![p] = "close"]
          /\ UNCHANGED <<writers, died, ready>>
       \/ pid[place(p)] # NoPid /\ Dies(p)
    /\ KeepMonitor
    /\ UNCHANGED <<pid, registered>>

\* Mistaken: the write end of its own pipe is left open.
OwnPipeLeftOpen(p) ==
    /\ state[p] = "close"
    /\ writers' = [Without(writers, p) EXCEPT ![p] = writers[p]]
    /\ state' = [state EXCEPT ![p] = "starting"]
    /\ KeepMonitor
    /\ UNCHANGED <<pid, listenVars, died>>

ChildCloses(p) ==
    /\ state[p] = "close"
    /\ writers' = Without(writers, p)
    /\ state' = [state EXCEPT ![p] = "starting"]
    /\ KeepMonitor
    /\ UNCHANGED <<pid, listenVars, died>>

Registers(i) == ~AcceptMutex \/ i = 0

\* A listener that is registered already makes the worker return; those
\* before it in the list have been added.
WorkerStarts(p) ==
    /\ state[p] = "starting"
    /\ \/ /\ Registers(place(p)) => registered[place(p)] = {}
          /\ state' = [state EXCEPT ![p] = "running"]
          /\ registered' = IF Registers(place(p))
                           THEN [registered EXCEPT ![place(p)] = Listener]
                           ELSE registered
          /\ UNCHANGED <<writers, died, ready>>
       \/ /\ Registers(place(p)) /\ registered[place(p)] # {}
          /\ \E added \in SUBSET (Listener \ registered[place(p)]) :
                registered' = [registered EXCEPT ![place(p)] = @ \cup added]
          /\ Dies(p)
    /\ KeepMonitor
    /\ UNCHANGED pid

\* execvp closes the pipes, or fails and the process exits.
Execvp(p) ==
    /\ state[p] = "exec"
    /\ \E s \in {"generation", "zombie"} : state' = [state EXCEPT ![p] = s]
    /\ writers' = Without(writers, p)
    /\ KeepMonitor
    /\ UNCHANGED <<pid, listenVars, died>>

GenerationEnds(p) ==
    /\ state[p] = "generation"
    /\ state' = [state EXCEPT ![p] = "zombie"]
    /\ KeepMonitor
    /\ UNCHANGED <<pid, listenVars, writers, died>>

-----------------------------------------------------------------------------
(* A worker's loop: the pipe, the listeners, and handing them over.        *)

ReadsEnd(p) ==
    /\ state[p] = "running"
    /\ writers[p] = {}
    /\ state' = [state EXCEPT ![p] = "exiting"]
    /\ registered' = [registered EXCEPT ![place(p)] = {}]
    /\ ready' = [ready EXCEPT ![p] = {}]
    /\ KeepMonitor
    /\ UNCHANGED <<pid, writers, died>>

WorkerReturns(p) ==
    /\ state[p] = "exiting"
    /\ Dies(p)
    /\ KeepMonitor
    /\ UNCHANGED <<pid, registered>>

Collects(p) ==
    /\ state[p] = "running" /\ ready[p] = {}
    /\ \E events \in SUBSET registered[place(p)] \ {{}} :
          ready' = [ready EXCEPT ![p] = events]
    /\ KeepMonitor
    /\ UNCHANGED <<pid, registered, processVars>>

Balanced == AcceptMutex /\ WorkerProcesses > 1

\* Mistaken: the listeners stay registered where they were.
Copied(i, to) == [registered EXCEPT ![to] = Listener]

Moved(i, to) == [registered EXCEPT ![i] = @ \ Listener, ![to] = Listener]

\* Both calls of the hand-over succeed for these.
Movable(i, to) == registered[i] \ registered[to]

\* A LISTEN event; the connections are those of Worker.  The listeners then
\* go to the place with the fewest connections, which may be any.
AcceptsAndKeeps(p, l) ==
    /\ l \in ready[p]
    /\ ready' = [ready EXCEPT ![p] = @ \ {l}]
    /\ KeepMonitor
    /\ UNCHANGED <<pid, registered, processVars>>

AcceptsAndHandsOver(p, l, to) ==
    /\ l \in ready[p] /\ Balanced
    /\ to # place(p)
    /\ Listener \subseteq Movable(place(p), to)
    /\ registered' = Moved(place(p), to)
    /\ ready' = [ready EXCEPT ![p] = @ \ {l}]
    /\ KeepMonitor
    /\ UNCHANGED <<pid, processVars>>

\* The worker ends at listener m, because epoll_ctl fails for it, or because
\* the worker is killed there; m may then be in nobody's epoll instance.
HandOverCut(p, l, to, m) ==
    /\ l \in ready[p] /\ Balanced
    /\ to # place(p)
    /\ \E done \in SUBSET (Movable(place(p), to) \ {m}), lost \in SUBSET {m} :
          /\ "worker" \in Failing \/ (m \notin Movable(place(p), to) /\ lost = {m})
          /\ registered' = [registered EXCEPT ![place(p)] = @ \ (done \cup lost),
                                              ![to] = @ \cup done]
    /\ Dies(p)
    /\ KeepMonitor
    /\ UNCHANGED pid

\* A listener handed to a worker that has closed it: accept() fails.
AcceptsClosed(p) ==
    /\ state[p] = "exiting"
    /\ registered[place(p)] # {}
    /\ Dies(p)
    /\ KeepMonitor
    /\ UNCHANGED <<pid, registered>>

\* A worker is killed, or WorkerThread returns for any other reason.
WorkerFails(p) ==
    /\ "worker" \in Failing
    /\ state[p] \in Alive
    /\ Dies(p)
    /\ KeepMonitor
    /\ UNCHANGED <<pid, registered>>

-----------------------------------------------------------------------------
MonitorStep ==
    \/ StartWorker \/ Waits \/ Restart \/ MonitorStores
    \/ (\E p \in Pid : Reap(p))
    \/ MonitorBranches \/ MonitorReturns \/ SigProc

Boots(p) ==
    ChildStores(p) \/ ChildBranches(p) \/ ChildCloses(p) \/ WorkerStarts(p) \/ Execvp(p)

Obeys(p) == ReadsEnd(p) \/ WorkerReturns(p)

Accepts(p) ==
    \/ Collects(p) \/ AcceptsClosed(p)
    \/ \E l \in Listener :
          \/ AcceptsAndKeeps(p, l)
          \/ \E to \in Place : \/ AcceptsAndHandsOver(p, l, to)
                               \/ \E m \in Listener : HandOverCut(p, l, to, m)

Next ==
    \/ MonitorStep \/ MonitorFails
    \/ \E s \in {"USR1", "USR2", "TERM"} : Signal(s)
    \/ \E p \in Pid : \/ Boots(p) \/ Obeys(p) \/ Accepts(p)
                      \/ WorkerFails(p) \/ GenerationEnds(p)

Spec == Init /\ [][Next]_vars

\* Each process is scheduled, the pipe is in every batch of events once it is
\* closed, and a worker's last connection ends (GracefulExit of Worker).  A
\* child that has ended is not passed over by waitpid for ever: Linux looks
\* for one in the order they were forked.
FairSpec ==
    /\ Spec
    /\ WF_vars(MonitorStep)
    /\ \A p \in Pid : WF_vars(Boots(p) \/ Obeys(p))
    /\ \A i \in Place : SF_vars(\E p \in Worker : place(p) = i /\ Reap(p))
-----------------------------------------------------------------------------
MonitorTypeOK ==
    /\ mpc \in {"start", "loop", "waitpid", "eintr", "sleep", "store", "branch",
                "worker", "finished", "gone"}
    /\ mi \in Place
    /\ worker_processes \in 0 .. WorkerProcesses
    /\ sig \subseteq {"USR1", "USR2", "TERM"}
    /\ g_monitor_exit_flag \in BOOLEAN
    /\ pid \in [Place -> Pid \cup {NoPid}]
    /\ pipe \in [Place -> Pid \cup {NoPid}]
    /\ state \in [Pid -> Alive \cup {"none", "zombie", "exec", "generation"}]
    /\ writers \in [Pid -> SUBSET (Pid \cup {TheMonitor})]
    /\ registered \in [Place -> SUBSET Listener]
    /\ ready \in [Pid -> SUBSET Listener]
    /\ died \in BOOLEAN

\* Two processes never work in one place, where they would share the epoll
\* instance and the pipe: a worker is started again only after it was reaped.
OneProcessPerPlace ==
    \A p, q \in Worker : /\ state[p] \in Alive /\ state[q] \in Alive
                         /\ place(p) = place(q)
                         => p = q

\* A worker stops accepting only because the monitor was told to end or has
\* ended, not because another worker has: until then its pipe has a writer.
StopsOnlyWhenTold ==
    \A p \in Pid : state[p] = "exiting" => Stopping

\* The monitor returns only after its last worker.
ReturnsLast == mpc = "finished" => \A p \in Pid : state[p] \notin Alive

\* With accept_mutex every listener is in the epoll instance of one worker,
\* from the start of the first one until a worker ends or all are told to.
OneAcceptor ==
    AcceptMutex /\ ~died /\ ~Stopping =>
        \A l \in Listener :
            Cardinality({i \in Place : l \in registered[i]}) =
                IF \E p \in Pid : place(p) = 0 /\ state[p] = "running" THEN 1 ELSE 0

\* When the monitor has been told to end, or has ended for any reason, every
\* worker ends: no process keeps the write end of another one's pipe.
AllEndTogether == Stopping ~> \A p \in Pid : state[p] \notin Alive

\* The end of a worker whose pid is in the table is followed by the fork of
\* another in its place.
Replaced ==
    \A i \in Place :
        (pid[i] # NoPid /\ mpc # "start" /\ state[pipe[i]] \notin Alive)
            ~> (Stopping \/ pid[i] = NoPid \/ state[pipe[i]] \in Alive)

-----------------------------------------------------------------------------
(* What hetao's README says and the code does not do.                      *)

\* README: a worker that crashed is restarted.  Its replacement adds its
\* listeners to the epoll instance, where none may be registered already.
RestartSucceeds ==
    \A p \in Worker : state[p] = "starting" /\ Registers(place(p))
                   => registered[place(p)] = {}
=============================================================================
