---------------------------- MODULE Monitor_proofs --------------------------
(***************************************************************************)
(* For every number of places and of listeners: the monitor's types, one   *)
(* process in a place, workers that stop only when they are told to, a     *)
(* monitor that returns after them, and one acceptor for every listener.   *)
(***************************************************************************)
EXTENDS Monitor, FiniteSetTheorems, TLAPS

-----------------------------------------------------------------------------
(* The inductive invariant, in parts.                                      *)

Watching == {"loop", "waitpid", "eintr"}
Restarting == {"sleep", "store", "branch"}
Working == {"start"} \cup Watching \cup Restarting

\* The next generation and the workers do not trade places.
Kinds ==
    /\ \A p \in Worker : state[p] \notin {"exec", "generation"}
    /\ state[Generation] \in {"none", "exec", "generation", "zombie"}

\* The only child of a place is the one that its pipe leads to.
OneChild == \A p \in Worker : state[p] # "none" => pipe[place(p)] = p

PipeOfPlace ==
    \A i \in Place : pipe[i] # NoPid => pipe[i] \in Worker /\ place(pipe[i]) = i

\* The places are filled in order, and have all been filled after the start.
Started ==
    /\ mpc = "start" =>
          /\ \A p \in Worker : place(p) >= mi => state[p] = "none"
          /\ \A i \in Place : i < mi => pipe[i] # NoPid /\ state[pipe[i]] # "none"
    /\ mpc \in Watching \cup Restarting => \A i \in Place : pipe[i] # NoPid

\* The table names the process of each place or nobody, but for the place of
\* a process that was forked and is not stored yet.
Table ==
    mpc \in Working =>
        \A i \in Place : pid[i] \in {NoPid, pipe[i]} \/ (mpc = "store" /\ i = mi)

\* The place that is being restarted: empty until the fork.
Vacant == mpc = "sleep" => pid[mi] = pipe[mi] /\ state[pipe[mi]] = "none"
Forked == mpc \in {"store", "branch"} => state[pipe[mi]] # "none"

\* What worker_processes counts: a process that ended with 0 in the table is
\* never taken off, and one that was just forked is not yet put on.
Reaped == {i \in Place : pid[i] = pipe[i] /\ state[pipe[i]] = "none"}
Counted == (Place \ Reaped) \ (IF mpc \in {"store", "branch"} THEN {mi} ELSE {})
Count ==
    /\ mpc = "start" => worker_processes = 0
    /\ mpc \in Watching \cup Restarting => worker_processes = Cardinality(Counted)

\* The monitor holds the pipe of every worker until it closes them all.
Held == ~Stopping => \A p \in Worker : state[p] \in Alive => TheMonitor \in writers[p]

\* Only a worker in its loop has events to act on.
Listening == \A p \in Pid : ready[p] # {} => state[p] = "running"

\* Before the worker of place 0 runs nobody listens; then one place does.
Acceptor ==
    AcceptMutex /\ ~died /\ ~Stopping =>
        \/ /\ \A p \in Worker : place(p) = 0 => state[p] # "running"
           /\ \A i \in Place : registered[i] = {}
        \/ /\ \E p \in Worker : place(p) = 0 /\ state[p] = "running"
           /\ \E j \in Place : /\ registered[j] = Listener
                               /\ \A i \in Place \ {j} : registered[i] = {}

\* What concerns the monitor's account of its children.
Account ==
    /\ Kinds /\ OneChild /\ PipeOfPlace /\ Started /\ Table /\ Vacant /\ Forked
    /\ Count /\ Held

IInv == /\ MonitorTypeOK /\ Account /\ Listening
        /\ StopsOnlyWhenTold /\ ReturnsLast /\ Acceptor

-----------------------------------------------------------------------------
(* Places.                                                                 *)

\* The place of a worker is one, and the next generation's is not.
LEMMA PlaceOfWorker ==
    /\ \A p \in Worker : p \in Pid /\ p \in Nat /\ p # NoPid /\ place(p) \in Place
    /\ Generation \in Pid /\ Generation \notin Worker
    /\ \A p \in Pid : p # Generation => p \in Worker
    /\ NoPid \notin Pid /\ TheMonitor \notin Pid
    /\ 0 \in Place
  BY MonitorAssumption DEF Pid, Generation, Worker, Place, place, NoPid, TheMonitor

\* There are as many places as workers to be kept.
LEMMA PlacesFinite ==
    /\ IsFiniteSet(Place) /\ Cardinality(Place) = WorkerProcesses
    /\ \A S \in SUBSET Place : /\ IsFiniteSet(S)
                               /\ Cardinality(S) \in 0 .. WorkerProcesses
  <1>1. IsFiniteSet(Place) /\ Cardinality(Place) = WorkerProcesses
    BY FS_Interval, MonitorAssumption DEF Place
  <1>2. ASSUME NEW S \in SUBSET Place
        PROVE  IsFiniteSet(S) /\ Cardinality(S) \in 0 .. WorkerProcesses
    <2>1. IsFiniteSet(S) /\ Cardinality(S) <= WorkerProcesses
      BY <1>1, FS_Subset
    <2>2. Cardinality(S) \in Nat
      BY <2>1, FS_CardinalityType
    <2> QED BY <2>1, <2>2, MonitorAssumption
  <1> QED BY <1>1, <1>2

-----------------------------------------------------------------------------
(* The steps of the children, as the monitor's account sees them.          *)

States == Alive \cup {"none", "zombie", "exec", "generation"}

\* A child goes on or ends; the table may lose it, and nobody but those that
\* end lose the write end that the monitor holds.
GoesOn(p, s) ==
    /\ UNCHANGED <<mpc, mi, worker_processes, sig, g_monitor_exit_flag, pipe>>
    /\ state[p] # "none" /\ state' = [state EXCEPT ![p] = s]
    /\ s \in Alive => state[p] \in Alive
    /\ s \in {"exec", "generation"} => p = Generation
    /\ p = Generation => s \in {"exec", "generation", "zombie"}
    /\ \/ pid' = pid
       \/ p \in Worker /\ pid' = [pid EXCEPT ![place(p)] = NoPid]
    /\ \A q \in Pid : /\ TheMonitor \in writers[q]
                      /\ q = p => s \in Alive
                      => TheMonitor \in writers'[q]

\* The account is right after such a step.
LEMMA GoesOnAccount ==
    ASSUME MonitorTypeOK, Account, ReturnsLast,
           NEW p \in Pid, NEW s \in States \ {"none"}, GoesOn(p, s)
    PROVE  Account' /\ ReturnsLast'
  <1> USE DEF GoesOn
  <1>1. /\ \A q \in Pid : state'[q] = IF q = p THEN s ELSE state[q]
        /\ \A q \in Pid : state'[q] = "none" <=> state[q] = "none"
    BY DEF MonitorTypeOK, States, Alive, Booting
  <1>2. \A i \in Place : pipe[i] # NoPid =>
            (state'[pipe'[i]] = "none" <=> state[pipe[i]] = "none")
    BY <1>1, PlaceOfWorker DEF Account, PipeOfPlace
  <1>3. Kinds'
    BY <1>1, PlaceOfWorker DEF Account, Kinds, Generation, Worker, Pid
  <1>4. OneChild' /\ PipeOfPlace'
    BY <1>1, PlaceOfWorker DEF Account, OneChild, PipeOfPlace, Worker, Pid, Place, place, NoPid
  <1>5. Started'
    BY <1>1, <1>2, PlaceOfWorker
    DEF Account, Started, Watching, Restarting, Worker, Pid, Place, place, NoPid
  <1>6. \A i \in Place : pid'[i] = pid[i] \/ pid'[i] = NoPid
    BY DEF MonitorTypeOK
  <1>7. ASSUME NEW i \in Place, pid'[i] # pid[i]
        PROVE  pid'[i] = NoPid /\ pipe[i] = p /\ state[pipe[i]] # "none"
    BY <1>7, PlaceOfWorker DEF MonitorTypeOK, Account, OneChild
  <1>8. Table'
    BY <1>6 DEF Account, Table, Working, Watching, Restarting, Place
  <1>9. Vacant' /\ Forked'
    <2>1. mi \in Place /\ mi' = mi /\ mpc' = mpc /\ pipe' = pipe
      BY DEF MonitorTypeOK
    <2>2. mpc \in Restarting => pipe[mi] # NoPid
      BY <2>1 DEF Account, Started
    <2> QED BY <1>2, <1>7, <2>1, <2>2 DEF Account, Vacant, Forked, Restarting
  <1>10. Count'
    <2>1. ASSUME mpc \in Watching \cup Restarting PROVE Counted' = Counted
      <3>1. \A i \in Place : pipe[i] # NoPid
        BY <2>1 DEF Account, Started
      <3>2. ASSUME NEW i \in Place PROVE i \in Reaped' <=> i \in Reaped
        BY <1>2, <1>7, <3>1, <3>2 DEF Reaped, Place
      <3>3. Reaped' = Reaped
        BY <3>2 DEF Reaped, Place
      <3> QED BY <3>3 DEF Counted, Place
    <2> QED BY <2>1 DEF Account, Count, Watching, Restarting
  <1>11. Held'
    BY <1>1, PlaceOfWorker DEF Account, Held, Stopping, Worker, Pid, Generation
  <1>12. ReturnsLast'
    BY <1>1 DEF ReturnsLast, Pid
  <1> QED BY <1>3, <1>4, <1>5, <1>8, <1>9, <1>10, <1>11, <1>12 DEF Account

\* Each of the steps of a child is one of those, and its other variables are
\* as the model says: types, events, listeners, and who stops accepting.
Child(p) == Boots(p) \/ Obeys(p) \/ Accepts(p) \/ WorkerFails(p) \/ GenerationEnds(p)

\* The end of a worker: what an event or a listener was is of no concern then.
LEMMA DiesStep ==
    ASSUME MonitorTypeOK, Kinds, NEW p \in Pid, state[p] \in Alive,
           Dies(p), KeepMonitor,
           \/ pid' = pid
           \/ p \in Worker /\ pid' = [pid EXCEPT ![place(p)] = NoPid],
           registered' \in [Place -> SUBSET Listener]
    PROVE  /\ GoesOn(p, "zombie") /\ p \in Worker
           /\ MonitorTypeOK' /\ died'
           /\ Listening => Listening'
           /\ StopsOnlyWhenTold => StopsOnlyWhenTold'
  <1> USE DEF Dies, KeepMonitor, monitorVars
  <1>1. p # Generation
    BY DEF Kinds, Alive, Booting
  <1>2. p \in Worker /\ p # TheMonitor
    BY <1>1, PlaceOfWorker
  <1>3. MonitorTypeOK'
    BY PlaceOfWorker DEF MonitorTypeOK, Without, Alive
  <1>4. \A q \in Pid : TheMonitor \in writers[q] /\ q # p => TheMonitor \in writers'[q]
    BY <1>2 DEF MonitorTypeOK, Without
  <1>5. GoesOn(p, "zombie")
    BY <1>1, <1>4 DEF GoesOn, Alive, Booting, Stopping
  <1>6. Listening => Listening'
    BY DEF Listening, MonitorTypeOK
  <1>7. StopsOnlyWhenTold => StopsOnlyWhenTold'
    BY DEF StopsOnlyWhenTold, MonitorTypeOK, Stopping
  <1> QED BY <1>2, <1>3, <1>5, <1>6, <1>7

\* Who listens, as long as no worker ended and none was told to.
LEMMA ListenersStay ==
    ASSUME MonitorTypeOK, Acceptor, registered' = registered,
           died' = died, Stopping' = Stopping,
           \A q \in Worker : place(q) = 0 => (state'[q] = "running" <=> state[q] = "running")
    PROVE  Acceptor'
  BY DEF Acceptor, Worker, Pid, Generation, Place, place


\* Booting: a step of a new process before its loop keeps the invariant.
LEMMA BootsStep ==
    ASSUME IInv, NEW p \in Pid, Boots(p)
    PROVE  IInv'
  <1> USE DEF IInv, KeepMonitor, monitorVars, listenVars
  <1>0. /\ Kinds /\ OneChild /\ Held
        /\ p # Generation => p \in Worker /\ place(p) \in Place
        /\ p # TheMonitor
    BY PlaceOfWorker DEF Account
  <1> DEFINE Kept == /\ \E s \in States \ {"none"} : GoesOn(p, s)
                     /\ MonitorTypeOK' /\ Listening' /\ StopsOnlyWhenTold' /\ Acceptor'
  <1>1. SUFFICES Kept
    BY GoesOnAccount
  <1>2. ASSUME Dies(p), KeepMonitor, state[p] \in Alive, pid' = pid,
               registered' \in [Place -> SUBSET Listener]
        PROVE  Kept
    BY <1>0, <1>2, DiesStep DEF Acceptor, States
  <1>3. CASE ChildStores(p)
    <2> USE <1>3 DEF ChildStores
    <2>1. p # Generation
      BY <1>0 DEF Kinds
    <2>2. MonitorTypeOK'
      BY DEF MonitorTypeOK, Alive, Booting
    <2>3. GoesOn(p, "branch")
      BY <1>0, <2>1 DEF GoesOn, Alive, Booting
    <2>4. Listening' /\ StopsOnlyWhenTold'
      BY DEF Listening, StopsOnlyWhenTold, Stopping, MonitorTypeOK
    <2>5. Acceptor'
      BY ListenersStay DEF Stopping, MonitorTypeOK, Worker
    <2> QED BY <2>2, <2>3, <2>4, <2>5 DEF States, Alive, Booting
  <1>4. CASE ChildBranches(p)
    <2> USE <1>4 DEF ChildBranches
    <2>1. CASE pid[place(p)] = NoPid /\ state' = [state EXCEPT ![p] = "close"]
                                     /\ UNCHANGED <<writers, died, ready>>
      <3>1. p # Generation
        BY <1>0 DEF Kinds
      <3>2. MonitorTypeOK'
        BY <2>1 DEF MonitorTypeOK, Alive, Booting
      <3>3. GoesOn(p, "close")
        BY <1>0, <2>1, <3>1 DEF GoesOn, Alive, Booting
      <3>4. Listening' /\ StopsOnlyWhenTold'
        BY <2>1 DEF Listening, StopsOnlyWhenTold, Stopping, MonitorTypeOK
      <3>5. Acceptor'
        BY <2>1, ListenersStay DEF Stopping, MonitorTypeOK, Worker
      <3> QED BY <3>2, <3>3, <3>4, <3>5 DEF States, Alive, Booting
    <2>2. CASE Dies(p)
      BY <1>2, <2>2 DEF MonitorTypeOK, Alive, Booting
    <2> QED BY <2>1, <2>2
  <1>5. CASE ChildCloses(p)
    <2> USE <1>5 DEF ChildCloses
    <2>1. p # Generation
      BY <1>0 DEF Kinds
    <2>2. MonitorTypeOK'
      BY DEF MonitorTypeOK, Alive, Booting, Without
    <2>3. GoesOn(p, "starting")
      BY <1>0, <2>1 DEF GoesOn, Alive, Booting, Without, MonitorTypeOK
    <2>4. Listening' /\ StopsOnlyWhenTold'
      BY DEF Listening, StopsOnlyWhenTold, Stopping, MonitorTypeOK
    <2>5. Acceptor'
      BY ListenersStay DEF Stopping, MonitorTypeOK, Worker
    <2> QED BY <2>2, <2>3, <2>4, <2>5 DEF States, Alive, Booting
  <1>6. CASE WorkerStarts(p)
    <2> USE <1>6 DEF WorkerStarts
    <2>0. p # Generation
      BY <1>0 DEF Kinds
    <2>1. CASE /\ Registers(place(p)) => registered[place(p)] = {}
               /\ state' = [state EXCEPT ![p] = "running"]
               /\ registered' = IF Registers(place(p))
                                THEN [registered EXCEPT ![place(p)] = Listener]
                                ELSE registered
               /\ UNCHANGED <<writers, died, ready>>
      <3>1. MonitorTypeOK'
        BY <1>0, <2>0, <2>1 DEF MonitorTypeOK, Alive
      <3>2. GoesOn(p, "running")
        BY <1>0, <2>0, <2>1 DEF GoesOn, Alive, Booting
      <3>3. Listening' /\ StopsOnlyWhenTold'
        BY <2>1 DEF Listening, StopsOnlyWhenTold, Stopping, MonitorTypeOK
      <3>4. ASSUME place(p) = 0, AcceptMutex, ~died, ~Stopping PROVE Acceptor'
        <4>1. registered[0] = {} /\ registered' = [registered EXCEPT ![0] = Listener]
          BY <2>1, <3>4 DEF Registers
        <4>2. \A q \in Worker : place(q) = 0 => state[q] # "running"
          BY <1>0, <2>0, <3>4 DEF OneChild
        <4>3. \A i \in Place : registered[i] = {}
          BY <3>4, <4>2 DEF Acceptor
        <4>4. state'[p] = "running"
          BY <2>1 DEF MonitorTypeOK
        <4>5. /\ registered'[0] = Listener
              /\ \A i \in Place \ {0} : registered'[i] = {}
          BY <4>1, <4>3, PlaceOfWorker DEF MonitorTypeOK
        <4> QED BY <1>0, <2>0, <3>4, <4>4, <4>5, PlaceOfWorker
                DEF Acceptor, Worker, Pid, Generation, Place, place
      <3>5. ASSUME AcceptMutex, place(p) # 0 PROVE Acceptor'
        <4>1. registered' = registered /\ Stopping' = Stopping /\ died' = died
          BY <2>1, <3>5 DEF Registers, Stopping
        <4>2. \A q \in Worker : place(q) = 0 => (state'[q] = state[q])
          BY <2>1, <3>5 DEF MonitorTypeOK, Worker
        <4> QED BY <4>1, <4>2, ListenersStay
      <3>6. Acceptor'
        BY <2>1, <3>4, <3>5 DEF Acceptor, Stopping
      <3> QED BY <3>1, <3>2, <3>3, <3>6 DEF States, Alive
    <2>2. CASE Dies(p) /\ registered[place(p)] # {}
      <3>1. PICK added \in SUBSET (Listener \ registered[place(p)]) :
                registered' \in {[registered EXCEPT ![place(p)] = @ \cup added], registered}
        BY <2>2
      <3>2. registered' \in [Place -> SUBSET Listener]
        BY <3>1 DEF MonitorTypeOK
      <3> QED BY <1>2, <2>2, <3>2 DEF Alive, Booting
    <2> QED BY <2>1, <2>2
  <1>7. CASE Execvp(p)
    <2> USE <1>7 DEF Execvp
    <2>1. p = Generation
      BY <1>0 DEF Kinds
    <2>2. MonitorTypeOK'
      BY DEF MonitorTypeOK, Without
    <2>3. \E s \in {"generation", "zombie"} : GoesOn(p, s)
      BY <1>0, <2>1 DEF GoesOn, Without, MonitorTypeOK, Alive, Booting
    <2>4. Listening' /\ StopsOnlyWhenTold'
      BY DEF Listening, StopsOnlyWhenTold, Stopping, MonitorTypeOK
    <2>5. Acceptor'
      BY <2>1, ListenersStay, PlaceOfWorker DEF Stopping, MonitorTypeOK, Worker
    <2> QED BY <2>2, <2>3, <2>4, <2>5 DEF States
  <1> QED BY <1>3, <1>4, <1>5, <1>6, <1>7 DEF Boots


\* A step that changes who listens or what a worker has to act on, and nothing
\* of the monitor's account.
LEMMA StillRuns ==
    ASSUME IInv, state' = state, pid' = pid, writers' = writers, KeepMonitor
    PROVE  Account' /\ ReturnsLast' /\ StopsOnlyWhenTold'
  <1> USE DEF KeepMonitor, monitorVars
  <1>1. Kinds' /\ OneChild' /\ PipeOfPlace' /\ Started' /\ Table' /\ Vacant' /\ Forked'
    BY DEF IInv, Account, Kinds, OneChild, PipeOfPlace, Started, Table, Vacant, Forked,
           Worker, Generation, Pid, Place, place, Working, Watching, Restarting
  <1>2. Reaped' = Reaped /\ Place' = Place
    BY DEF Reaped, Place
  <1>3. Count'
    BY <1>2 DEF IInv, Account, Count, Counted, Watching, Restarting
  <1>4. Held' /\ ReturnsLast' /\ StopsOnlyWhenTold'
    BY DEF IInv, Account, Held, ReturnsLast, StopsOnlyWhenTold, Stopping, Worker, Pid, Generation
  <1> QED BY <1>1, <1>3, <1>4 DEF Account

\* Working: a worker obeys, accepts, hands its listeners over or fails, or the
\* next generation ends.
LEMMA WorksStep ==
    ASSUME IInv, NEW p \in Pid, Obeys(p) \/ Accepts(p) \/ WorkerFails(p) \/ GenerationEnds(p)
    PROVE  IInv'
  <1> USE DEF IInv, KeepMonitor, monitorVars, listenVars, processVars
  <1>0. /\ Kinds /\ OneChild /\ Held
        /\ p # Generation => p \in Worker /\ place(p) \in Place
        /\ p # TheMonitor
        /\ ready[p] # {} => p # Generation /\ state[p] = "running"
    BY PlaceOfWorker DEF Account, Kinds, Listening
  <1>1. ASSUME Dies(p), KeepMonitor, state[p] \in Alive, pid' = pid,
               registered' \in [Place -> SUBSET Listener]
        PROVE  IInv'
    BY <1>1, DiesStep, GoesOnAccount, <1>0 DEF Acceptor, States
  <1>2. CASE ReadsEnd(p)
    <2> USE <1>2 DEF ReadsEnd
    <2>1. p # Generation /\ p \in Worker
      BY <1>0 DEF Kinds
    <2>2. Stopping
      BY <1>0, <2>1 DEF Held, Alive
    <2>3. Stopping'
      BY <2>2 DEF Stopping
    <2>4. MonitorTypeOK'
      BY <1>0, <2>1 DEF MonitorTypeOK, Alive
    <2>5. GoesOn(p, "exiting")
      BY <1>0, <2>1 DEF GoesOn, Alive
    <2>6. Account' /\ ReturnsLast'
      BY <2>5, GoesOnAccount DEF States, Alive
    <2>7. Listening' /\ StopsOnlyWhenTold' /\ Acceptor'
      BY <2>3 DEF Listening, StopsOnlyWhenTold, Acceptor, MonitorTypeOK
    <2> QED BY <2>4, <2>6, <2>7
  <1>3. CASE WorkerReturns(p)
    BY <1>1, <1>3 DEF WorkerReturns, MonitorTypeOK, Alive
  <1>4. CASE Collects(p)
    <2> USE <1>4 DEF Collects
    <2>1. PICK events \in SUBSET registered[place(p)] :
              ready' = [ready EXCEPT ![p] = events]
      OBVIOUS
    <2>2. MonitorTypeOK' /\ Listening'
      <3>1. place(p) \in Place
        BY <1>0 DEF Kinds
      <3> QED BY <2>1, <3>1 DEF MonitorTypeOK, Listening
    <2>3. Acceptor'
      BY ListenersStay DEF Stopping
    <2> QED BY <2>2, <2>3, StillRuns
  <1>5. CASE AcceptsClosed(p)
    BY <1>1, <1>5 DEF AcceptsClosed, MonitorTypeOK, Alive
  <1>6. ASSUME NEW l \in Listener, AcceptsAndKeeps(p, l) PROVE IInv'
    <2> USE <1>6 DEF AcceptsAndKeeps
    <2>1. MonitorTypeOK' /\ Listening'
      BY <1>0 DEF MonitorTypeOK, Listening
    <2>2. Acceptor'
      BY ListenersStay DEF Stopping
    <2> QED BY <2>1, <2>2, StillRuns
  <1>7. ASSUME NEW l \in Listener, NEW to \in Place, AcceptsAndHandsOver(p, l, to)
        PROVE  IInv'
    <2> USE <1>7 DEF AcceptsAndHandsOver
    <2>1. p \in Worker /\ state[p] = "running" /\ place(p) \in Place
      BY <1>0
    <2>2. MonitorTypeOK' /\ Listening'
      BY <1>0 DEF MonitorTypeOK, Listening, Moved
    <2>3. ASSUME AcceptMutex, ~died, ~Stopping PROVE Acceptor'
      <3>1. l \in registered[place(p)]
        BY DEF Movable
      <3>2. PICK j \in Place : /\ registered[j] = Listener
                               /\ \A i \in Place \ {j} : registered[i] = {}
        BY <2>1, <2>3, <3>1 DEF Acceptor
      <3>3. j = place(p)
        BY <2>1, <3>1, <3>2
      <3>4. PICK q \in Worker : place(q) = 0 /\ state[q] = "running"
        BY <2>1, <2>3, <3>1 DEF Acceptor
      <3>5. /\ registered'[to] = Listener
            /\ \A i \in Place \ {to} : registered'[i] = {}
        BY <2>1, <3>2, <3>3 DEF Moved, MonitorTypeOK
      <3> QED BY <3>4, <3>5 DEF Acceptor, Worker, Pid, Generation, Place, place
    <2>4. Acceptor'
      BY <2>3 DEF Acceptor, Stopping
    <2> QED BY <2>2, <2>4, StillRuns
  <1>8. ASSUME NEW l \in Listener, NEW to \in Place, NEW m \in Listener,
               HandOverCut(p, l, to, m)
        PROVE  IInv'
    <2> USE <1>8 DEF HandOverCut
    <2>1. PICK done \in SUBSET (Movable(place(p), to) \ {m}), lost \in SUBSET {m} :
              registered' = [registered EXCEPT ![place(p)] = @ \ (done \cup lost),
                                               ![to] = @ \cup done]
      OBVIOUS
    <2>2. place(p) \in Place /\ state[p] = "running"
      BY <1>0
    <2>3. registered' \in [Place -> SUBSET Listener]
      BY <2>1, <2>2 DEF MonitorTypeOK, Movable
    <2> QED BY <1>1, <2>2, <2>3 DEF Alive
  <1>9. CASE WorkerFails(p)
    BY <1>1, <1>9 DEF WorkerFails, MonitorTypeOK
  <1>10. CASE GenerationEnds(p)
    <2> USE <1>10 DEF GenerationEnds
    <2>1. p = Generation
      BY <1>0 DEF Kinds
    <2>2. MonitorTypeOK'
      BY DEF MonitorTypeOK
    <2>3. GoesOn(p, "zombie")
      BY <1>0, <2>1 DEF GoesOn, Alive, Booting
    <2>4. Account' /\ ReturnsLast'
      BY <2>3, GoesOnAccount DEF States
    <2>5. Listening' /\ StopsOnlyWhenTold'
      BY DEF Listening, StopsOnlyWhenTold, Stopping, MonitorTypeOK
    <2>6. Acceptor'
      BY <2>1, ListenersStay, PlaceOfWorker DEF Stopping, MonitorTypeOK, Worker
    <2> QED BY <2>2, <2>4, <2>5, <2>6
  <1> QED BY <1>2, <1>3, <1>4, <1>5, <1>6, <1>7, <1>8, <1>9, <1>10 DEF Obeys, Accepts

-----------------------------------------------------------------------------
(* The steps of the monitor.                                               *)

\* A step of the monitor in which no worker begins or ends to listen.
LEMMA NoListenerMoves ==
    ASSUME IInv, listenVars' = listenVars, died' = died,
           Stopping => Stopping',
           \A q \in Pid : \/ state'[q] = state[q]
                          \/ state[q] \notin Alive /\ state'[q] \notin {"running", "exiting"}
    PROVE  Listening' /\ StopsOnlyWhenTold' /\ Acceptor'
  <1> USE DEF IInv, listenVars
  <1>1. Listening'
    BY DEF Listening, Alive, Booting, Pid
  <1>2. StopsOnlyWhenTold'
    BY DEF StopsOnlyWhenTold, Alive, Booting, Pid
  <1>3. \A q \in Worker : state'[q] = "running" <=> state[q] = "running"
    BY PlaceOfWorker DEF Alive, Booting
  <1>4. Acceptor'
    BY <1>3 DEF Acceptor, Worker, Pid, Generation, Place, place
  <1> QED BY <1>1, <1>2, <1>4

\* The monitor ends, as a worker, in its time or for any other reason.
LEMMA MonitorEndsStep ==
    ASSUME IInv, NEW how \in {"worker", "finished", "gone"}, MonitorEnds(how),
           how = "finished" => \A p \in Pid : state[p] \notin Alive
    PROVE  IInv'
  <1> USE DEF IInv, MonitorEnds, tableVars
  <1>1. MonitorTypeOK'
    BY PlaceOfWorker, MonitorAssumption DEF MonitorTypeOK, Without, listenVars
  <1>2. Kinds' /\ OneChild' /\ PipeOfPlace'
    BY DEF Account, Kinds, OneChild, PipeOfPlace, Worker, Generation, Pid, Place, place, NoPid
  <1>3. Started' /\ Table' /\ Vacant' /\ Forked' /\ Count' /\ Held'
    BY DEF Started, Table, Vacant, Forked, Count, Held, Working, Watching, Restarting, Stopping
  <1>4. ReturnsLast'
    BY DEF ReturnsLast, Pid
  <1>5. Listening' /\ StopsOnlyWhenTold' /\ Acceptor'
    BY NoListenerMoves DEF Stopping
  <1> QED BY <1>1, <1>2, <1>3, <1>4, <1>5 DEF Account

\* The monitor goes on in the table it has: nothing but where it is, its flags
\* and what it holds changes.
LEMMA SameTable ==
    ASSUME IInv, MonitorTypeOK', tableVars' = tableVars, listenVars' = listenVars,
           state' = state, died' = died, mi' = mi, worker_processes' = worker_processes,
           (mpc \in Watching /\ mpc' \in Watching) \/ mpc' = mpc,
           ~Stopping' => ~Stopping /\ \A p \in Pid :
                             TheMonitor \in writers[p] => TheMonitor \in writers'[p]
    PROVE  IInv'
  <1> USE DEF IInv, tableVars
  <1>1. Kinds' /\ OneChild' /\ PipeOfPlace' /\ Started' /\ Table' /\ Vacant' /\ Forked'
    BY DEF Account, Kinds, OneChild, PipeOfPlace, Started, Table, Vacant, Forked,
           Worker, Generation, Pid, Place, place, Working, Watching, Restarting
  <1>2. Counted' = Counted
    BY DEF Counted, Reaped, Place, Watching
  <1>3. Count'
    BY <1>2 DEF Account, Count, Watching, Restarting
  <1>4. Held'
    BY DEF Account, Held, Worker, Pid, Generation
  <1>5. ReturnsLast'
    BY DEF ReturnsLast, Watching, Pid
  <1>6. Listening' /\ StopsOnlyWhenTold' /\ Acceptor'
    BY NoListenerMoves DEF Stopping, MonitorTypeOK
  <1> QED BY <1>1, <1>3, <1>4, <1>5, <1>6 DEF Account

\* A fork: the new worker is its place's only one, and holds no other's pipe
\* that the monitor does not hold.
LEMMA Forks ==
    ASSUME IInv, NEW i \in Place, NEW p \in NewPids(i), NEW first \in Booting,
           ForkWorker(i, p, first), UNCHANGED <<g_monitor_exit_flag, died, listenVars>>,
           \A q \in Worker : place(q) = i => state[q] = "none",
           mpc \in {"start", "sleep"}, mpc' \notin {"worker", "finished", "gone"}
    PROVE  /\ p \in Worker /\ place(p) = i
           /\ pipe'[i] = p /\ state'[p] = first
           /\ \A j \in Place \ {i} : pipe'[j] = pipe[j]
           /\ \A j \in Place \ {i} : pipe[j] # NoPid => state'[pipe[j]] = state[pipe[j]]
           /\ pipe' \in [Place -> Pid \cup {NoPid}] /\ state' \in [Pid -> States]
           /\ writers' \in [Pid -> SUBSET (Pid \cup {TheMonitor})]
           /\ Kinds' /\ OneChild' /\ PipeOfPlace' /\ Held'
           /\ Listening' /\ StopsOnlyWhenTold' /\ Acceptor' /\ ReturnsLast'
  <1> USE DEF IInv, ForkWorker
  <1>1. p \in Worker /\ place(p) = i /\ state[p] = "none" /\ p \in Pid
    BY PlaceOfWorker DEF NewPids
  <1>2. /\ pipe'[i] = p /\ state'[p] = first
        /\ \A j \in Place \ {i} : pipe'[j] = pipe[j]
        /\ \A q \in Pid \ {p} : state'[q] = state[q]
        /\ pipe' \in [Place -> Pid \cup {NoPid}] /\ state' \in [Pid -> States]
    BY <1>1 DEF MonitorTypeOK, States, Alive
  <1>3. \A j \in Place \ {i} : pipe[j] # NoPid => state'[pipe[j]] = state[pipe[j]]
    BY <1>1, <1>2, PlaceOfWorker DEF Account, PipeOfPlace
  <1>4. /\ writers' \in [Pid -> SUBSET (Pid \cup {TheMonitor})]
        /\ TheMonitor \in writers'[p]
        /\ \A q \in Pid : TheMonitor \in writers[q] => TheMonitor \in writers'[q]
    BY <1>1 DEF MonitorTypeOK, Inherited
  <1>5. Kinds' /\ OneChild' /\ PipeOfPlace'
    <2>1. Kinds'
      BY <1>1, <1>2, PlaceOfWorker DEF Account, Kinds, Worker, Pid, Generation, Booting
    <2>2. OneChild'
      <3>1. \A q \in Worker : state'[q] # "none" => pipe'[place(q)] = q
        BY <1>1, <1>2, PlaceOfWorker DEF Account, OneChild
      <3> QED BY <3>1 DEF OneChild, Worker, Pid, Generation, place
    <2>3. PipeOfPlace'
      <3>1. \A j \in Place : pipe'[j] # NoPid => pipe'[j] \in Worker /\ place(pipe'[j]) = j
        BY <1>1, <1>2 DEF Account, PipeOfPlace
      <3> QED BY <3>1 DEF PipeOfPlace, Worker, Pid, Generation, place, Place, NoPid
    <2> QED BY <2>1, <2>2, <2>3
  <1>6. Held'
    <2>1. Stopping => Stopping'
      BY DEF Stopping
    <2>2. ~Stopping => \A q \in Worker : state'[q] \in Alive => TheMonitor \in writers'[q]
      BY <1>2, <1>4, PlaceOfWorker DEF Account, Held
    <2> QED BY <2>1, <2>2 DEF Held, Worker, Pid, Generation
  <1>7. Listening' /\ StopsOnlyWhenTold' /\ Acceptor'
    <2>1. Stopping => Stopping'
      BY DEF Stopping
    <2>2. \A q \in Pid : \/ state'[q] = state[q]
                         \/ state[q] \notin Alive /\ state'[q] \notin {"running", "exiting"}
      BY <1>1, <1>2 DEF Alive, Booting
    <2> QED BY <2>1, <2>2, NoListenerMoves DEF listenVars
  <1> QED BY <1>1, <1>2, <1>3, <1>4, <1>5, <1>6, <1>7 DEF ReturnsLast

\* The first workers.
LEMMA StartStep ==
    ASSUME IInv, StartWorker
    PROVE  IInv'
  <1> USE DEF StartWorker, IInv
  <1>1. PICK p \in NewPids(mi) :
            ForkWorker(mi, p, "close") /\ pid' = [pid EXCEPT ![mi] = p]
    OBVIOUS
  <1>2. mi \in Place /\ mi \in Nat /\ mpc = "start" /\ mpc' \in {"start", "loop"}
    BY MonitorAssumption DEF MonitorTypeOK, Place
  <1>3. \A q \in Worker : place(q) >= mi => state[q] = "none"
    BY <1>2 DEF Account, Started
  <1>4. /\ p \in Worker /\ place(p) = mi
        /\ pipe'[mi] = p /\ state'[p] = "close"
        /\ \A j \in Place \ {mi} : pipe'[j] = pipe[j]
        /\ \A j \in Place \ {mi} : pipe[j] # NoPid => state'[pipe[j]] = state[pipe[j]]
        /\ pipe' \in [Place -> Pid \cup {NoPid}] /\ state' \in [Pid -> States]
        /\ writers' \in [Pid -> SUBSET (Pid \cup {TheMonitor})]
        /\ Kinds' /\ OneChild' /\ PipeOfPlace' /\ Held'
        /\ Listening' /\ StopsOnlyWhenTold' /\ Acceptor' /\ ReturnsLast'
    <2>1. \A q \in Worker : place(q) = mi => state[q] = "none"
      BY <1>2, <1>3
    <2> QED BY <1>1, <1>2, <2>1, Forks DEF Booting
  <1>5. \A q \in Pid \ {p} : state'[q] = state[q]
    BY <1>1 DEF ForkWorker, MonitorTypeOK
  <1>6. MonitorTypeOK'
    <2>1. mi' \in Place /\ worker_processes' \in 0 .. WorkerProcesses
      BY <1>2, MonitorAssumption DEF MonitorTypeOK, Place
    <2> QED BY <1>1, <1>2, <1>4, <2>1, PlaceOfWorker DEF MonitorTypeOK, States, listenVars
  <1>7. /\ \A i \in Place : i < mi => pipe[i] # NoPid /\ state[pipe[i]] # "none"
        /\ worker_processes = 0
    BY <1>2 DEF Account, Started, Count
  <1>8. \A i \in Place : i < mi + 1 => pipe'[i] # NoPid /\ state'[pipe'[i]] # "none"
    BY <1>2, <1>4, <1>7, PlaceOfWorker DEF Place
  <1>9. Table'
    BY <1>1, <1>2, <1>4 DEF MonitorTypeOK, Account, Table, Working, Watching, Place, NoPid
  <1>10. CASE mi + 1 = WorkerProcesses
    <2>1. mpc' = "loop" /\ worker_processes' = WorkerProcesses
      BY <1>10
    <2>2. \A i \in Place : pipe'[i] # NoPid /\ state'[pipe'[i]] # "none"
      BY <1>2, <1>8, <1>10, MonitorAssumption DEF Place
    <2>3. Counted' = Place
      BY <2>1, <2>2 DEF Counted, Reaped, Place
    <2>4. Started' /\ Vacant' /\ Forked' /\ Count'
      BY <2>1, <2>2, <2>3, PlacesFinite
      DEF Started, Vacant, Forked, Count, Watching, Restarting, Place, NoPid
    <2> QED BY <1>4, <1>6, <1>9, <2>4 DEF Account
  <1>11. CASE mi + 1 # WorkerProcesses
    <2>1. mpc' = "start" /\ mi' = mi + 1 /\ worker_processes' = worker_processes
      BY <1>2, <1>11
    <2>2. \A q \in Worker : place(q) >= mi + 1 => state'[q] = "none"
      BY <1>2, <1>3, <1>4, <1>5, PlaceOfWorker DEF Place
    <2>3. Started'
      BY <1>8, <2>1, <2>2
      DEF Started, Watching, Restarting, Place, NoPid, Worker, Pid, Generation, place
    <2>4. Vacant' /\ Forked' /\ Count'
      BY <1>7, <2>1 DEF Vacant, Forked, Count, Watching, Restarting
    <2> QED BY <1>4, <1>6, <1>9, <2>3, <2>4 DEF Account
  <1> QED BY <1>10, <1>11

\* A worker that was reaped is started again.
LEMMA RestartStep ==
    ASSUME IInv, Restart
    PROVE  IInv'
  <1> USE DEF Restart, IInv
  <1>1. PICK p \in NewPids(mi) : ForkWorker(mi, p, "store")
    OBVIOUS
  <1>2. /\ mi \in Place /\ mpc = "sleep" /\ mpc' = "store" /\ mi' = mi
        /\ pid' = pid /\ worker_processes' = worker_processes
    BY DEF MonitorTypeOK
  <1>3. /\ pid[mi] = pipe[mi] /\ state[pipe[mi]] = "none"
        /\ \A i \in Place : pipe[i] # NoPid
        /\ worker_processes = Cardinality(Counted)
    BY <1>2 DEF Account, Vacant, Started, Count, Restarting
  <1>4. /\ p \in Worker /\ place(p) = mi
        /\ pipe'[mi] = p /\ state'[p] = "store"
        /\ \A j \in Place \ {mi} : pipe'[j] = pipe[j]
        /\ \A j \in Place \ {mi} : pipe[j] # NoPid => state'[pipe[j]] = state[pipe[j]]
        /\ pipe' \in [Place -> Pid \cup {NoPid}] /\ state' \in [Pid -> States]
        /\ writers' \in [Pid -> SUBSET (Pid \cup {TheMonitor})]
        /\ Kinds' /\ OneChild' /\ PipeOfPlace' /\ Held'
        /\ Listening' /\ StopsOnlyWhenTold' /\ Acceptor' /\ ReturnsLast'
    <2>1. \A q \in Worker : place(q) = mi => state[q] = "none"
      BY <1>3 DEF Account, OneChild
    <2> QED BY <1>1, <1>2, <2>1, Forks DEF Booting
  <1>5. MonitorTypeOK'
    BY <1>2, <1>4 DEF MonitorTypeOK, States, listenVars
  <1>6. Started' /\ Table' /\ Vacant' /\ Forked'
    BY <1>2, <1>3, <1>4, PlaceOfWorker
    DEF Account, Started, Table, Vacant, Forked, Working, Watching, Restarting, Place, NoPid
  <1>7. Counted' = Counted
    <2>1. ASSUME NEW i \in Place \ {mi} PROVE i \in Reaped' <=> i \in Reaped
      BY <1>2, <1>3, <1>4 DEF Reaped, Place
    <2>2. Reaped' \ {mi} = Reaped \ {mi}
      BY <2>1 DEF Reaped, Place
    <2>3. mi \in Reaped
      BY <1>2, <1>3 DEF Reaped
    <2>4. Counted = Place \ Reaped /\ Counted' = Place \ (Reaped' \cup {mi})
      BY <1>2 DEF Counted, Place
    <2> QED BY <2>2, <2>3, <2>4
  <1>8. Count'
    BY <1>2, <1>3, <1>7 DEF Count, Watching
  <1> QED BY <1>4, <1>5, <1>6, <1>8 DEF Account

\* A child is reaped: one of the table's workers, or one it does not know.
LEMMA ReapStep ==
    ASSUME IInv, NEW p \in Pid, Reap(p)
    PROVE  IInv'
  <1> USE DEF Reap, IInv, tableVars
  <1>1. /\ mi \in Place /\ mpc \in {"loop", "waitpid"} /\ pid' = pid /\ pipe' = pipe
        /\ state[p] = "zombie" /\ state' = [state EXCEPT ![p] = "none"]
        /\ \A i \in Place : pipe[i] # NoPid
        /\ \A i \in Place : pid[i] \in {NoPid, pipe[i]}
        /\ worker_processes = Cardinality(Place \ Reaped)
        /\ worker_processes \in Nat \ {0}
    <2>1. /\ mi \in Place /\ mpc \in {"loop", "waitpid"} /\ pid' = pid /\ pipe' = pipe
          /\ state[p] = "zombie" /\ state' = [state EXCEPT ![p] = "none"]
          /\ worker_processes \in Nat \ {0}
      BY MonitorAssumption DEF MonitorTypeOK, ReapUnknown, ReapWorker
    <2>2. /\ \A i \in Place : pipe[i] # NoPid
          /\ \A i \in Place : pid[i] \in {NoPid, pipe[i]}
      BY <2>1 DEF Account, Started, Table, Working, Watching
    <2>3. worker_processes = Cardinality(Counted) /\ Counted = Place \ Reaped
      BY <2>1 DEF Account, Count, Watching, Counted
    <2> QED BY <2>1, <2>2, <2>3
  <1>2. /\ \A q \in Pid : state'[q] = IF q = p THEN "none" ELSE state[q]
        /\ state' \in [Pid -> States]
    BY <1>1 DEF MonitorTypeOK, States
  <1>3. Kinds' /\ OneChild' /\ PipeOfPlace'
    BY <1>1, <1>2, PlaceOfWorker
    DEF Account, Kinds, OneChild, PipeOfPlace, Worker, Pid, Generation, Place, place, NoPid
  <1>4. mpc' \in {"loop", "sleep"} /\ g_monitor_exit_flag' = g_monitor_exit_flag
    BY DEF ReapUnknown, ReapWorker
  <1>5. Started' /\ Table' /\ Forked' /\ ReturnsLast'
    BY <1>1, <1>4
    DEF Started, Table, Forked, ReturnsLast, Working, Watching, Restarting, Place, NoPid
  <1>6. Listening' /\ StopsOnlyWhenTold' /\ Acceptor'
    BY <1>1, <1>2, <1>4, NoListenerMoves DEF Stopping, Alive, Booting, listenVars
  <1>7. \A i \in Place : pipe[i] \in Worker /\ place(pipe[i]) = i
    BY <1>1 DEF Account, PipeOfPlace
  <1>8. CASE ReapUnknown(p)
    <2>1. UNCHANGED <<mi, worker_processes, writers>> /\ mpc' = "loop"
      BY <1>8 DEF ReapUnknown
    <2>2. MonitorTypeOK'
      BY <1>2, <2>1 DEF MonitorTypeOK, States, listenVars
    <2>3. Held'
      BY <1>1, <1>2, <1>4, <2>1, PlaceOfWorker
      DEF Account, Held, Stopping, Alive, Booting, Worker, Pid, Generation
    <2>4. ASSUME NEW i \in Place PROVE i \in Reaped' <=> i \in Reaped
      <3>1. pid[i] # p
        BY <1>8 DEF ReapUnknown, Matched
      <3>2. pid[i] = pipe[i] => state'[pipe[i]] = state[pipe[i]]
        BY <1>2, <1>7, <3>1, PlaceOfWorker
      <3> QED BY <1>1, <3>2 DEF Reaped, Place
    <2>5. Reaped' = Reaped
      BY <2>4 DEF Reaped, Place
    <2>6. Count' /\ Vacant'
      BY <1>1, <2>1, <2>5 DEF Count, Counted, Vacant, Watching, Place
    <2> QED BY <1>3, <1>5, <1>6, <2>2, <2>3, <2>6 DEF Account
  <1>9. ASSUME NEW i \in Matched(p), ReapWorker(p, i) PROVE IInv'
    <2> USE <1>9 DEF ReapWorker
    <2>1. i \in Place /\ pid[i] = p /\ pipe[i] = p /\ p \in Worker /\ place(p) = i
      BY <1>1, <1>7, PlaceOfWorker DEF Matched
    <2>2. \A j \in Place \ {i} : pipe[j] # p
      BY <1>7, <2>1
    <2>3. Reaped' = Reaped \cup {i}
      <3>1. ASSUME NEW j \in Place \ {i} PROVE j \in Reaped' <=> j \in Reaped
        <4>1. state'[pipe[j]] = state[pipe[j]]
          BY <1>2, <1>7, <2>2, PlaceOfWorker
        <4> QED BY <1>1, <4>1 DEF Reaped, Place
      <3>2. i \in Reaped'
        BY <1>1, <1>2, <2>1 DEF Reaped, Place
      <3> QED BY <3>1, <3>2, <2>1 DEF Reaped, Place
    <2>4. i \in Place \ Reaped
      BY <1>1, <2>1 DEF Reaped
    <2>5. Cardinality(Place \ Reaped') = worker_processes - 1
      <3>1. Place \ Reaped' = (Place \ Reaped) \ {i}
        BY <2>3
      <3>2. IsFiniteSet(Place \ Reaped)
        BY PlacesFinite
      <3>3. Cardinality((Place \ Reaped) \ {i}) = Cardinality(Place \ Reaped) - 1
        BY ONLY <2>4, <3>2, FS_RemoveElement
      <3> QED BY <1>1, <3>1, <3>3
    <2>6. Count'
      BY <1>4, <2>5 DEF Count, Counted, Watching, Restarting, Place
    <2>7. MonitorTypeOK'
      <3>1. writers' \in [Pid -> SUBSET (Pid \cup {TheMonitor})]
        BY DEF MonitorTypeOK
      <3>2. worker_processes' \in 0 .. WorkerProcesses
        BY <1>1, MonitorAssumption DEF MonitorTypeOK
      <3>3. mi' \in Place
        BY <1>1, <2>1
      <3> QED BY <1>2, <1>4, <3>1, <3>2, <3>3 DEF MonitorTypeOK, States, listenVars
    <2>8. Vacant'
      BY <1>1, <1>2, <2>1 DEF Vacant
    <2>9. Held'
      <3>1. \A q \in Pid \ {p} : writers'[q] = writers[q]
        BY <2>1 DEF MonitorTypeOK
      <3>2. ~Stopping => \A q \in Worker : state'[q] \in Alive => TheMonitor \in writers'[q]
        BY <1>2, <3>1, PlaceOfWorker DEF Account, Held, Alive, Booting
      <3> QED BY <1>1, <1>4, <3>2 DEF Held, Stopping, Worker, Pid, Generation
    <2> QED BY <1>3, <1>5, <1>6, <2>6, <2>7, <2>8, <2>9 DEF Account
  <1> QED BY <1>8, <1>9

\* The monitor stores what fork gave it.
LEMMA StoresStep ==
    ASSUME IInv, MonitorStores
    PROVE  IInv'
  <1> USE DEF MonitorStores, IInv, listenVars, processVars
  <1>1. /\ mi \in Place /\ mi' = mi /\ mpc = "store" /\ mpc' = "branch"
        /\ pipe' = pipe /\ state' = state /\ worker_processes' = worker_processes
        /\ pid'[mi] = pipe[mi] /\ \A i \in Place \ {mi} : pid'[i] = pid[i]
        /\ \A i \in Place : pipe[i] # NoPid
        /\ state[pipe[mi]] # "none"
        /\ worker_processes = Cardinality(Counted)
    BY DEF MonitorTypeOK, Account, Started, Forked, Count, Restarting
  <1>2. MonitorTypeOK'
    BY <1>1 DEF MonitorTypeOK
  <1>3. Kinds' /\ OneChild' /\ PipeOfPlace' /\ Started' /\ Vacant' /\ Forked' /\ Held'
    BY <1>1 DEF Account, Kinds, OneChild, PipeOfPlace, Started, Vacant, Forked, Held, Stopping,
           Worker, Generation, Pid, Place, place, NoPid, Restarting, Watching
  <1>4. Table'
    BY <1>1 DEF Account, Table, Working, Restarting, Place, NoPid
  <1>5. Counted' = Counted
    BY <1>1 DEF Counted, Reaped, Place
  <1>6. Count'
    BY <1>1, <1>5 DEF Count
  <1>7. ReturnsLast'
    BY <1>1 DEF ReturnsLast
  <1>8. Listening' /\ StopsOnlyWhenTold' /\ Acceptor'
    BY <1>1, NoListenerMoves DEF Stopping
  <1> QED BY <1>2, <1>3, <1>4, <1>6, <1>7, <1>8 DEF Account

\* The monitor reads it again, and counts the new worker or becomes one.
LEMMA BranchesStep ==
    ASSUME IInv, MonitorBranches
    PROVE  IInv'
  <1> USE DEF IInv, listenVars, processVars, tableVars
  <1>1. CASE MonitorEnds("worker")
    BY <1>1, MonitorEndsStep
  <1>2. CASE /\ mpc = "branch" /\ mpc' = "loop" /\ mi' = 0
             /\ worker_processes' = worker_processes + 1
             /\ UNCHANGED <<sig, g_monitor_exit_flag, tableVars, listenVars, processVars>>
    <2>1. /\ mi \in Place /\ pipe' = pipe /\ pid' = pid /\ state' = state
          /\ \A i \in Place : pipe[i] # NoPid /\ pid[i] \in {NoPid, pipe[i]}
          /\ state[pipe[mi]] # "none"
          /\ worker_processes = Cardinality(Counted)
      BY <1>2 DEF MonitorTypeOK, Account, Started, Table, Forked, Count, Working, Restarting
    <2>2. Counted = (Place \ Reaped) \ {mi} /\ Counted' = Place \ Reaped
          /\ mi \in Place \ Reaped
      BY <1>2, <2>1 DEF Counted, Reaped, Place
    <2>3. /\ Cardinality(Counted') = worker_processes + 1
          /\ Cardinality(Counted') \in 0 .. WorkerProcesses
      <3>1. /\ IsFiniteSet(Place \ Reaped)
            /\ Cardinality(Place \ Reaped) \in 0 .. WorkerProcesses
        BY PlacesFinite
      <3>2. Cardinality((Place \ Reaped) \ {mi}) = Cardinality(Place \ Reaped) - 1
        BY ONLY <2>2, <3>1, FS_RemoveElement
      <3> QED BY <2>1, <2>2, <3>1, <3>2, MonitorAssumption
    <2>4. MonitorTypeOK'
      BY <1>2, <2>3, PlaceOfWorker DEF MonitorTypeOK
    <2>5. Kinds' /\ OneChild' /\ PipeOfPlace' /\ Started' /\ Table' /\ Vacant' /\ Forked'
          /\ Held'
      BY <1>2, <2>1 DEF Account, Kinds, OneChild, PipeOfPlace, Started, Table, Vacant, Forked,
             Held, Stopping, Worker, Generation, Pid, Place, place, NoPid,
             Working, Restarting, Watching
    <2>6. Count'
      BY <1>2, <2>3 DEF Count
    <2>7. ReturnsLast'
      BY <1>2 DEF ReturnsLast
    <2>8. Listening' /\ StopsOnlyWhenTold' /\ Acceptor'
      BY <1>2, NoListenerMoves DEF Stopping
    <2> QED BY <2>4, <2>5, <2>6, <2>7, <2>8 DEF Account
  <1> QED BY <1>1, <1>2 DEF MonitorBranches

\* The monitor returns: what it counts is nothing, so every place is empty.
LEMMA ReturnsStep ==
    ASSUME IInv, MonitorReturns
    PROVE  IInv'
  <1> USE DEF IInv, MonitorReturns
  <1>1. Counted = {}
    <2>1. Cardinality(Counted) = 0
      BY DEF Account, Count, Watching
    <2>2. IsFiniteSet(Counted)
      BY PlacesFinite DEF Counted
    <2> QED BY <2>1, <2>2, FS_EmptySet
  <1>2. \A i \in Place : state[pipe[i]] = "none"
    BY <1>1 DEF Counted, Reaped
  <1>3. \A p \in Worker : state[p] = "none"
    BY <1>2, PlaceOfWorker DEF Account, OneChild
  <1>4. \A p \in Pid : state[p] \notin Alive
    BY <1>3, PlaceOfWorker DEF Account, Kinds, Alive, Booting
  <1> QED BY <1>4, MonitorEndsStep

\* The monitor acts on a signal.
LEMMA SigProcStep ==
    ASSUME IInv, SigProc
    PROVE  IInv'
  <1> USE DEF SigProc
  <1>1. MonitorTypeOK /\ mpc = "eintr" /\ mpc' = "loop"
    BY DEF IInv
  <1>2. CASE ReopenLogs
    <2>1. MonitorTypeOK'
      BY <1>1, <1>2 DEF ReopenLogs, MonitorTypeOK, tableVars, listenVars
    <2> QED BY <1>1, <1>2, <2>1, SameTable DEF ReopenLogs, Watching, Stopping
  <1>3. CASE NextGeneration
    <2>1. CASE state' = state
      <3>1. writers' = writers /\ g_monitor_exit_flag' = g_monitor_exit_flag
            /\ sig' \subseteq sig
        BY <1>1, <1>3, <2>1, PlaceOfWorker DEF NextGeneration, MonitorTypeOK
      <3>2. MonitorTypeOK'
        BY <1>1, <2>1, <3>1 DEF MonitorTypeOK, tableVars, listenVars
      <3> QED BY <1>1, <2>1, <3>1, <3>2, SameTable DEF Watching, Stopping
    <2>2. CASE /\ state[Generation] = "none"
               /\ state' = [state EXCEPT ![Generation] = "exec"]
               /\ writers' = Inherited(Generation)
               /\ sig' = sig \ {"USR2"}
               /\ UNCHANGED g_monitor_exit_flag
      <3> USE <2>2 DEF IInv
      <3>1. MonitorTypeOK'
        BY <1>1, PlaceOfWorker DEF MonitorTypeOK, tableVars, listenVars, Inherited
      <3>2. /\ \A q \in Worker : state'[q] = state[q]
            /\ state'[Generation] = "exec"
            /\ \A q \in Pid : TheMonitor \in writers[q] => TheMonitor \in writers'[q]
        BY PlaceOfWorker DEF MonitorTypeOK, Inherited
      <3>3. /\ pipe' = pipe /\ pid' = pid /\ mi' = mi
            /\ worker_processes' = worker_processes
            /\ \A i \in Place : pipe[i] # NoPid
        BY <1>1 DEF tableVars, Account, Started, Watching
      <3>4. \A i \in Place : state'[pipe'[i]] = state[pipe[i]]
        BY <3>2, <3>3 DEF Account, PipeOfPlace
      <3>5. Kinds' /\ OneChild' /\ PipeOfPlace' /\ Started' /\ Table' /\ Vacant' /\ Forked'
        BY <1>1, <3>2, <3>3
        DEF Account, Kinds, OneChild, PipeOfPlace, Started, Table, Vacant, Forked,
            Worker, Generation, Pid, Place, place, NoPid, Working, Restarting, Watching
      <3>6. Counted' = Counted
        BY <1>1, <3>3, <3>4 DEF Counted, Reaped, Place
      <3>7. Count'
        BY <1>1, <3>3, <3>6 DEF Account, Count, Watching, Restarting
      <3>8. Held'
        BY <1>1, <3>2, PlaceOfWorker DEF Account, Held, Stopping, Worker, Pid, Generation
      <3>9. ReturnsLast'
        BY <1>1 DEF ReturnsLast
      <3>10. Listening' /\ StopsOnlyWhenTold' /\ Acceptor'
        <4>1. \A q \in Pid : \/ state'[q] = state[q]
                             \/ /\ state[q] \notin Alive
                                /\ state'[q] \notin {"running", "exiting"}
          BY <3>2, PlaceOfWorker DEF Alive, Booting
        <4> QED BY <1>1, <4>1, NoListenerMoves DEF Stopping
      <3> QED BY <3>1, <3>5, <3>7, <3>8, <3>9, <3>10 DEF Account
    <2> QED BY <1>3, <2>1, <2>2 DEF NextGeneration
  <1>4. CASE CloseAll
    <2>1. MonitorTypeOK'
      BY <1>1, <1>4 DEF CloseAll, MonitorTypeOK, tableVars, listenVars, Without
    <2>2. Stopping'
      BY <1>4 DEF CloseAll, Stopping
    <2> QED BY <1>1, <1>4, <2>1, <2>2, SameTable DEF CloseAll, Watching
  <1> QED BY <1>2, <1>3, <1>4

\* A signal arrives.
LEMMA SignalStep ==
    ASSUME IInv, NEW s \in {"USR1", "USR2", "TERM"}, Signal(s)
    PROVE  IInv'
  <1> USE DEF Signal, processVars
  <1>1. MonitorTypeOK'
    BY DEF IInv, MonitorTypeOK, tableVars, listenVars
  <1>2. (mpc \in Watching /\ mpc' \in Watching) \/ mpc' = mpc
    BY DEF Watching
  <1>3. ~Stopping' => ~Stopping
    BY DEF Stopping
  <1> QED BY <1>1, <1>2, <1>3, SameTable

\* Every step.
LEMMA NextStep ==
    ASSUME IInv, Next
    PROVE  IInv'
  <1>1. CASE Waits
    <2>1. CASE MonitorEnds("gone")
      BY <2>1, MonitorEndsStep
    <2>2. CASE /\ mpc = "loop" /\ mpc' = "waitpid"
               /\ UNCHANGED <<mi, worker_processes, sig, g_monitor_exit_flag, tableVars,
                              listenVars, processVars>>
      <3>1. MonitorTypeOK'
        BY <2>2 DEF IInv, MonitorTypeOK, tableVars, listenVars, processVars
      <3> QED BY <2>2, <3>1, SameTable DEF Watching, Stopping, processVars
    <2> QED BY <1>1, <2>1, <2>2 DEF Waits
  <1>2. CASE MonitorStep
    BY <1>1, <1>2, StartStep, RestartStep, StoresStep, ReapStep, BranchesStep, ReturnsStep,
       SigProcStep DEF MonitorStep
  <1>3. CASE MonitorFails
    BY <1>3, MonitorEndsStep DEF MonitorFails
  <1>4. ASSUME NEW s \in {"USR1", "USR2", "TERM"}, Signal(s) PROVE IInv'
    BY <1>4, SignalStep
  <1>5. ASSUME NEW p \in Pid,
               \/ Boots(p) \/ Obeys(p) \/ Accepts(p)
               \/ WorkerFails(p) \/ GenerationEnds(p)
        PROVE  IInv'
    BY <1>5, BootsStep, WorksStep
  <1> QED BY <1>2, <1>3, <1>4, <1>5 DEF Next

\* A step in which nothing happens.
LEMMA StutterStep ==
    ASSUME IInv, UNCHANGED vars
    PROVE  IInv'
  <1> USE DEF vars, monitorVars, tableVars, processVars
  <1>1. MonitorTypeOK'
    BY DEF IInv, MonitorTypeOK, listenVars
  <1> QED BY <1>1, SameTable DEF Stopping

\* Before anything was started.
LEMMA InitInv == Init => IInv
  <1> SUFFICES ASSUME Init PROVE IInv
    OBVIOUS
  <1> USE DEF Init
  <1>1. MonitorTypeOK
    <2>1. /\ pid \in [Place -> Pid \cup {NoPid}] /\ pipe \in [Place -> Pid \cup {NoPid}]
          /\ state \in [Pid -> States]
      BY DEF States
    <2>2. /\ writers \in [Pid -> SUBSET (Pid \cup {TheMonitor})]
          /\ registered \in [Place -> SUBSET Listener]
          /\ ready \in [Pid -> SUBSET Listener]
      OBVIOUS
    <2>3. mi \in Place /\ worker_processes \in 0 .. WorkerProcesses
      BY PlaceOfWorker, MonitorAssumption
    <2> QED BY <2>1, <2>2, <2>3 DEF MonitorTypeOK, States
  <1>2. \A p \in Pid : state[p] = "none"
    OBVIOUS
  <1>3. Kinds /\ OneChild /\ PipeOfPlace /\ Table /\ Vacant /\ Forked /\ Count /\ Held
    BY <1>2, PlaceOfWorker DEF Kinds, OneChild, PipeOfPlace, Table, Vacant, Forked, Count,
           Held, Watching, Restarting, Alive, Booting
  <1>4. Started
    BY <1>2, PlaceOfWorker DEF Started, Watching, Restarting, Place
  <1>5. Listening /\ StopsOnlyWhenTold /\ ReturnsLast /\ Acceptor
    BY <1>2, PlaceOfWorker DEF Listening, StopsOnlyWhenTold, ReturnsLast, Acceptor
  <1> QED BY <1>1, <1>3, <1>4, <1>5 DEF IInv, Account

-----------------------------------------------------------------------------
(* The theorems.                                                           *)

\* The invariant holds from the start on.
LEMMA Invariant == Spec => []IInv
  <1>1. IInv /\ [Next]_vars => IInv'
    BY NextStep, StutterStep
  <1> QED BY <1>1, InitInv, PTL DEF Spec

\* The variables of the monitor and of its workers keep their types: above
\* all, worker_processes never leaves 0 .. its first value, and mi is a place.
THEOREM MonitorTypes == Spec => []MonitorTypeOK
  BY Invariant, PTL DEF IInv

\* Two processes never work in one place, whatever fork's two writers of the
\* table leave in it, and however the numbers of processes are used again.
THEOREM NoTwoInOnePlace == Spec => []OneProcessPerPlace
  <1>1. IInv => OneProcessPerPlace
    BY DEF IInv, Account, OneChild, OneProcessPerPlace, Alive, Booting
  <1> QED BY <1>1, Invariant, PTL

\* A worker stops accepting only when the monitor was told to end or ended.
THEOREM NoneStopsUntold == Spec => []StopsOnlyWhenTold
  BY Invariant, PTL DEF IInv

\* The monitor returns only after its last worker.
THEOREM MonitorReturnsLast == Spec => []ReturnsLast
  BY Invariant, PTL DEF IInv

\* With accept_mutex every listener is in one place's epoll instance, from the
\* start of the worker of place 0 until a worker ends or all are told to.
THEOREM EveryListenerOnce == Spec => []OneAcceptor
  <1>1. ASSUME IInv PROVE OneAcceptor
    <2> SUFFICES ASSUME AcceptMutex, ~died, ~Stopping, NEW l \in Listener
                 PROVE  Cardinality({i \in Place : l \in registered[i]}) =
                            IF \E p \in Pid : place(p) = 0 /\ state[p] = "running"
                            THEN 1 ELSE 0
      BY DEF OneAcceptor
    <2>1. (\E p \in Pid : place(p) = 0 /\ state[p] = "running")
              <=> \E p \in Worker : place(p) = 0 /\ state[p] = "running"
      BY <1>1, PlaceOfWorker DEF IInv, Account, Kinds
    <2>2. CASE /\ \A p \in Worker : place(p) = 0 => state[p] # "running"
               /\ \A i \in Place : registered[i] = {}
      <3>1. {i \in Place : l \in registered[i]} = {}
        BY <2>2
      <3> QED BY <2>1, <2>2, <3>1, FS_EmptySet
    <2>3. CASE /\ \E p \in Worker : place(p) = 0 /\ state[p] = "running"
               /\ \E j \in Place : /\ registered[j] = Listener
                                   /\ \A i \in Place \ {j} : registered[i] = {}
      <3>1. PICK j \in Place : /\ registered[j] = Listener
                               /\ \A i \in Place \ {j} : registered[i] = {}
        BY <2>3
      <3>2. {i \in Place : l \in registered[i]} = {j}
        BY <3>1
      <3> QED BY <2>1, <2>3, <3>2, FS_Singleton
    <2> QED BY <1>1, <2>2, <2>3 DEF IInv, Acceptor
  <1> QED BY <1>1, Invariant, PTL
=============================================================================
