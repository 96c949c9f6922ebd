# hetao in TLA+

hetao is an event-driven web server and reverse proxy in C (`src/src`). A monitor
process forks worker processes; each worker serves its connections from one thread
around an epoll instance, with a second thread that only keeps the time. This
directory models the Linux build: the modules, the configurations that check them
with TLC, and the theorems about them that TLAPS proves. Line numbers below are
lines of files in `src/src`.

## The system

| Component | State | Operations | Interacts with |
| --- | --- | --- | --- |
| Session pool (`HttpSession.c`, the two `HttpSession*Tree.c`) | arrays of sessions, list of unused ones, two counters, two trees ordered by time | fetch, grow, release, refresh a timestamp, first expired | called by every handler and by the sweep |
| Address limits (`IpLimitsHash.c`) | a counter for each address with connections | increase, decrease | called by fetch and release |
| Forward servers (`LeastConnectionCountTree.c`, `SelectForwardAddress`) | round-robin list or tree, `connection_count`, `timestamp_to_valid` | select, count, disable | request processing, failed connections, releases |
| Connection handlers (`On*.c`) | fields of the session, epoll masks of its two sockets | accept, TLS handshake, receive, send, connect, forward | called by the dispatch with one event |
| Request processing (`ProcessHttpRequest.c`) | none of its own | answer from cache or files, or forward | page cache, forward servers |
| Worker loop (`WorkerThread.c`) | the batch of events, `g_worker_exit_flag` | wait, sweep, dispatch, stop, reopen logs | pipe from the monitor; shared memory and epoll instances of the other workers |
| Timer (`TimerThread.c`) | the cached time, `g_second_elapse` | once a second | shares both with the loop, without a lock |
| Page cache (`HtmlCache*.c`, `ProcessHttpRequest.c:146-483`) | contents by path and by inotify watch | fill, hit, invalidate | responses in flight point into it |
| Monitor (`MonitorProcess.c`) | pids, pipes, three signal flags | fork, wait, restart, pass signals on | all workers, through pipes and `process_info_array` |
| Environment (`Envirment.c`, `ListenSession.c`) | listening sockets | start, save and load listeners | the next generation, through an environment variable |
| `fasterhttp.c` | request and response buffers | parse, send, reset | handlers |
| Configuration, virtual hosts, rewriting, MIME types, logging, containers | tables built at start | lookup | everything |

What makes each of them correct:

* pool: a session is in the list or in both trees, once; the counters, which alone
  guard the list and the growth, agree with it; the limits hold;
* address limits: an address is never admitted above its limit, and is not refused
  below it;
* forward servers: `connection_count` is the number of forward connections, and the
  rule selects by it;
* handlers: a client is always watched for what it is waiting for; a release happens
  once; every way out of a forward connection undoes what was done on the way in;
* loop: an event is acted on only while what it is about still exists; both limits on
  time are enforced; after the pipe is closed nothing is accepted and the worker ends;
* cache: a page that has changed is not served, and content is not freed in flight;
* monitor and environment: there are as many workers as configured, every signal
  has its effect, no listener is lost between generations.

The hard part is what one pass of the loop does in sequence. Events are collected,
then sessions expire, then the events are acted on, each possibly releasing the
session of a later one. The two sockets of a forwarded session report events with the
same pointer. A release is reached from some thirty places. `PROJECT.json` lists these
hazards at their lines with the properties that cover them.

## Modules

| Module | Models |
| --- | --- |
| `IpLimitsHash` | the counters per address; count 0 is "no node" |
| `HttpSession` | the pool over `IpLimitsHash` |
| `Admission` | what the pool promises: an abstract specification with no code of its own |
| `ForwardServer` | the forward servers of a virtual host and the two rules |
| `Connection` | handlers and dispatch: one action per outcome of a handler |
| `Worker` | loop, timer and pipe over `Connection`, with the specification and its properties |
| `Monitor` | the monitor, the life of its workers, and the hand-over of the listeners between them |
| `HtmlCache` | the page cache of one worker, the files it caches, inotify and the responses in flight |
| `HttpParser` | receiving and parsing in one buffer of `fasterhttp.c`, and its reset for the next message |
| `GracefulRestart` | the listening sockets from one generation of the server to the next |
| `HttpSession_proofs`, `Worker_proofs`, `Monitor_proofs`, `HtmlCache_proofs`, `HttpParser_proofs`, `GracefulRestart_proofs` | the theorems, each about the module it is named after |
| `HttpMessage_proofs` | more theorems about `HttpParser`, on top of `HttpParser_proofs`: what it finds is what was sent |
| `MCHttpSession`, `MCWorker`, `MCHtmlCache`, `MCHttpParser`, `MCGracefulRestart` | values for TLC |

`Worker` extends `Connection`, which extends `HttpSession` and `ForwardServer`;
`HttpSession` extends `IpLimitsHash` and instantiates `Admission`. `Monitor` stands alone:
it has several workers and no connections, `Worker` has one worker and its connections,
and what they share is the pipe (`PipeClosed` there, `ReadsEnd` here) and the listeners.
`Monitor` assumes of a worker that was told to stop that it ends, which is `GracefulExit`
for clients that do not go on using their connection.

The last three modules stand alone as well. Each takes a part that another module treats as
a choice and looks inside: `HttpParser` has what `Connection` calls `http` and `extra`,
`HtmlCache` has what `Connection` calls answering from the cache or files, and
`GracefulRestart` has the process that `Monitor` calls the next generation. What they leave
out is in turn a choice there: when a connection ends, what a response is, when a worker
runs.

### Pool

`timeout_tree` and `elapse_tree` map the sessions in use to the seconds left until
their timestamps, and a tick takes one off. The order of sessions whose time has passed
is not kept, so the sweep releases them in any order; 0 stands for every time past.
`FetchHttpSessionUnused` is split by outcome: `FetchFromList`, `FetchAfterIncrease`,
`FetchRefused`, `FetchLimited`, `FetchMallocFails`. A batch that fails after k sessions
leaves them in the list and not in `unused_count`; `MaxOrphans` bounds how many such
sessions a behaviour collects, and nothing else in the pool is bounded except by the
code's own limits. `netaddr_ip` keeps the address of a released session, as the struct
does. `PoolNext` is the pool under callers that release what is in use only; the worker
is checked to be such a caller.

### Forward servers

`server_order` is the round-robin list, or the in-order walk of the tree. `rb_next`
walks the tree in order whatever its keys are now, and `rb_link_node` puts a server
where the comparisons on the way down lead. In a tree whose keys have moved since
insertion that place depends on the tree's shape, so
`UpdateLeastConnectionCountTreeNode` gives every place whose two neighbours are
consistent with the comparisons: the search path of a new leaf contains both.
Whatever the place, the server is in the order once (`EveryServerOnce`), and there always is
a place (`TreeHasAPlace` in `Worker_proofs`), so that no state of the tree stops the model.
The rule takes the first server of the order whose address is not disabled.
`disabled_left` counts down from `ForwardDisable + 1` because the code waits until the
time is strictly larger than the timestamp.

### Connections

`conn[s]` has the fields that decide what happens next: the epoll masks of the two
sockets, `ssl` with `ssl_accepted`, `forward_flags`, `forward_ssl` with
`forward_ssl_connected`, `p_forward_server`, and what is in the buffers as far as the
control depends on it (`http`, `extra`). A handler runs on the only thread that touches
sessions, so it is one action; its outcomes are the disjuncts. What `recv`, `send`,
`connect`, `SO_ERROR`, a TLS library or `Connection: keep-alive` answers is a free
choice. `Failing` names the system calls that may fail for want of a resource, and
`"connect"` in it is a connection refused at once (no route, no local port).
Allocation failures inside a handler end in its release and are that outcome.

Two outcomes end a behaviour on purpose. A handler that returns a negative value makes
the worker return (`alive`). A session released or moved while it is not in use makes
`heap` `"corrupt"`: a node that is in no tree is erased from it, so nothing after that
step means anything. Properties are about what happens before, and `ReleasedOnlyInUse`
shows that it does happen.

### Worker

`EpollWait` chooses any sequence of at most `MaxEvents` events on distinct registered
descriptors: epoll is level triggered, so any of them may be ready, and an event carries
the flag the dispatch acts on, `ERR` when none of the watched ones is set. `pc` goes
through the sweep of each tree, one release a step, with the timer interleaved, and then
takes the events in order. `accept` and the first step of a TLS handshake are steps of
their own because the listening event goes on after each. `PipeClosed` masks the
listening events behind it; `PipeReopenLog` leaves `index` where the loop over the virtual
hosts left it (`WorkerThread.c:551` uses `i` for both), so events may be skipped, or
`PastTheEvents` takes the worker down.

Left out of `Worker`: events with no known flag on a client (the kernel always sets one of those
handled here next to a hang-up), errors of a listening socket or of the pipe itself, the
publication of the session count to the other workers (the hand-over is in `Monitor`), and everything under "not
modelled" below.

### Monitor

`mpc` is where the monitor is, `state[p]` where each other process is, and every system
call at which another process can act is a boundary between steps. `pid` and `pipe` are
the fields of `process_info_array`, which is shared memory: `fork`'s result is assigned to
`pid` there by both processes (`MonitorProcess.c:269`) and read again at lines 271 and
282, so `MonitorStores`, `MonitorBranches`, `ChildStores` and `ChildBranches` are steps of
their own and each process may find what the other one stored. (The first workers are
forked at line 166 into a local variable and have no such race.) A monitor that finds 0
goes on as a worker (`"worker"`) and is not followed further; a child that finds its own
pid waits for children it does not have and ends.

`writers[p]` is the set of processes with the write end of the pipe of p. `fork` copies
all that the parent has, the child closes them, `execvp` closes them, and so does the end
of a process; a worker reads the end of its pipe when the set is empty. A byte in the pipe
(USR1) changes nothing here: `PipeReopenLog` of `Worker` has its effect.

`registered[i]` is the set of listeners in the epoll instance of place i. The instances
are made before the workers are forked (`Envirment.c:150`), so they, and what is in them,
outlive the worker that used them. A worker that has accepted hands the listeners to the
place with the fewest published sessions; the counts are of other processes and change
all the time, so any other place may be chosen. `HandOverCut` is the hand-over that ends
in the middle: a second LISTEN event of a batch finds the listeners gone already, a
listener is in the other instance, or the worker is killed.

Abstractions and bounds: pids are numbered by place, two to a place, and the number of a
reaped worker may be used again; there is one next generation at a time, and it is a
process that ends at some time; `"fork"` in `Failing` stands for `pipe()` as well; `fork`
is not interrupted (Linux never returns `EINTR` from it); `"malloc"` is
`SaveListenSockets` failing, which leaves its flag set.

### Page cache

`heap` is memory: a set of blocks, each with what it holds, so that a pointer can outlive
what it points to. `http_buf` and the entries of `cache` hold blocks. A content is the text of
one version of a file, cut or not to the size of another, gzipped or not; a deflated copy
goes the way a gzipped one does. The files change between any two system calls, so `stat`
(`Stat`), `fread` (`ReadFile`) and the rest of `ProcessHttpRequest` with
`inotify_add_watch` (`Answer`) are three steps; everything else in the worker is one thread,
and a request or a batch of events is finished before the next begins. `cache` is keyed by
the name, as the tree of names is; `Matching` finds any of the entries with a watch
descriptor, as the other tree does.

Outside the code: inotify gives an inode one watch, whatever name it was added by
(`AddWatch`); it merges an event with an equal one in front of it; it reports
`IN_IGNORED` when a watch ends; and it gives a new watch a descriptor that is not in use.
A file is modified, replaced or moved away (`FileChanges`).

The bounds are `MaxVersion` changes of each file and `MaxEvents` events in the queue.
Compression is taken to be switched on: with `compress_on` 0, a request that has
`Accept-Encoding` gets neither header nor content (`ProcessHttpRequest.c:266` and `:381`).

### Parser

A byte of `wire` and `memory` is a byte or a piece of a word, words being two pieces long so
that a cut may fall inside one. Every position at which the parser may stop and go on is
there; the words themselves are the few that decide something. `role` says which of the two
buffers it is. `memory` is all of the buffer and not only its filled part, because
`ParseHttpBuffer` looks at one byte behind it (`fasterhttp.c:1426`), and `ResetHttpEnv`
leaves old bytes there. Pointers are offsets, as most are in the code; the two that are not,
`chunked_body` and `chunked_body_end`, are offsets with the flag `dangling`, which a
reallocation may set, and parsing on with it set ends in `"undefined"`.

There is one action for each case of the switch, with the three pairs of cases of a first
line in `Word0` and `Word`; a case falls through with `p`, which is 0 outside of the parser.
A peer sends a message of `Message`, any of it may arrive at a time, and it may never send
the last bytes (`held`). It waits for an answer before it sends the next message; what is
in front of a message is then only what the parser itself leaves there (the CR LF after a
last chunk).

Left out: comparing names without regard to case, the `Connection` header (whether the
connection is kept is a choice, `KeepAlive` or `NextPeer`), growing the array of headers,
and `UncompressHttpBody`. Peers send chunks of at most four bytes, where the decimal number
the code reads (`fasterhttp.c:1574`) is the hexadecimal one that was meant. Numbers are
natural numbers: a `Content-Length` or a chunk size that does not fit an `int`, or is
negative, is outside of the model, and so of what is checked and proved about it.

The reset makes a large buffer small again, but treats the two buffers differently: one of
requests only if the rest fits (`fasterhttp.c:377`), one of responses always (`:390`). A rest
at least as long as the maximum is then outside of the buffer, and what follows is
`"undefined"` (`AfterReset`).

### Generations

A generation is one process: monitor and workers hold the same sockets, and `Monitor` has
them apart. `sockets` are all listening sockets ever made with the address they are bound
to, `fds` the ones a generation holds, `listen` its `listen_session_list` (newest first, as
`list_add` makes it), `old` what is left of `old_netaddr_array`. Each listen section of
the configuration is a step of its own, since the old generation serves meanwhile and may
end. `backlog` has the sockets at which a client waits; a socket that nobody holds any more
is closed, and its clients with it (`Become`).

`bin/hetao.sh` sends USR2 only when it finds one monitor, and TERM to the old one only when
it has found the new one; TERM may also come from elsewhere, to the oldest generation that
serves. An address given explicitly is never found among the inherited ones, because
`GetListener` compares it with the word "ip": `BindRefused` is then what happens, and
`hetao.sh` waits for a monitor that never comes. `MaxGenerations` bounds how often the
program is executed.

### Mistaken operators

Operators whose comment begins with "Mistaken" are not part of any specification: each is
a plausible slip in the operator below it, and `PROJECT.json` names the property that
notices it.

## What is checked

| Run | Instance | Properties | States |
| --- | --- | --- | --- |
| `pool` | 2 addresses (symmetric) with limit 2, 3 sessions and 1 orphan, first batch 1, later ones 3 clamped, timeout 1, elapse 2 | `TypeOK`, `NothingLost`, `Accounting`, `IpCovered`, `AdmissionSpec` | 17 thousand |
| `worker` | 2 sessions, a TLS listener, batches of 4, reopening of logs | `WorkerTypeOK`, `NobodyForgotten`, `RequestThenResponse`, `NoneAcceptedAfterExit`, `UsesPool`, `ElapseEnforced`, `GracefulExit` | 306 thousand |
| `forward` | 2 sessions, 2 servers by least connection, batches of 2 | `ForwardsCounted`, `NobodyForgotten`, `RequestThenResponse`, `EveryServerOnce` | 3.3 million |
| `forward_tls` | 1 session, 2 servers by round robin over TLS, pipelining, every system call may fail, elapse 2 | `ForwardsCounted`, `NobodyForgotten`, `ElapseEnforced` | 300 thousand |
| `html_cache` | 2 clients (symmetric), 3 names of 2 files, one of them over the limit, 3 blocks (symmetric), one change, 2 events, failing watches and MIME types | `HtmlCacheTypeOK`, `CachedPageReachesClient`, `OneOwner`, `ChangeOnTheWay` | 2.7 million |
| `http_parser` | 2 messages out of 30, a buffer of 15 bytes that grows to 60 and is cut back to 25 | `HttpParserTypeOK`, `MessageAsSent`, `RelayedAsSent`, `RefusedOnlyBehindRest`, `EveryMessageTaken` | 290 thousand |
| `graceful_restart` | 3 generations, 4 addresses on 3 ports, 6 configurations | `GracefulRestartTypeOK`, `ListensWhereConfigured`, `HoldsNothingElse`, `RefusedOnlyExplicit`, `NobodyReset` | 180 thousand |
| `monitor` | 2 workers with `accept_mutex`, one listener, all signals, every kind of failure | `MonitorTypeOK`, `OneProcessPerPlace`, `StopsOnlyWhenTold`, `ReturnsLast`, `OneAcceptor`, `AllEndTogether`, `Replaced` | 230 thousand |

Why these bounds are enough. The pool needs two addresses (one refused while the other
is admitted), a limit above one that is reached, a batch that is clamped and one that is not, and one
failed batch followed by a successful one. The worker needs two sessions so that the
event of one may be followed by that of the other, and a batch of four so that both
clients, the listener and the pipe can be in it in any order. Forwarding
needs two clients (events of four sockets, taken two at a time: what matters is what an
event finds after one other) and two servers (a retry goes to another one, and an order
has two places). Failures are explored with one session because they add a choice to each
step; `forward` has the interleavings, `forward_tls` the failures. Times are one or two
seconds: a limit matters as running, passed, or restarted, and elapse is longer
than timeout in the runs where which of them ends a session makes a difference. The
monitor needs two workers so that one dies, or inherits a pipe, while the other is being
started; a listener is moved with the others or fails by itself, and one is enough to
tell; signals, deaths and restarts are not bounded in number.

The cache needs two clients (one sends what the other one's request evicts or frees), two
names of one file (they share a watch) and a third name for a page that is not kept, and
three blocks: a content, a gzipped one and a copy. One change is enough for stale, since an entry is compared with the version on disk
only. The parser needs two messages (the second meets what the first left in the buffer)
and a buffer that some messages outgrow once and some twice; one response is longer than it
announced, so that its rest is longer than the buffer it is cut back to. 15 bytes are chosen with the
messages so that no header section ends exactly where the buffer is full: there the code
itself cuts the last CR LF, which is the violation below. The
last two CR LF are cut in one message only, where that does no harm. Restarts need three
generations: what a second one inherits and does not adopt could still be held by the third.

What the runs show, beyond what each property says above its definition in the modules:
`UsesPool` makes the worker a caller of the pool as `PoolSpec` describes it, so that the
theorems about the pool speak of the worker; `ElapseEnforced` shows that the unlocked
flag and time shared with the timer do no harm beyond a delay of a second, and that only
a completed request or response restarts the elapse limit; `GracefulExit` has the
exception that the code has, a client that goes on using its connection.
`AllEndTogether` shows that no worker keeps the pipe of another one open, also when the
monitor is killed in the middle of a restart; `Replaced` and `OneAcceptor` state what
holds, up to a pid that was overwritten and until a worker has died; `crash_loop` and the
list below show why neither condition can be dropped.

`ChangeOnTheWay` is about an entry whose content was right when its watch was added. A change
between the reading and the watch is never noticed, and the entry is wrong until the next
one (`fresh` is history and tells the two apart). `RefusedOnlyBehindRest` and `RelayedAsSent`
show which messages suffer from the bytes an earlier one left: the ones behind a chunked
message, and no others. `RefusedOnlyExplicit` and `ListensWhereConfigured` together mean that
a server that listens on all addresses of its host can be restarted with any configuration
of that kind, adding and dropping ports.

Four runs expect a violation, each of what a comment of the code or the README of
hetao says; `findings` in `PROJECT.json` quotes it.

| Run | Shows |
| --- | --- |
| `double_release` | a session is released by the sweep or by an event, and again by a later event of the same batch |
| `crash_loop` | the listeners of a worker that was killed are still in the epoll instance its replacement uses, which therefore fails to add them (`WorkerThread.c:87`) and returns, for ever |
| `big_page` | a page over `limits.max_file_cache` is freed at `ProcessHttpRequest.c:477` while the response prepared at line 409 points to it |
| `cut_last_line` | the CR LF that ends the headers arrives in two pieces, and a valid request is refused (`fasterhttp.c:1341`) |

The modules contain more of what the code does and perhaps should not; no property is
stated against it, and the properties above are worded so as to hold beside it:

* a connection refused because the pool is full leaves its address counted
  (`HttpSession.c:100`), so an address may be refused later with no connection open;
* a forward connection that fails at once leaves `forward_flags` set
  (`OnConnectingForward.c:175`), and the output event meant to send the error page goes to
  the forward handlers;
* the tree of forward servers is not updated when a count goes down (`HttpSession.c:207`),
  so the rule may select the busier server;
* a buffer of responses is cut to its maximum whatever is left in it (`fasterhttp.c:390`);
* a new worker's 0 may overwrite its pid in shared memory (`MonitorProcess.c:269`), and its
  end is then not recognised;
* a page whose watch cannot be added is freed behind a response that has it appended
  (`ProcessHttpRequest.c:433`), and a page refused for its MIME type is not freed at all;
* an event evicts one entry of its watch and the watch with it, and `IN_IGNORED` another one,
  so a third name of a replaced file stays out of date for ever
  (`HtmlCacheEventHander.c:41`);
* growing the buffer in the middle of a chunked message leaves two pointers behind
  (`fasterhttp.c:1604`), and a chunked response is relayed as it lies in the buffer, with its
  chunks moved and its old framing between them (`fasterhttp.c:1614`);
* a response to HEAD with a `Content-Length` is waited for (`fasterhttp.c:1353` looks at a
  method that is not set for responses);
* a request whose headers take exactly a full buffer (512 bytes, 1024, ...) has its last CR
  LF cut by the buffer and is refused as in `cut_last_line`.

`CHECK_DEADLOCK FALSE` is set for the runs of the worker and the monitor because both stop,
and for the last three because a worker returns, messages run out and the server is stopped.

### Fairness

`FairSpec` of `Worker` has weak fairness of the two threads as wholes: `WF(Timer)`, because `sleep(1)`
returns, and `WF(Loop)`, because `epoll_wait` is called with a timeout of a second and no
handler blocks. There is no fairness for any choice inside a step: a client may be
silent, a forward server may never answer, `epoll_wait` may return nothing for ever. The
two liveness properties hold under this alone, which is the point of the two limits.

`FairSpec` of `Monitor` has weak fairness of the monitor and of each worker's starting and
stopping: both are processes the kernel schedules, the closed pipe is reported by every
`epoll_wait` until it is read, and a worker that was told to stop ends (see above). Strong
fairness of reaping the workers of each place stands for `waitpid` on Linux, which looks
at the children in the order they were forked and so does not pass one over for ever while
others keep dying. Nothing is fair about failures, signals, events or the hand-over.

`Spec` of `HttpParser` has `WF(Receiving)`: bytes that have arrived are reported by a level
triggered `epoll_wait` until they are received, and the thread goes on in the loop of
`ReceiveHttpRequestNonblock`. Peers owe nothing. `HtmlCache` and `GracefulRestart` have no
liveness properties: the cache promises none (an event may wait behind any number of
requests), and `hetao.sh` waits for ever when the next generation fails.

## What is proved

`HttpSession_proofs` proves, for every number of sessions, batch size, timeout, limit and
set of addresses:

| Theorem | Statement |
| --- | --- |
| `TypeCorrect` | `PoolSpec => []TypeOK` |
| `NoSessionLost` | `PoolSpec => []NothingLost` |
| `CountersAgree` | `PoolSpec => []Accounting` |
| `ConnectionsCounted` | `PoolSpec => []IpCovered` |
| `PoolImplementsAdmission` | `PoolSpec => AdmissionSpec` |

They rest on `PoolAssumption` and `IpLimitAssumption` (the limits and counts are numbers
of the right sign) and on the set of addresses being whatever it is. The inductive invariant
`IInv` joins the four properties with what they need from each other. `TypeOK` alone is
not inductive: `unused_count - 1` is a natural number only with the guard of a fetch, and
the sessions of a new batch are sessions at all only because `Accounting` bounds
`allocated`. `Accounting` needs `NothingLost`, since the cardinality of the sessions in use
moves by one only if the session moved was not there before. `IpCovered` relates the
connections in use to a counter that may be larger than their number (the leak above), and
is what makes the guard of `Open` in `Admission` true. The refinement maps a connection to
a session in use with its address; a refresh, a tick and every failed fetch are stutters.

`Worker_proofs` proves, for every number of sessions, forward servers, listeners and events
in a batch, both rules, forwarding with and without TLS, pipelining, and any set of failing
system calls:

| Theorem | Statement |
| --- | --- |
| `WorkerUsesPool` | `Spec => UsesPool`, that is `Spec => PoolSpec` |
| `WorkerLosesNoSession` | `Spec => [](NothingLost /\ Accounting /\ IpCovered)` |
| `WorkerImplementsAdmission` | `Spec => AdmissionSpec` |
| `WorkerTypes` | `Spec => []WorkerTypeOK` |
| `ClientsAreWatched` | `Spec => []NobodyForgotten` |
| `RequestsAlternate` | `Spec => []RequestThenResponse` |
| `EveryForwardIsCounted` | `Spec => []ForwardsCounted` |
| `ServersStayInOrder` | `Spec => []EveryServerOnce` |
| `ExitAcceptsNothing` | `Spec => NoneAcceptedAfterExit` |

The first of them carries the theorems about the pool over: every handler, sweep and accept
is shown to take a step of `PoolNext` or none, and the next two follow from it and from
`HttpSession_proofs` by temporal logic alone. `WorkerInv` is the invariant of the pool
together with `EachServed` (how the masks, flags and buffers of one session fit together,
in use or not), `Counted`, the order of the servers, and three facts about the loop.
`NobodyForgotten` alone is not inductive: a handler may leave the client with a hang-up mask
only because of what `Served` says of the forward connection, and a session taken out of the
list starts right only because `Served` also says how released ones were left. `Handshaking`
and `Accepting` are there for the steps between an event of a listener and the next event;
`Exiting`, that the batch has no listener's event after the pipe was closed, is what
`NoneAcceptedAfterExit` needs. The proof goes handler by handler, as `Handle` does: each is
shown to satisfy `Handled`, which says what it may do to the session of its event, and
`HandledKeeps` carries `EachServed` and `Counted` through anything that does.

`Monitor_proofs` proves, for every number of workers and listeners, with and without
`accept_mutex`, and any set of failures:

| Theorem | Statement |
| --- | --- |
| `MonitorTypes` | `Spec => []MonitorTypeOK` |
| `NoTwoInOnePlace` | `Spec => []OneProcessPerPlace` |
| `NoneStopsUntold` | `Spec => []StopsOnlyWhenTold` |
| `MonitorReturnsLast` | `Spec => []ReturnsLast` |
| `EveryListenerOnce` | `Spec => []OneAcceptor` |

`Account` is what the monitor knows of its children. Its core is that the pipe of a place
leads to the only child of that place (`OneChild`), while the table in shared memory, which
the child may overwrite, names that child or nobody (`Table`): so a pid that is found in the
table may be trusted, and one that is lost stops a restart but never starts a second worker.
`Count` says which places `worker_processes` still counts, including those whose pid was
lost; without it `ReturnsLast` does not survive `wait`. `Held`, that the monitor has the
write end of every worker's pipe until it closes them all, is behind `StopsOnlyWhenTold`.
`Acceptor` adds to `OneAcceptor` that all listeners are in one instance together, or not yet
in any.

`HtmlCache_proofs` proves, for every number of files, names, clients, blocks, watch
descriptors, changes and events:

| Theorem | Statement |
| --- | --- |
| `HtmlCacheTypes` | `Spec => []HtmlCacheTypeOK` |
| `EveryBlockHasOneOwner` | `Spec => []OneOwner` |
| `PagesArriveWhole` | `Spec => []CachedPageReachesClient` |
| `ChangesAreNoticed` | `Spec => []ChangeOnTheWay` |

The first three follow from `Memory`: a block has content exactly as long as somebody is
there to free it (`Filled`), nobody shares that duty (`Apart`), and a response points to
what was promised in a block that is its own or an entry's (`Promised`). The last one needs
`Noticed` as well. An event names a watch and evicts any one entry that has it, so with
two names of a file one event leaves one entry; `BothOnTheWay` says that when their watch is
gone both have an event of their own on the way, be it the `IN_IGNORED` of that watch.
`ChangeOnTheWay` is about files of at most two names, because for three it is false, as TLC
shows: a replaced file sends two events, which evict two entries, the watch is gone, and the
third entry is out of date with nothing on the way.

`HttpParser_proofs` proves, for every set of messages, however they are cut or broken off,
and every size and maximum of the buffer:

| Theorem | Statement |
| --- | --- |
| `ParserStaysInBuffer` | `Spec => []HttpParserTypeOK` |

Its core is `process_ptr <= fill_ptr < buf_size`, and `p <= fill_ptr` in the parser: no case of
the switch, no growth and no reset puts an offset behind what was received or fills the last
byte, which `ReceiveHttpRequestNonblock` needs for its 0. `Fits` is what makes it inductive. The content
and a chunk begin inside what was received, or `Body` and `MoveChunk` would go on behind it;
the first line has less than three words as long as a word is read; and the name of the
header being read begins with a byte that is neither space nor CR, in front of its value:
the loop back from the end of a value (`fasterhttp.c:1478`) has no bound of its own, and it is
that byte that stops it when the value is empty. The proof has a lemma for each case of the
switch, over one for each way a case ends. `Recursion` is what it takes for the functions that
compute over a sequence (`Number`, `FlattenSeq`): the library's theorems on recursive
functions take operators as parameters, and this one takes the steps as a function.

`HttpMessage_proofs` proves that honest messages arrive as they were sent, again for every cut
and every size of the buffer. `Honest` (in `HttpParser`) says what that is: the words, names
and values are made of characters that are no separators, the method and the version are
known, a content has its length announced and is not chunked (no header says
`Transfer-Encoding`), values are not empty where
lines end with LF only, and the message is none of `CutLastLine`. It need not be complete.
`HonestPeers` says so of every element of `Message`, and `MCHttpParser` asserts it of the
ones of the runs that are meant.

| Theorem | Statement |
| --- | --- |
| `HonestMessagesArrive` | `HonestPeers` implies `Spec => []MessageAsSent` |
| `HonestMessagesRelayed` | `HonestPeers` implies `Spec => []RelayedAsSent` |
| `HonestMessagesAccepted` | `HonestPeers` implies `Spec => [](RefusedOnlyBehindRest /\ NeverRefused /\ at # "undefined")` |

None of the three properties says anything of a message that is half read, so none is
inductive. `ReadInv` says what is true at every byte. Either nothing is under way and nothing
of an earlier message is left (`Idle`), or one message is, the bytes of it that came are in
the buffer and the ones that did not are on the wire (`ToCome`, `Came`), and what the parser
knows is right for the bytes it has looked at (`Reading`): so many words and headers, each at
its place in the message, the length of the content if its header is among them, and
`parse_step` is the case for the byte that comes next. The places are given by the message
alone (`WordBegin`, `HeaderBegin`, `BodyBegin`, and `Laid`, proved in `LaidOut`: these parts
are the message). A case of the switch then has to find with `Seek`, `Past` and
`Back` the place where the part it looks for ends, or the end of what was received, after
which it goes on at a byte that `Reading` still knows. An empty value is the odd one: `Back`
passes the space in front of it and stops at the colon, and its length is -1 (`ValueLen`),
which `Text` makes the empty word it was.

The hypothesis is what the code needs, but for a header `Transfer-Encoding` with a value other
than `chunked`, which does no harm and is left out for the sake of the proof. A CR that is the last byte received, in the line that
ends the headers, is forgotten (`CutLastLine`, `LastLineWhole`); a value of nothing and LF is
refused; a content that is not announced is the beginning of the next message; and the CR LF
behind a chunked content is not taken with it but left for the next message, so that
`Idle` is false. That peers of a session before were honest too is part of it, because a
session hands its buffer on to the next peer.

`GracefulRestart_proofs` proves, for every set of addresses and configurations and any
number of restarts:

| Theorem | Statement |
| --- | --- |
| `NothingElseIsHeld` | `Spec => []HoldsNothingElse` |
| `ListensWhereToldTo` | `OneAddressPerPort` and `DistinctSections` imply `Spec => []ListensWhereConfigured` |
| `GenerationTypes` | the same imply `Spec => []GracefulRestartTypeOK` |
| `OthersAreNotRefused` | the same imply `Spec => []RefusedOnlyExplicit` |
| `NobodyIsReset` | the same imply `Spec => NobodyReset` |

`HoldsNothingElse` speaks of serving generations only and is not inductive: `HeldInv` adds
what a starting one holds, which is what it listens on and what it has inherited and not
adopted, so that `CloseUnusedOldListeners` leaves the former. `ListensWhereConfigured` needs
more (`PlacedInv`): the list of listeners mirrors the sections dealt with, whatever was
inherited is held, once each, and what is still unused is not listened on, or it would be
closed. The last three relate the generations to each other (`SharedInv`): while one starts
no other does, and it has inherited all that the others hold (`Heir`), so an address is taken
only by a socket that it can adopt, and the sockets of a generation that fails or ends are
held by another one. The two hypotheses are about the configuration files and
`MCGracefulRestart` asserts them of its own: without the first, a section for every address
adopts a socket that is bound to one (`Envirment.c:359`), and without the second, a socket is
handed over twice, adopted once and closed.

The theorems assume of the constants what the `ASSUME` of each module says and no more:
limits and counts are numbers of the right sign, markers such as `NoServer` or `Null` are
none of the things they stand beside, the pieces of words are no separators, `ServerList` names no server twice, and the failing
calls are among those that can fail. Every one is evaluated by TLC in the runs.

Only model-checked are the liveness properties (`ElapseEnforced`, `GracefulExit`,
`AllEndTogether`, `Replaced`, `EveryMessageTaken`), which are out of the prover's reach, and
`MessageAsSent`, `RelayedAsSent` and `RefusedOnlyBehindRest` where not every message is
honest: when it, or one before it, is chunked or not well formed. The invariant for chunks
would also have to say which of them `MoveChunk` has moved, and what an earlier message has
left. The three are not true of every message either: one that has another message in its
content, of a length not announced, is taken as two.

## Plan

Done in this order: pool, its proof, forward servers, connections, worker, monitor with the
hand-over of the listeners, page cache, parser, generations; then the proofs about the
generations, the monitor, the page cache, the worker, the buffer of the parser and the
messages it reads. Next:

1. Rewriting of URIs as an operator over matches, against the substitution it is meant to be.
2. `ReadInv` for chunked messages: the chunks that were read are at `body_base_offset` one
   behind the other, and `Idle` with the CR LF that is left in front.

## Not modelled, and why

* Whether the choice of the next acceptor balances the load: the hand-over is checked for
  any choice.
* Configuration and the generated JSON code: read once at start, nothing later depends on
  an order of steps in it.
* Virtual hosts, redirection and MIME types: tables that are built at start and looked up;
  what they answer is a choice in `Connection` and `HtmlCache`. Rewriting: what it does
  depends on the matches of pcre. From reading: a capture that is shorter than its place
  `(n)` cuts the end of the template (`RewriteUri.c:68` counts the bytes to be moved from the
  new length), and the character behind a place is skipped (line 72), so that of two places
  side by side the second stays; the rule of `conf/hetao.conf:28` needs captures of
  three bytes or more.
* Formatting and sending in `fasterhttp.c`, its blocking functions for clients, which hetao
  does not call, its queries by header name, and decompression.
* Red-black trees and linked lists: containers, replaced by functions and sequences.
* Logging, Windows, `hetaocheck`, `minihetao`: no part in what a worker does. The headers of
  OpenSSL, zlib and pcre under `expack` are those libraries' own.
