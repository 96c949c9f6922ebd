---------------------------- MODULE Worker_proofs ---------------------------
(***************************************************************************)
(* Proofs about the worker: it uses the pool of sessions as the pool's     *)
(* specification describes its callers, so that the theorems about the     *)
(* pool speak of it, and its sessions, their epoll masks and the counts of *)
(* the forward servers agree whatever order events, expiries, failures and *)
(* answers come in, for every number of sessions, servers, listeners and   *)
(* events and both rules of choosing a server.                             *)
(***************************************************************************)
EXTENDS Worker, HttpSession_proofs, SequenceTheorems, WellFoundedInduction

\* How a session may stand to its client and its forward server: NobodyForgotten
\* and RequestThenResponse, with what they leave unsaid of sessions that are not
\* in use or in the middle of a TLS handshake.
Served(c, used) ==
    /\ used <=> c.mask # "none"
    /\ ~used => c.fmask = "none" /\ c.flags = "none" /\ c.http = "empty"
    /\ c.mask = "RDHUP" => c.flags # "none" /\ c.fmask # "none"
    /\ c.ssl = "handshake" => c.http = "empty" /\ c.flags = "none"
    /\ c.ssl # "handshake" /\ c.mask = "OUT" => c.http = "response"
    /\ c.ssl # "handshake" /\ c.mask = "IN" => c.http = "empty" /\ c.flags = "none"
    /\ c.flags # "none" => c.server \in Server

EachServed == \A s \in Session : Served(conn[s], s \in InUse)

\* ForwardsCounted, over all sessions.
ForwardedTo(f) == {s \in Session : conn[s].server = f /\ conn[s].flags # "none"}

Counted == \A f \in Server : connection_count[f] = Cardinality(ForwardedTo(f))

\* The lists that have every server once.
Order == {order \in Seq(Server) : \A f \in Server : OnceIn(order, f)}

\* The session whose first handshake step is due is in use and waits for it.
Handshaking == pc = "handshake" => current \in InUse /\ conn[current].ssl = "handshake"

\* After the pipe is closed nothing is being accepted and no event says so.
Exiting ==
    g_worker_exit_flag => /\ pc # "accept"
                          /\ \A k \in DOMAIN batch : batch[k].type # "LISTEN"

\* The event that is being dealt with stays in front of the batch.
Accepting == pc \in {"accept", "handshake"} => batch # <<>>

WorkerInv ==
    /\ IInv
    /\ WorkerTypeOK
    /\ EachServed
    /\ Counted
    /\ server_order \in Order
    /\ Handshaking
    /\ Exiting
    /\ Accepting

-----------------------------------------------------------------------------
(* The order of the forward servers.                                       *)

\* The first usable server is one of the servers in the order.
LEMMA Selects ==
    ASSUME server_order \in Order, NEW left, NEW f \in SelectForwardAddress(left)
    PROVE  \E i \in 1 .. Len(server_order) : f = server_order[i] /\ f \in Server
  <1>1. server_order \in Seq(Server) /\ DOMAIN server_order = 1 .. Len(server_order)
    BY LenProperties DEF Order
  <1>2. \A i \in 1 .. Len(server_order) : server_order[i] \in Server
    BY <1>1, ElementOfSeq
  <1> QED BY <1>1, <1>2 DEF SelectForwardAddress, Usable

\* t is s with f put in behind its p-th element.
PutIn(s, p, f, t) ==
    /\ Len(t) = Len(s) + 1 /\ t[p + 1] = f
    /\ \A k \in 1 .. p : t[k] = s[k]
    /\ \A k \in p + 1 .. Len(s) : t[k + 1] = s[k]

\* A list without its p-th element.
LEMMA CutElems ==
    ASSUME NEW S, NEW s \in Seq(S), NEW p \in 1 .. Len(s)
    PROVE  LET t == SubSeq(s, 1, p - 1) \o SubSeq(s, p + 1, Len(s)) IN
           t \in Seq(S) /\ PutIn(t, p - 1, s[p], s)
  <1> DEFINE n == Len(s)
             a == SubSeq(s, 1, p - 1)
             b == SubSeq(s, p + 1, n)
             t == a \o b
  <1>1. n \in Nat /\ p \in 1 .. n /\ \A k \in 1 .. n : s[k] \in S
    BY LenProperties, ElementOfSeq
  <1> HIDE DEF n
  <1>2. a \in Seq(S) /\ Len(a) = p - 1 /\ \A k \in 1 .. p - 1 : a[k] = s[k]
    BY <1>1, SubSeqProperties
  <1>3. b \in Seq(S) /\ Len(b) = n - p /\ \A k \in 1 .. n - p : b[k] = s[p + k]
    BY <1>1, SubSeqProperties
  <1> HIDE DEF a, b
  <1>4. /\ t \in Seq(S) /\ Len(t) = Len(a) + Len(b)
        /\ \A k \in 1 .. Len(a) + Len(b) : t[k] = IF k <= Len(a) THEN a[k] ELSE b[k - Len(a)]
    BY ONLY <1>2, <1>3, ConcatProperties
  <1> HIDE DEF t
  <1>5. n = Len(t) + 1 /\ \A k \in 1 .. p - 1 : s[k] = t[k]
    BY ONLY <1>1, <1>2, <1>3, <1>4
  <1>6. ASSUME NEW k \in p .. n - 1 PROVE s[k + 1] = t[k]
    <2>1. t[k] = b[k - (p - 1)] /\ k - (p - 1) \in 1 .. n - p
      BY ONLY <1>1, <1>2, <1>3, <1>4, k \in p .. n - 1
    <2> QED BY ONLY <1>1, <1>3, <2>1, k \in p .. n - 1
  <1>7. PutIn(t, p - 1, s[p], s)
    BY <1>1, <1>5, <1>6 DEF PutIn, n
  <1> QED BY <1>4, <1>7 DEF t, a, b, n

\* A list with another element put in.
LEMMA InsertElems ==
    ASSUME NEW S, NEW s \in Seq(S), NEW p \in 0 .. Len(s), NEW f \in S
    PROVE  LET t == SubSeq(s, 1, p) \o <<f>> \o SubSeq(s, p + 1, Len(s)) IN
           t \in Seq(S) /\ PutIn(s, p, f, t)
  <1> DEFINE n == Len(s)
             a == SubSeq(s, 1, p)
             b == SubSeq(s, p + 1, n)
             af == a \o <<f>>
             t == af \o b
  <1>1. n \in Nat /\ p \in 0 .. n /\ \A k \in 1 .. n : s[k] \in S
    BY LenProperties, ElementOfSeq
  <1> HIDE DEF n
  <1>2. a \in Seq(S) /\ Len(a) = p /\ \A k \in 1 .. p : a[k] = s[k]
    BY <1>1, SubSeqProperties
  <1>3. b \in Seq(S) /\ Len(b) = n - p /\ \A k \in 1 .. n - p : b[k] = s[p + k]
    BY <1>1, SubSeqProperties
  <1>4. <<f>> \in Seq(S) /\ Len(<<f>>) = 1 /\ <<f>>[1] = f
    OBVIOUS
  <1> HIDE DEF a, b
  <1>5. /\ af \in Seq(S) /\ Len(af) = Len(a) + 1
        /\ \A k \in 1 .. Len(a) + 1 : af[k] = IF k <= Len(a) THEN a[k] ELSE <<f>>[k - Len(a)]
    BY ONLY <1>2, <1>4, ConcatProperties
  <1>6. Len(af) = p + 1 /\ af[p + 1] = f /\ \A k \in 1 .. p : af[k] = s[k]
    BY ONLY <1>1, <1>2, <1>4, <1>5
  <1> HIDE DEF af
  <1>7. /\ t \in Seq(S) /\ Len(t) = Len(af) + Len(b)
        /\ \A k \in 1 .. Len(af) + Len(b) : t[k] = IF k <= Len(af) THEN af[k] ELSE b[k - Len(af)]
    BY ONLY <1>3, <1>5, ConcatProperties
  <1> HIDE DEF t
  <1>8. Len(t) = n + 1 /\ t[p + 1] = f /\ \A k \in 1 .. p : t[k] = s[k]
    BY ONLY <1>1, <1>3, <1>6, <1>7
  <1>9. ASSUME NEW k \in p + 1 .. n PROVE t[k + 1] = s[k]
    <2>1. t[k + 1] = b[k - p] /\ k - p \in 1 .. n - p
      BY ONLY <1>1, <1>3, <1>6, <1>7, k \in p + 1 .. n
    <2> QED BY ONLY <1>1, <1>3, <2>1, k \in p + 1 .. n
  <1>10. PutIn(s, p, f, t)
    BY <1>8, <1>9 DEF PutIn, n
  <1> QED BY <1>7, <1>10 DEF t, af, a, b, n

\* Where an element of the longer list comes from, and where one of the shorter is put.
LEMMA PutInCases ==
    ASSUME NEW S, NEW s \in Seq(S), NEW t \in Seq(S), NEW p \in 0 .. Len(s), NEW f,
           PutIn(s, p, f, t)
    PROVE  /\ DOMAIN s = 1 .. Len(s) /\ DOMAIN t = 1 .. Len(s) + 1 /\ Len(s) \in Nat
           /\ \A j \in DOMAIN t :
                 \/ j = p + 1 /\ t[j] = f
                 \/ j \in 1 .. p /\ j \in DOMAIN s /\ t[j] = s[j]
                 \/ j - 1 \in p + 1 .. Len(s) /\ j - 1 \in DOMAIN s /\ t[j] = s[j - 1]
           /\ \A k \in DOMAIN s :
                 \/ k \in 1 .. p /\ k \in DOMAIN t /\ t[k] = s[k]
                 \/ k \in p + 1 .. Len(s) /\ k + 1 \in DOMAIN t /\ t[k + 1] = s[k]
  <1> DEFINE n == Len(s)
  <1>1. /\ DOMAIN s = 1 .. n /\ DOMAIN t = 1 .. n + 1 /\ n \in Nat /\ p \in 0 .. n
        /\ t[p + 1] = f
        /\ \A k \in 1 .. p : t[k] = s[k]
        /\ \A k \in p + 1 .. n : t[k + 1] = s[k]
    BY LenProperties DEF PutIn
  <1> HIDE DEF n
  <1>2. ASSUME NEW j \in 1 .. n + 1, j # p + 1, j \notin 1 .. p
        PROVE  j - 1 \in p + 1 .. n /\ j - 1 \in 1 .. n /\ t[j] = s[j - 1]
    <2>1. j - 1 \in p + 1 .. n /\ j - 1 \in 1 .. n /\ (j - 1) + 1 = j
      BY ONLY <1>1, <1>2
    <2> QED BY ONLY <1>1, <2>1
  <1>3. \A j \in 1 .. p : j \in 1 .. n
    BY ONLY <1>1
  <1>4. \A k \in 1 .. n : \/ k \in 1 .. p /\ k \in 1 .. n + 1
                          \/ k \in p + 1 .. n /\ k + 1 \in 1 .. n + 1
    BY ONLY <1>1
  <1> QED BY <1>1, <1>2, <1>3, <1>4 DEF n

\* What is in a list once is in it once without another element.
LEMMA CutOnce ==
    ASSUME NEW S, NEW s \in Seq(S), NEW t \in Seq(S), NEW p \in 0 .. Len(s), NEW f \in S,
           PutIn(s, p, f, t), \A g \in S : OnceIn(t, g)
    PROVE  /\ \A j \in DOMAIN s : s[j] # f
           /\ \A g \in S \ {f} : OnceIn(s, g)
  <1>1. /\ DOMAIN t = 1 .. Len(s) + 1 /\ Len(s) \in Nat
        /\ \A j \in DOMAIN t :
              \/ j = p + 1 /\ t[j] = f
              \/ j \in 1 .. p /\ j \in DOMAIN s /\ t[j] = s[j]
              \/ j - 1 \in p + 1 .. Len(s) /\ j - 1 \in DOMAIN s /\ t[j] = s[j - 1]
        /\ \A k \in DOMAIN s :
              \/ k \in 1 .. p /\ k \in DOMAIN t /\ t[k] = s[k]
              \/ k \in p + 1 .. Len(s) /\ k + 1 \in DOMAIN t /\ t[k + 1] = s[k]
    BY PutInCases
  <1>2. p + 1 \in DOMAIN t /\ t[p + 1] = f /\ p \in Nat
    BY <1>1 DEF PutIn
  <1>3. ASSUME NEW i \in DOMAIN t, NEW j \in DOMAIN t, t[i] = t[j] PROVE i = j
    <2>1. t[j] \in S
      BY ElementOfSeq, LenProperties
    <2>2. OnceIn(t, t[j])
      BY <2>1
    <2> QED BY ONLY <1>3, <2>2, i \in DOMAIN t, j \in DOMAIN t DEF OnceIn
  <1>4. ASSUME NEW j \in DOMAIN s PROVE s[j] # f
    <2> SUFFICES ASSUME s[j] = f PROVE FALSE
      OBVIOUS
    <2>1. PICK i \in DOMAIN t : t[i] = f /\ i # p + 1
      <3>1. \/ j \in 1 .. p /\ j \in DOMAIN t /\ t[j] = f
            \/ j \in p + 1 .. Len(s) /\ j + 1 \in DOMAIN t /\ t[j + 1] = f
        BY <1>1
      <3>2. j \in 1 .. p => j # p + 1
        BY ONLY p \in 0 .. Len(s)
      <3>3. j \in p + 1 .. Len(s) => j + 1 # p + 1
        BY ONLY p \in 0 .. Len(s)
      <3> QED BY ONLY <3>1, <3>2, <3>3
    <2> QED BY <1>2, <1>3, <2>1
  <1>5. ASSUME NEW g \in S \ {f} PROVE OnceIn(s, g)
    <2>1. PICK k \in DOMAIN t : t[k] = g
      BY DEF OnceIn
    <2>2. PICK i \in DOMAIN s : s[i] = g
      BY <1>1, <2>1
    <2>3. ASSUME NEW j \in DOMAIN s, s[j] = g PROVE j = i
      BY <1>1, <1>3, <2>2, <2>3
    <2> QED BY <2>2, <2>3 DEF OnceIn
  <1> QED BY <1>4, <1>5

\* What is not in a list is in it once when it is put in, and so are the others.
LEMMA InsertOnce ==
    ASSUME NEW S, NEW s \in Seq(S), NEW t \in Seq(S), NEW p \in 0 .. Len(s), NEW f \in S,
           PutIn(s, p, f, t), \A j \in DOMAIN s : s[j] # f, \A g \in S \ {f} : OnceIn(s, g)
    PROVE  \A g \in S : OnceIn(t, g)
  <1>1. /\ DOMAIN t = 1 .. Len(s) + 1 /\ Len(s) \in Nat
        /\ \A j \in DOMAIN t :
              \/ j = p + 1 /\ t[j] = f
              \/ j \in 1 .. p /\ j \in DOMAIN s /\ t[j] = s[j]
              \/ j - 1 \in p + 1 .. Len(s) /\ j - 1 \in DOMAIN s /\ t[j] = s[j - 1]
        /\ \A k \in DOMAIN s :
              \/ k \in 1 .. p /\ k \in DOMAIN t /\ t[k] = s[k]
              \/ k \in p + 1 .. Len(s) /\ k + 1 \in DOMAIN t /\ t[k + 1] = s[k]
    BY PutInCases
  <1>2. p + 1 \in DOMAIN t /\ t[p + 1] = f
    BY <1>1 DEF PutIn
  <1>3. OnceIn(t, f)
    BY <1>1, <1>2 DEF OnceIn
  <1>4. ASSUME NEW g \in S \ {f} PROVE OnceIn(t, g)
    <2>1. PICK k \in DOMAIN s : s[k] = g /\ \A j \in DOMAIN s : s[j] = g => j = k
      BY DEF OnceIn
    <2>2. PICK i \in DOMAIN t : \/ i = k /\ k \in 1 .. p /\ t[i] = g
                                \/ i = k + 1 /\ k \in p + 1 .. Len(s) /\ t[i] = g
      BY <1>1, <2>1
    <2>3. ASSUME NEW j \in DOMAIN t, t[j] = g PROVE j = i
      <3>1. \/ j \in 1 .. p /\ j = k
            \/ j - 1 \in p + 1 .. Len(s) /\ j - 1 = k
        BY <1>1, <2>1, <2>3
      <3> QED BY ONLY <1>1, <2>2, <3>1, j \in DOMAIN t, p \in 0 .. Len(s)
    <2> QED BY <2>2, <2>3 DEF OnceIn
  <1> QED BY <1>3, <1>4

\* Taking a server out of the order leaves the other ones.
LEMMA WithoutServers ==
    ASSUME server_order \in Order, NEW i \in 1 .. Len(server_order)
    PROVE  /\ Without(server_order[i]) \in Seq(Server)
           /\ \A j \in DOMAIN Without(server_order[i]) :
                 Without(server_order[i])[j] # server_order[i]
           /\ \A g \in Server \ {server_order[i]} : OnceIn(Without(server_order[i]), g)
  <1> DEFINE f == server_order[i]
             p == Position(f)
             t == Without(f)
  <1>1. server_order \in Seq(Server) /\ \A g \in Server : OnceIn(server_order, g)
    BY DEF Order
  <1>2. DOMAIN server_order = 1 .. Len(server_order) /\ Len(server_order) \in Nat
    BY <1>1, LenProperties
  <1>3. p \in 1 .. Len(server_order) /\ server_order[p] = f
    BY <1>2 DEF Position
  <1>4. f \in Server
    BY <1>1, ElementOfSeq
  <1> HIDE DEF p, f
  <1>5. t = SubSeq(server_order, 1, p - 1) \o SubSeq(server_order, p + 1, Len(server_order))
    BY DEF Without, p
  <1> HIDE DEF t
  <1>6. t \in Seq(Server) /\ PutIn(t, p - 1, f, server_order)
    BY <1>1, <1>3, <1>5, CutElems
  <1>7. p - 1 \in 0 .. Len(t)
    BY <1>2, <1>3, <1>6, LenProperties DEF PutIn
  <1> QED BY <1>1, <1>4, <1>6, <1>7, CutOnce DEF t, f

\* Moving a server to where the rule wants it keeps every server in the order once.
LEMMA OrderServers ==
    ASSUME server_order \in Order, NEW i \in 1 .. Len(server_order), NEW count
    PROVE  /\ OrderAfterSelect(server_order[i]) \in Order
           /\ OrderAfterConnect(server_order[i], count) \subseteq Order
  <1> DEFINE f == server_order[i]
             rest == Without(f)
  <1>1. f \in Server
    BY ElementOfSeq DEF Order
  <1>2. /\ rest \in Seq(Server)
        /\ \A j \in DOMAIN rest : rest[j] # f
        /\ \A g \in Server \ {f} : OnceIn(rest, g)
    BY WithoutServers
  <1> HIDE DEF f, rest
  <1>3. server_order \in Order
    OBVIOUS
  <1>4. ASSUME NEW t \in Seq(Server), NEW p \in 0 .. Len(rest), PutIn(rest, p, f, t)
        PROVE  t \in Order
    BY <1>1, <1>2, <1>4, InsertOnce DEF Order
  <1>5. Append(rest, f) \in Order
    <2> DEFINE t == Append(rest, f)
    <2>1. t \in Seq(Server) /\ PutIn(rest, Len(rest), f, t)
      BY <1>1, <1>2, AppendProperties, LenProperties DEF PutIn
    <2>2. Len(rest) \in 0 .. Len(rest)
      BY <1>2, LenProperties
    <2> HIDE DEF t
    <2>3. t \in Order
      BY <1>4, <2>1, <2>2
    <2> QED BY <2>3 DEF t
  <1>6. ASSUME NEW p \in 0 .. Len(rest)
        PROVE  SubSeq(rest, 1, p) \o <<f>> \o SubSeq(rest, p + 1, Len(rest)) \in Order
    <2> DEFINE t == SubSeq(rest, 1, p) \o <<f>> \o SubSeq(rest, p + 1, Len(rest))
    <2>1. t \in Seq(Server) /\ PutIn(rest, p, f, t)
      BY <1>1, <1>2, InsertElems
    <2> HIDE DEF t
    <2>2. t \in Order
      BY <1>4, <2>1
    <2> QED BY <2>2 DEF t
  <1>7. UpdateLeastConnectionCountTreeNode(f, count) \subseteq Order
    BY <1>6 DEF UpdateLeastConnectionCountTreeNode, rest
  <1>8. /\ OrderAfterSelect(f) \in Order
        /\ OrderAfterConnect(f, count) \subseteq Order
    BY <1>3, <1>5, <1>7 DEF OrderAfterSelect, OrderAfterConnect, rest
  <1> QED BY <1>8 DEF f

\* A set of natural numbers that is not empty has a least element.
LEMMA Least ==
    ASSUME NEW T \in SUBSET Nat, T # {}
    PROVE  \E x \in T : \A y \in T : x <= y
  <1>1. \A x, y \in Nat : <<x, y>> \in OpToRel(<, Nat) <=> x < y
    BY DEF OpToRel
  <1>2. PICK x \in T : \A y \in T : ~ (<<y, x>> \in OpToRel(<, Nat))
    BY NatLessThanWellFounded, WFMin, Zenon
  <1>3. \A y \in T : ~ (y < x)
    BY <1>1, <1>2
  <1> QED BY <1>3

\* The walk down the tree always ends at a place for the server, whatever counts
\* the others have by now: before the first one whose count is not smaller.
LEMMA TreeHasAPlace ==
    ASSUME server_order \in Order, NEW i \in 1 .. Len(server_order),
           NEW count \in [Server -> Nat]
    PROVE  OrderAfterConnect(server_order[i], count) # {}
  <1> DEFINE f == server_order[i]
             rest == Without(f)
             n == Len(rest)
             T == {k \in 0 .. n : k < n => count[f] <= count[rest[k + 1]]}
  <1>1. rest \in Seq(Server) /\ n \in Nat /\ f \in Server
    BY WithoutServers, ElementOfSeq, LenProperties DEF Order
  <1>2. \A k \in 1 .. n : count[rest[k]] \in Nat
    BY <1>1, ElementOfSeq
  <1>3. count[f] \in Nat
    BY <1>1
  <1> HIDE DEF f, rest, n
  <1>4. T \in SUBSET Nat /\ n \in T
    BY <1>1
  <1>5. PICK p \in T : \A k \in T : p <= k
    <2> HIDE DEF T
    <2> QED BY <1>4, Least
  <1>6. p \in 0 .. n /\ (p < n => count[f] <= count[rest[p + 1]])
    OBVIOUS
  <1>7. ASSUME p > 0 PROVE count[f] > count[rest[p]]
    <2>1. p - 1 \in 0 .. n /\ p - 1 < n /\ (p - 1) + 1 = p /\ p \in 1 .. n /\ ~ (p <= p - 1)
      BY ONLY <1>1, <1>6, <1>7
    <2>2. p - 1 \notin T
      <3> HIDE DEF T
      <3> QED BY <1>5, <2>1
    <2>3. ~ (count[f] <= count[rest[p]])
      BY <2>1, <2>2
    <2>4. count[rest[p]] \in Nat
      BY <1>2, <2>1
    <2> QED BY ONLY <1>3, <2>3, <2>4
  <1>8. SubSeq(rest, 1, p) \o <<f>> \o SubSeq(rest, p + 1, Len(rest))
            \in UpdateLeastConnectionCountTreeNode(f, count)
    BY <1>6, <1>7 DEF UpdateLeastConnectionCountTreeNode, n, rest
  <1> QED BY <1>8 DEF OrderAfterConnect, f

-----------------------------------------------------------------------------
(* Connecting to a forward server.                                         *)

\* The count of the servers with the forward connection of c added.
Added(count, c) ==
    IF c.flags = "none" THEN count ELSE [count EXCEPT ![c.server] = @ + 1]

\* d differs from c in the fields of the forward connection only.
SameClient(c, d) ==
    /\ d.mask = c.mask /\ d.ssl = c.ssl
    /\ d.http = c.http /\ d.extra = c.extra

\* Every outcome of ConnectForwardServer leaves the client's side alone, has
\* selected f, and is reported as a success only with a socket that is watched.
LEMMA ConnectOutcomes ==
    ASSUME NEW c \in ConnType, NEW f \in Server, NEW r \in ConnectForwardServer(c, f)
    PROVE  /\ r.c \in ConnType /\ SameClient(c, r.c)
           /\ r.c.flags # "none" => r.c.server = f
           /\ r.ok => r.c.flags # "none" /\ r.c.fmask # "none"
  <1> DEFINE tried == [c EXCEPT !.server = f, !.flags = "CONNECTING", !.fmask = "none"]
             done == [tried EXCEPT !.flags = "CONNECTED"]
             Good(ok, d) == /\ d \in ConnType /\ SameClient(c, d)
                            /\ d.flags # "none" => d.server = f
                            /\ ok => d.flags # "none" /\ d.fmask # "none"
  <1>1. /\ tried \in ConnType /\ SameClient(c, tried)
        /\ tried.server = f /\ tried.flags = "CONNECTING"
    <2>1. tried \in ConnType
      BY ONLY c \in ConnType, f \in Server, ZenonT(30) DEF ConnType
    <2>2. SameClient(c, tried) /\ tried.server = f /\ tried.flags = "CONNECTING"
      BY ONLY c \in ConnType DEF ConnType, SameClient
    <2> QED BY ONLY <2>1, <2>2
  <1> HIDE DEF tried
  <1>2. /\ done \in ConnType /\ SameClient(c, done)
        /\ done.server = f /\ done.flags = "CONNECTED"
    BY <1>1 DEF ConnType, SameClient
  <1> HIDE DEF done
  <1>3. Good(TRUE, [tried EXCEPT !.fmask = "OUT"])
    BY <1>1 DEF ConnType, SameClient
  <1>4. Good(TRUE, [done EXCEPT !.fmask = "OUT"])
    BY <1>2 DEF ConnType, SameClient
  <1>5. Good(FALSE, [done EXCEPT !.fssl = "handshake"])
    BY <1>2 DEF ConnType, SameClient
  <1>6. Good(FALSE, tried)
    BY <1>1
  <1>7. Good(FALSE, [c EXCEPT !.server = f, !.flags = "none"])
    BY DEF ConnType, SameClient
  <1>8. Good(FALSE, [c EXCEPT !.server = NoServer, !.flags = "none", !.fssl = "none"])
    BY DEF ConnType, SameClient
  <1> HIDE DEF Good
  <1>9. Good(r.ok, r.c)
    <2> DEFINE Rec(ok, d, t) == [ok |-> ok, c |-> d, tried |-> t]
    <2>1. \/ r = Rec(TRUE, [tried EXCEPT !.fmask = "OUT"], TRUE)
          \/ r = Rec(TRUE, [done EXCEPT !.fmask = "OUT"], TRUE)
          \/ r = Rec(FALSE, [done EXCEPT !.fssl = "handshake"], TRUE)
          \/ r = Rec(FALSE, tried, TRUE)
          \/ r = Rec(FALSE, [c EXCEPT !.server = f, !.flags = "none"], FALSE)
          \/ r = Rec(FALSE, [c EXCEPT !.server = NoServer, !.flags = "none",
                                      !.fssl = "none"], TRUE)
      BY Zenon DEF ConnectForwardServer, tried, done
    <2>2. \A ok, d, t : Rec(ok, d, t).ok = ok /\ Rec(ok, d, t).c = d
      OBVIOUS
    <2> HIDE DEF Rec
    <2>3. PICK ok, d, t : r = Rec(ok, d, t) /\ Good(ok, d)
      BY ONLY <2>1, <1>3, <1>4, <1>5, <1>6, <1>7, <1>8, Zenon
    <2>4. r.ok = ok /\ r.c = d
      BY ONLY <2>2, <2>3
    <2> QED BY ONLY <2>3, <2>4
  <1> QED BY <1>9 DEF Good

\* A client's connection with the tables of the servers as an attempt leaves
\* them: SelectForwardAddress may find none, and then nothing happens.
LEMMA ForwardOutcomes ==
    ASSUME server_order \in Order, NEW c \in ConnType, c.flags = "none",
           NEW count, NEW left, NEW r \in Forward(c, count, left)
    PROVE  /\ r.c \in ConnType /\ SameClient(c, r.c)
           /\ r.c.flags # "none" => r.c.server \in Server
           /\ r.ok => r.c.flags # "none" /\ r.c.fmask # "none"
           /\ r.order \in Order
           /\ r.count = Added(count, r.c)
  <1>1. CASE SelectForwardAddress(left) = {}
    <2>1. r = [ok |-> FALSE, c |-> c, order |-> server_order, count |-> count]
      BY <1>1 DEF Forward
    <2>2. r.ok = FALSE /\ r.c = c /\ r.order = server_order /\ r.count = count
      BY <2>1
    <2> QED BY <2>2 DEF SameClient, Added
  <1>2. ASSUME NEW f \in SelectForwardAddress(left), r \in Attempt(c, f, count)
        PROVE  /\ r.c \in ConnType /\ SameClient(c, r.c)
               /\ r.c.flags # "none" => r.c.server \in Server
               /\ r.ok => r.c.flags # "none" /\ r.c.fmask # "none"
               /\ r.order \in Order
               /\ r.count = Added(count, r.c)
    <2> DEFINE counted == [count EXCEPT ![f] = @ + 1]
    <2>1. PICK i \in 1 .. Len(server_order) : f = server_order[i] /\ f \in Server
      BY Selects
    <2>2. PICK q \in ConnectForwardServer(c, f) :
             \E order \in (IF q.tried THEN OrderAfterConnect(f, counted)
                                       ELSE {OrderAfterSelect(f)}) :
                r = [ok |-> q.ok, c |-> q.c, order |-> order,
                     count |-> IF q.c.flags = "none" THEN count ELSE counted]
      BY <1>2, Zenon DEF Attempt
    <2>3. /\ r.ok = q.ok /\ r.c = q.c
          /\ r.order \in (IF q.tried THEN OrderAfterConnect(f, counted)
                                     ELSE {OrderAfterSelect(f)})
          /\ r.count = IF q.c.flags = "none" THEN count ELSE counted
      BY <2>2
    <2>4. /\ q.c \in ConnType /\ SameClient(c, q.c)
          /\ q.c.flags # "none" => q.c.server = f
          /\ q.ok => q.c.flags # "none" /\ q.c.fmask # "none"
      BY <2>1, ConnectOutcomes
    <2>5. r.order \in Order
      <3>1. /\ OrderAfterSelect(f) \in Order
            /\ OrderAfterConnect(f, counted) \subseteq Order
        BY <2>1, OrderServers
      <3> HIDE DEF counted
      <3> QED BY <2>3, <3>1
    <2>6. r.count = Added(count, r.c)
      BY <2>3, <2>4 DEF Added
    <2> QED BY <2>1, <2>3, <2>4, <2>5, <2>6
  <1>3. SelectForwardAddress(left) # {} =>
           \E f \in SelectForwardAddress(left) : r \in Attempt(c, f, count)
    BY DEF Forward
  <1> QED BY <1>1, <1>2, <1>3

-----------------------------------------------------------------------------
(* What a handler leaves of its session.                                   *)

\* The session stays in use with the fields d, the counts of the servers
\* follow it, and the pool has at most its timestamps moved.
Goes(s, d) ==
    /\ d \in ConnType /\ Served(d, TRUE)
    /\ conn' = [conn EXCEPT ![s] = d]
    /\ heap' = heap /\ alive' \in BOOLEAN
    /\ connection_count' = Added(CountAfterClose(conn[s]), d)
    /\ server_order' \in Order
    /\ disabled_left' \in [Server -> 0 .. ForwardDisable + 1]
    /\ KeepPool \/ Refresh(s)

Handled(s) == Release(s) \/ \E d : Goes(s, d)

\* What the invariant says of one session in use.
LEMMA SessionFacts ==
    ASSUME WorkerInv, NEW s \in InUse
    PROVE  /\ s \in Session /\ conn \in [Session -> ConnType]
           /\ conn[s] \in ConnType /\ Served(conn[s], TRUE)
           /\ connection_count \in [Server -> Nat]
           /\ disabled_left \in [Server -> 0 .. ForwardDisable + 1]
           /\ server_order \in Order
           /\ alive \in BOOLEAN
  <1>1. s \in Session
    BY DEF WorkerInv, IInv, TypeOK
  <1>2. Served(conn[s], TRUE)
    <2>1. (s \in InUse) = TRUE
      OBVIOUS
    <2>2. Served(conn[s], s \in InUse)
      BY <1>1 DEF WorkerInv, EachServed
    <2> QED BY <2>2 DEF Served
  <1> QED BY <1>1, <1>2 DEF WorkerInv, WorkerTypeOK

\* A forward connection that is neither made nor ended is counted as it was.
LEMMA SameForward ==
    ASSUME WorkerInv, NEW s \in InUse, NEW d,
           IF conn[s].flags = "none" THEN d.flags = "none"
           ELSE d.flags # "none" /\ d.server = conn[s].server
    PROVE  connection_count = Added(CountAfterClose(conn[s]), d)
  <1>1. connection_count \in [Server -> Nat] /\ Served(conn[s], TRUE)
    BY SessionFacts
  <1>2. CASE conn[s].flags = "none"
    BY <1>2 DEF Added, CountAfterClose
  <1>3. CASE conn[s].flags # "none"
    <2> DEFINE f == conn[s].server
               less == [connection_count EXCEPT ![f] = @ - 1]
    <2>1. f \in Server /\ d.flags # "none" /\ d.server = f
      BY <1>1, <1>3 DEF Served
    <2> HIDE DEF f
    <2>2. CountAfterClose(conn[s]) = less
      BY <1>3 DEF CountAfterClose, f
    <2>3. /\ less \in [Server -> Int] /\ less[f] + 1 = connection_count[f]
          /\ \A g \in Server \ {f} : less[g] = connection_count[g]
      BY <1>1, <2>1
    <2> HIDE DEF less
    <2>4. [less EXCEPT ![f] = @ + 1] = connection_count
      BY <1>1, <2>1, <2>3
    <2> QED BY <2>1, <2>2, <2>4 DEF Added
  <1> QED BY <1>2, <1>3

\* A step that changes the session but not whether it is forwarded.
LEMMA GoesOn ==
    ASSUME WorkerInv, NEW s \in InUse, NEW d \in ConnType, Served(d, TRUE),
           IF conn[s].flags = "none" THEN d.flags = "none"
           ELSE d.flags # "none" /\ d.server = conn[s].server,
           Become(s, d), KeepServers, KeepPool \/ Refresh(s)
    PROVE  Handled(s)
  <1>1. Goes(s, d)
    BY SessionFacts, SameForward DEF Goes, Become, KeepServers, serverVars
  <1> QED BY <1>1 DEF Handled

\* A step that changes nothing but timestamps, or stops the worker.
LEMMA GoesOnAsIs ==
    ASSUME WorkerInv, NEW s \in InUse, UNCHANGED <<conn, heap>>, alive' \in BOOLEAN,
           KeepServers, KeepPool \/ Refresh(s)
    PROVE  Handled(s)
  <1>1. conn' = [conn EXCEPT ![s] = conn[s]]
    BY SessionFacts
  <1>2. Goes(s, conn[s])
    BY <1>1, SessionFacts, SameForward DEF Goes, KeepServers, serverVars
  <1> QED BY <1>2 DEF Handled

\* Restarting a timestamp of a session in use is a refresh.
LEMMA Restarts ==
    ASSUME NEW s \in InUse, RestartTimeout(s) \/ RestartBoth(s)
    PROVE  Refresh(s)
  BY DEF RestartTimeout, RestartBoth, Refresh, UpdateTimeout, UpdateElapse

\* The first response to a whole request, whether the attempt to forward it
\* went on, failed or was not made.
LEMMA Responds ==
    ASSUME NEW c \in ConnType, c.flags # "none" => c.server \in Server, c.ssl # "handshake"
    PROVE  /\ Respond(c) \in ConnType /\ Served(Respond(c), TRUE)
           /\ Respond(c).flags = c.flags /\ Respond(c).server = c.server
  <1> DEFINE d == Respond(c)
  <1>1. d \in ConnType
    BY ONLY c \in ConnType, ZenonT(30) DEF ConnType, Respond
  <1>2. /\ d.mask = "OUT" /\ d.http = "response" /\ d.ssl = c.ssl
        /\ d.flags = c.flags /\ d.server = c.server
    BY ONLY c \in ConnType DEF ConnType, Respond
  <1> HIDE DEF d
  <1>3. Served(d, TRUE)
    BY <1>2 DEF Served
  <1> QED BY <1>1, <1>2, <1>3 DEF d

\* The client waits, watched for hanging up, while its request is forwarded.
LEMMA Awaits ==
    ASSUME NEW c \in ConnType, c.flags # "none", c.server \in Server, c.ssl # "handshake",
           c.fmask # "none"
    PROVE  /\ AwaitForward(c) \in ConnType /\ Served(AwaitForward(c), TRUE)
           /\ AwaitForward(c).flags = c.flags /\ AwaitForward(c).server = c.server
  <1> DEFINE d == AwaitForward(c)
  <1>1. d \in ConnType
    BY ONLY c \in ConnType, ZenonT(30) DEF ConnType, AwaitForward
  <1>2. /\ d.mask = "RDHUP" /\ d.http = "request" /\ d.ssl = c.ssl
        /\ d.flags = c.flags /\ d.server = c.server /\ d.fmask = c.fmask
    BY ONLY c \in ConnType DEF ConnType, AwaitForward
  <1> HIDE DEF d
  <1>3. Served(d, TRUE)
    BY <1>2 DEF Served
  <1> QED BY <1>1, <1>2, <1>3 DEF d

-----------------------------------------------------------------------------
(* The handlers.                                                           *)

\* A client is accepted, waits on in its handshake, or is released.
LEMMA OnAcceptingSslSocketHandled ==
    ASSUME WorkerInv, NEW s \in InUse, conn[s].ssl = "handshake",
           OnAcceptingSslSocket(s)
    PROVE  Handled(s)
  <1> DEFINE c == conn[s]
             accepted == [c EXCEPT !.mask = "IN", !.ssl = "accepted"]
             Waiting(mask) == [c EXCEPT !.mask = mask]
  <1>1. c \in ConnType /\ Served(c, TRUE) /\ c.ssl = "handshake"
    BY SessionFacts
  <1> HIDE DEF c
  <1>2. /\ accepted \in ConnType /\ Served(accepted, TRUE)
        /\ accepted.flags = "none" /\ c.flags = "none"
    BY <1>1 DEF ConnType, Served
  <1>3. ASSUME NEW mask \in {"IN", "OUT"}
        PROVE  /\ Waiting(mask) \in ConnType /\ Served(Waiting(mask), TRUE)
               /\ Waiting(mask).flags = "none"
    BY <1>1 DEF ConnType, Served
  <1>4. \/ /\ Become(s, accepted) \/ \E mask \in {"IN", "OUT"} : Become(s, Waiting(mask))
           /\ KeepPool /\ KeepServers
        \/ Release(s)
    BY DEF OnAcceptingSslSocket, c
  <1> HIDE DEF accepted, Waiting
  <1> QED BY <1>2, <1>3, <1>4, GoesOn DEF Handled, c

\* The outcomes of a whole request.
LEMMA ProcessHttpRequestHandled ==
    ASSUME WorkerInv, NEW s \in InUse, conn[s].flags = "none",
           NEW c \in ConnType, c.ssl # "handshake", c.flags = "none",
           ProcessHttpRequest(s, c)
    PROVE  Handled(s)
  <1>1. ASSUME Become(s, Respond(c)), RestartBoth(s), KeepServers
        PROVE  Handled(s)
    <2>1. /\ Respond(c) \in ConnType /\ Served(Respond(c), TRUE)
          /\ Respond(c).flags = "none"
      BY Responds
    <2> QED BY <1>1, <2>1, Restarts, GoesOn
  <1>2. ASSUME NEW r \in Forward(c, connection_count, disabled_left),
               Become(s, IF r.ok THEN AwaitForward(r.c) ELSE Respond(r.c)),
               ServersBecome(r, disabled_left),
               RestartUnlessForwarding(s)
        PROVE  Handled(s)
    <2> DEFINE d == IF r.ok THEN AwaitForward(r.c) ELSE Respond(r.c)
    <2>1. /\ r.c \in ConnType /\ SameClient(c, r.c)
          /\ r.c.flags # "none" => r.c.server \in Server
          /\ r.ok => r.c.flags # "none" /\ r.c.fmask # "none"
          /\ r.order \in Order
          /\ r.count = Added(connection_count, r.c)
      BY SessionFacts, ForwardOutcomes
    <2>2. /\ d \in ConnType /\ Served(d, TRUE)
          /\ d.flags = r.c.flags /\ d.server = r.c.server
      BY <2>1, Responds, Awaits DEF SameClient
    <2>3. conn' = [conn EXCEPT ![s] = d] /\ heap' = heap /\ alive' = alive
      BY <1>2 DEF Become
    <2> HIDE DEF d
    <2>4. connection_count' = Added(CountAfterClose(conn[s]), d)
      BY <1>2, <2>1, <2>2 DEF ServersBecome, CountAfterClose, Added
    <2>5. KeepPool \/ Refresh(s)
      BY <1>2, Restarts DEF RestartUnlessForwarding
    <2>6. Goes(s, d)
      BY <1>2, <2>1, <2>2, <2>3, <2>4, <2>5, SessionFacts DEF Goes, ServersBecome
    <2> QED BY <2>6 DEF Handled
  <1>3. ASSUME StopWorker PROVE Handled(s)
    BY <1>3, GoesOnAsIs DEF StopWorker
  <1> QED BY <1>1, <1>2, <1>3 DEF ProcessHttpRequest

\* Input from a client: more to come, an end, or a request.
LEMMA OnReceivingSocketHandled ==
    ASSUME WorkerInv, NEW s \in InUse, Established(s), conn[s].flags = "none",
           OnReceivingSocket(s)
    PROVE  Handled(s)
  <1>1. ASSUME NotDone(s) PROVE Handled(s)
    BY <1>1, SessionFacts, Restarts, GoesOnAsIs DEF NotDone
  <1>2. ASSUME NEW extra \in {"none", "tail"},
               ProcessHttpRequest(s, [conn[s] EXCEPT !.extra = extra])
        PROVE  Handled(s)
    <2> DEFINE c == [conn[s] EXCEPT !.extra = extra]
    <2>1. c \in ConnType /\ c.ssl # "handshake" /\ c.flags = "none"
      <3>1. conn[s] \in ConnType /\ conn[s].ssl # "handshake"
        BY SessionFacts DEF Established
      <3>2. c \in ConnType /\ c.ssl = conn[s].ssl /\ c.flags = conn[s].flags
        BY ONLY <3>1, extra \in {"none", "tail"} DEF ConnType
      <3> QED BY ONLY <3>1, <3>2, conn[s].flags = "none"
    <2>2. ProcessHttpRequest(s, c)
      BY <1>2
    <2> HIDE DEF c
    <2> QED BY <2>1, <2>2, ProcessHttpRequestHandled
  <1> QED BY <1>1, <1>2 DEF OnReceivingSocket, Handled

\* Output to a client: the rest later, an end, or the next request.
LEMMA OnSendingSocketHandled ==
    ASSUME WorkerInv, NEW s \in InUse, Established(s), conn[s].flags = "none",
           OnSendingSocket(s)
    PROVE  Handled(s)
  <1>1. ASSUME NotDone(s) PROVE Handled(s)
    BY <1>1, SessionFacts, Restarts, GoesOnAsIs DEF NotDone
  <1>2. ASSUME Become(s, [conn[s] EXCEPT !.mask = "IN", !.http = "empty",
                                         !.extra = ResetHttpEnv(@)]),
               RestartBoth(s), KeepServers
        PROVE  Handled(s)
    <2> DEFINE c == conn[s]
               d == [c EXCEPT !.mask = "IN", !.http = "empty", !.extra = ResetHttpEnv(@)]
    <2>1. c \in ConnType /\ Served(c, TRUE) /\ c.flags = "none"
      BY SessionFacts
    <2> HIDE DEF c
    <2>2. d \in ConnType /\ Served(d, TRUE) /\ d.flags = "none"
      BY <2>1 DEF ConnType, Served, ResetHttpEnv
    <2>3. Become(s, d)
      BY <1>2 DEF c
    <2> HIDE DEF d
    <2> QED BY <1>2, <2>1, <2>2, <2>3, Restarts, GoesOn DEF c
  <1> QED BY <1>1, <1>2 DEF OnSendingSocket, Handled

\* A step of the TLS handshake with a forward server moves its socket's mask.
LEMMA ForwardHandshakes ==
    ASSUME NEW c \in ConnType, Served(c, TRUE), NEW d \in ForwardHandshake(c)
    PROVE  /\ d \in ConnType /\ Served(d, TRUE)
           /\ d.flags = c.flags /\ d.server = c.server
  <1> DEFINE Moved(mask, fssl) == [c EXCEPT !.fmask = mask, !.fssl = fssl]
  <1>1. PICK mask \in {"IN", "OUT"}, fssl \in {"connected", "handshake"} :
           d = Moved(mask, fssl)
    BY DEF ForwardHandshake
  <1>2. /\ Moved(mask, fssl) \in ConnType /\ Served(Moved(mask, fssl), TRUE)
        /\ Moved(mask, fssl).flags = c.flags /\ Moved(mask, fssl).server = c.server
    <2> DEFINE m == Moved(mask, fssl)
    <2>1. m \in ConnType
      BY ONLY c \in ConnType, mask \in {"IN", "OUT"},
         fssl \in {"connected", "handshake"}, ZenonT(30) DEF ConnType
    <2>2. /\ m.mask = c.mask /\ m.http = c.http /\ m.ssl = c.ssl
          /\ m.flags = c.flags /\ m.server = c.server /\ m.fmask = mask
      BY ONLY c \in ConnType DEF ConnType
    <2> HIDE DEF m
    <2>3. Served(m, TRUE)
      BY <2>2 DEF Served
    <2> QED BY <2>1, <2>2, <2>3 DEF m
  <1> HIDE DEF Moved
  <1> QED BY ONLY <1>1, <1>2

\* The handshake with a forward server goes on or the session is released.
LEMMA OnConnectingSslForwardHandled ==
    ASSUME WorkerInv, NEW s \in InUse, OnConnectingSslForward(s)
    PROVE  Handled(s)
  <1>1. ASSUME NEW c \in ForwardHandshake(conn[s]), Become(s, c), KeepPool, KeepServers
        PROVE  Handled(s)
    <2>1. /\ c \in ConnType /\ Served(c, TRUE)
          /\ c.flags = conn[s].flags /\ c.server = conn[s].server
      BY SessionFacts, ForwardHandshakes
    <2> QED BY <1>1, <2>1, GoesOn
  <1> QED BY <1>1 DEF OnConnectingSslForward, Handled

\* A server is left alone for a time within the bound.
LEMMA DisableTypes ==
    ASSUME NEW wait \in [Server -> 0 .. ForwardDisable + 1], NEW f
    PROVE  Disable(wait, f) \in [Server -> 0 .. ForwardDisable + 1]
  <1>1. ForwardDisable + 1 \in 0 .. ForwardDisable + 1
    BY ForwardAssumption
  <1> QED BY <1>1 DEF Disable

\* A server that could not be connected to is left for another one, or the
\* client is told.
LEMMA ConnectFailedHandled ==
    ASSUME WorkerInv, NEW s \in InUse, conn[s].flags # "none", ConnectFailed(s)
    PROVE  Handled(s)
  <1> DEFINE c == conn[s]
             closed == [c EXCEPT !.flags = "none", !.fmask = "none"]
             left == Disable(disabled_left, c.server)
  <1>1. /\ c \in ConnType /\ Served(c, TRUE) /\ c.flags # "none"
        /\ server_order \in Order
        /\ disabled_left \in [Server -> 0 .. ForwardDisable + 1]
    BY SessionFacts
  <1>2. PICK r \in Forward(closed, CountAfterClose(c), left) :
           /\ Become(s, IF r.ok THEN r.c ELSE Respond(r.c))
           /\ ServersBecome(r, left)
           /\ KeepPool
    BY DEF ConnectFailed
  <1> HIDE DEF c
  <1>3. /\ closed \in ConnType /\ closed.flags = "none" /\ SameClient(c, closed)
    <2>1. closed \in ConnType
      BY ONLY <1>1, ZenonT(30) DEF ConnType
    <2>2. closed.flags = "none" /\ SameClient(c, closed)
      BY ONLY <1>1 DEF ConnType, SameClient
    <2> QED BY ONLY <2>1, <2>2
  <1>4. left \in [Server -> 0 .. ForwardDisable + 1]
    BY <1>1, DisableTypes
  <1> HIDE DEF closed, left
  <1>5. /\ r.c \in ConnType /\ SameClient(c, r.c)
        /\ r.c.flags # "none" => r.c.server \in Server
        /\ r.ok => r.c.flags # "none" /\ r.c.fmask # "none"
        /\ r.order \in Order
        /\ r.count = Added(CountAfterClose(c), r.c)
    BY <1>1, <1>3, ForwardOutcomes DEF SameClient
  <1>6. c.ssl # "handshake" /\ c.mask # "IN" /\ c.mask # "none"
    BY <1>1 DEF Served
  <1> DEFINE d == IF r.ok THEN r.c ELSE Respond(r.c)
  <1>7. /\ d \in ConnType /\ Served(d, TRUE)
        /\ d.flags = r.c.flags /\ d.server = r.c.server
    <2>1. ASSUME r.ok PROVE Served(r.c, TRUE)
      BY <1>1, <1>5, <1>6, <2>1 DEF Served, SameClient
    <2>2. /\ Respond(r.c) \in ConnType /\ Served(Respond(r.c), TRUE)
          /\ Respond(r.c).flags = r.c.flags /\ Respond(r.c).server = r.c.server
      BY <1>5, <1>6, Responds DEF SameClient
    <2> QED BY <1>5, <2>1, <2>2
  <1>8. conn' = [conn EXCEPT ![s] = d] /\ heap' = heap /\ alive' = alive
    BY <1>2 DEF Become
  <1> HIDE DEF d
  <1>9. connection_count' = Added(CountAfterClose(conn[s]), d)
    BY <1>2, <1>5, <1>7 DEF ServersBecome, Added, c
  <1>10. Goes(s, d)
    BY <1>2, <1>4, <1>5, <1>7, <1>8, <1>9, SessionFacts DEF Goes, ServersBecome
  <1> QED BY <1>10 DEF Handled

\* The forward connection is there, or goes on to its own handshake.
LEMMA ConnectedHandled ==
    ASSUME WorkerInv, NEW s \in InUse, conn[s].flags # "none",
           ConnectedSsl(s) \/ Connected(s)
    PROVE  Handled(s)
  <1> DEFINE c == conn[s]
             begun == [c EXCEPT !.flags = "CONNECTED", !.fssl = "handshake"]
             done == [c EXCEPT !.flags = "CONNECTED", !.fmask = "OUT"]
  <1>1. /\ c \in ConnType /\ Served(c, TRUE) /\ c.flags # "none"
    BY SessionFacts
  <1>2. ASSUME ConnectedSsl(s)
        PROVE  /\ \E d \in ForwardHandshake(begun) \cup {begun} : Become(s, d)
               /\ KeepPool /\ KeepServers
    BY <1>2 DEF ConnectedSsl
  <1>3. ASSUME Connected(s)
        PROVE  StopWorker \/ (Become(s, done) /\ KeepPool /\ KeepServers)
    BY <1>3 DEF Connected
  <1> HIDE DEF c
  <1>4. /\ begun \in ConnType /\ Served(begun, TRUE)
        /\ begun.flags = "CONNECTED" /\ begun.server = c.server
    BY <1>1 DEF ConnType, Served
  <1>5. /\ done \in ConnType /\ Served(done, TRUE)
        /\ done.flags = "CONNECTED" /\ done.server = c.server
    BY <1>1 DEF ConnType, Served
  <1> HIDE DEF begun, done
  <1>6. ASSUME NEW d \in ForwardHandshake(begun) \cup {begun}, Become(s, d),
               KeepPool, KeepServers
        PROVE  Handled(s)
    <2>1. /\ d \in ConnType /\ Served(d, TRUE)
          /\ d.flags = "CONNECTED" /\ d.server = c.server
      BY <1>4, ForwardHandshakes
    <2> QED BY <1>1, <1>6, <2>1, GoesOn DEF c
  <1>7. ASSUME Become(s, done), KeepPool, KeepServers PROVE Handled(s)
    BY <1>1, <1>5, <1>7, GoesOn DEF c
  <1>8. ASSUME StopWorker PROVE Handled(s)
    BY <1>8, GoesOnAsIs DEF StopWorker
  <1> QED BY <1>2, <1>3, <1>6, <1>7, <1>8

\* The result of connect() for a forward connection, whatever it is.
LEMMA OnConnectingForwardHandled ==
    ASSUME WorkerInv, NEW s \in InUse, conn[s].flags # "none",
           OnConnectingForward(s)
    PROVE  Handled(s)
  BY ConnectFailedHandled, ConnectedHandled DEF OnConnectingForward

\* Nothing has happened to the session.
LEMMA UnfinishedHandled ==
    ASSUME WorkerInv, NEW s \in InUse, Unfinished
    PROVE  Handled(s)
  BY SessionFacts, GoesOnAsIs DEF Unfinished, connVars, KeepServers, KeepPool

\* Output to a forward server.
LEMMA OnSendingForwardHandled ==
    ASSUME WorkerInv, NEW s \in InUse, conn[s].flags # "none", OnSendingForward(s)
    PROVE  Handled(s)
  <1> DEFINE c == conn[s]
             sent == [c EXCEPT !.fmask = "IN"]
  <1>1. /\ c \in ConnType /\ Served(c, TRUE) /\ c.flags # "none"
    BY SessionFacts
  <1>2. \/ Unfinished \/ Release(s)
        \/ Become(s, sent) /\ KeepPool /\ KeepServers
    BY DEF OnSendingForward
  <1> HIDE DEF c
  <1>3. /\ sent \in ConnType /\ Served(sent, TRUE)
        /\ sent.flags = c.flags /\ sent.server = c.server
    BY <1>1 DEF ConnType, Served
  <1> HIDE DEF sent
  <1>4. ASSUME Become(s, sent), KeepPool, KeepServers PROVE Handled(s)
    BY <1>1, <1>3, <1>4, GoesOn DEF c
  <1> QED BY <1>2, <1>4, UnfinishedHandled DEF Handled

\* Input from a forward server: more to come, an end, a response that does not
\* parse, or a whole one, which is sent to the client.
LEMMA OnReceivingForwardHandled ==
    ASSUME WorkerInv, NEW s \in InUse, conn[s].flags # "none", OnReceivingForward(s)
    PROVE  Handled(s)
  <1> DEFINE c == conn[s]
             broken == [c EXCEPT !.http = "response"]
             closed == [c EXCEPT !.flags = "none", !.fmask = "none"]
             whole == Respond(closed)
  <1>1. /\ c \in ConnType /\ Served(c, TRUE) /\ c.flags # "none"
    BY SessionFacts
  <1>2. \/ Unfinished \/ Release(s)
        \/ Become(s, broken) /\ KeepPool /\ KeepServers
        \/ /\ connection_count' = CountAfterClose(conn[s])
           /\ Become(s, whole) /\ KeepPool
           /\ UNCHANGED <<disabled_left, server_order>>
    BY DEF OnReceivingForward
  <1> HIDE DEF c
  <1>3. c.ssl # "handshake" /\ c.mask # "IN" /\ c.mask # "none"
    BY <1>1 DEF Served
  <1>4. /\ broken \in ConnType /\ Served(broken, TRUE)
        /\ broken.flags = c.flags /\ broken.server = c.server
    BY <1>1, <1>3 DEF ConnType, Served
  <1>5. closed \in ConnType /\ closed.flags = "none" /\ closed.ssl = c.ssl
    <2>1. closed \in ConnType
      BY ONLY <1>1, ZenonT(30) DEF ConnType
    <2>2. closed.flags = "none" /\ closed.ssl = c.ssl
      BY ONLY <1>1 DEF ConnType
    <2> QED BY ONLY <2>1, <2>2
  <1> HIDE DEF broken, closed
  <1>6. whole \in ConnType /\ Served(whole, TRUE) /\ whole.flags = "none"
    BY <1>3, <1>5, Responds
  <1> HIDE DEF whole
  <1>7. ASSUME Become(s, broken), KeepPool, KeepServers PROVE Handled(s)
    BY <1>1, <1>4, <1>7, GoesOn DEF c
  <1>8. ASSUME connection_count' = CountAfterClose(conn[s]), Become(s, whole),
               KeepPool, UNCHANGED <<disabled_left, server_order>>
        PROVE  Handled(s)
    <2>1. connection_count' = Added(CountAfterClose(conn[s]), whole)
      BY <1>6, <1>8 DEF Added
    <2>2. Goes(s, whole)
      BY <1>6, <1>8, <2>1, SessionFacts DEF Goes, Become
    <2> QED BY <2>2 DEF Handled
  <1> QED BY <1>2, <1>7, <1>8, UnfinishedHandled DEF Handled

-----------------------------------------------------------------------------
(* The dispatch.                                                           *)

\* Whichever handler an event is dispatched to, the session is released or
\* goes on as its client and its forward server need it.
LEMMA HandleHandled ==
    ASSUME WorkerInv, NEW s \in InUse, NEW flag, Handle(s, flag)
    PROVE  Handled(s)
  <1>1. ASSUME DuringHandshake(s) PROVE Handled(s)
    BY <1>1, OnAcceptingSslSocketHandled, OnConnectingSslForwardHandled
       DEF DuringHandshake
  <1>2. ASSUME OnIn(s) PROVE Handled(s)
    BY <1>1, <1>2, OnReceivingSocketHandled, OnReceivingForwardHandled DEF OnIn
  <1>3. ASSUME OnOut(s) PROVE Handled(s)
    BY <1>1, <1>3, OnSendingSocketHandled, OnSendingForwardHandled,
       OnConnectingForwardHandled DEF OnOut
  <1>4. ASSUME OnRdhup(s) PROVE Handled(s)
    BY <1>4, UnfinishedHandled DEF OnRdhup, Handled
  <1>5. ASSUME OnErr(s) PROVE Handled(s)
    BY <1>5, UnfinishedHandled, OnConnectingForwardHandled DEF OnErr, Handled
  <1> QED BY <1>2, <1>3, <1>4, <1>5 DEF Handle

-----------------------------------------------------------------------------
(* What the parts of a step leave of the invariant.  The variables of the  *)
(* loop are the concern of the actions below.                              *)

\* The parts of the type invariant.
ConnTypes ==
    /\ connection_count \in [Server -> Nat]
    /\ disabled_left \in [Server -> 0 .. ForwardDisable + 1]
    /\ server_order \in Order
    /\ conn \in [Session -> ConnType]
    /\ heap \in {"intact", "corrupt"}
    /\ alive \in BOOLEAN

LoopTypes ==
    /\ pc \in {"epoll_wait", "sweep_timeout", "sweep_elapse", "dispatch",
               "accept", "handshake", "returned"}
    /\ batch \in Seq(Event)
    /\ nfds \in 0 .. MaxEvents
    /\ index \in Nat
    /\ accepts \in 0 .. MaxAccepts
    /\ current \in Session \cup {NoSession}
    /\ g_worker_exit_flag \in BOOLEAN
    /\ g_second_elapse \in BOOLEAN
    /\ timer \in {"sleep", "update"}

SessionsInv == IInv /\ ConnTypes /\ EachServed /\ Counted

LoopInv == LoopTypes /\ Handshaking /\ Exiting /\ Accepting

\* The invariant is the two halves, before a step and after it.
LEMMA TwoHalves == SessionsInv /\ LoopInv => WorkerInv
  BY DEF WorkerInv, WorkerTypeOK, Order, SessionsInv, ConnTypes, LoopInv, LoopTypes,
         IInv

\* The same of the next state.
LEMMA TwoHalvesNext == SessionsInv' /\ LoopInv' => WorkerInv'
  BY DEF WorkerInv, WorkerTypeOK, Order, SessionsInv, ConnTypes, LoopInv, LoopTypes,
         IInv

\* The set of sessions forwarded to a server is finite.
LEMMA ForwardedFinite ==
    ASSUME NEW f
    PROVE  IsFiniteSet(ForwardedTo(f)) /\ Cardinality(ForwardedTo(f)) \in Nat
  <1>1. IsFiniteSet(Session)
    BY PoolAssumption, FS_Interval DEF Session
  <1>2. ForwardedTo(f) \subseteq Session
    BY DEF ForwardedTo
  <1> QED BY ONLY <1>1, <1>2, FS_Subset, FS_CardinalityType

\* The counts follow a session's forward connection from one server to another.
LEMMA CountFollows ==
    ASSUME conn \in [Session -> ConnType], connection_count \in [Server -> Nat],
           Counted, NEW s \in Session, NEW d \in ConnType,
           conn[s].flags # "none" => conn[s].server \in Server,
           d.flags # "none" => d.server \in Server,
           conn' = [conn EXCEPT ![s] = d],
           connection_count' = Added(CountAfterClose(conn[s]), d)
    PROVE  Counted' /\ connection_count' \in [Server -> Nat]
  <1> DEFINE c == conn[s]
             less == CountAfterClose(c)
             Closed(f) == ForwardedTo(f) \ {s}
  <1>1. conn' \in [Session -> ConnType] /\ conn'[s] = d
        /\ \A t \in Session \ {s} : conn'[t] = conn[t]
    OBVIOUS
  <1>2. ASSUME NEW f \in Server
        PROVE  less[f] \in Nat /\ less[f] = Cardinality(Closed(f))
    <2>1. connection_count[f] = Cardinality(ForwardedTo(f))
      BY DEF Counted
    <2>2. CASE c.flags # "none" /\ c.server = f
      <3>1. s \in ForwardedTo(f)
        BY <2>2 DEF ForwardedTo
      <3>2. /\ Cardinality(Closed(f)) = Cardinality(ForwardedTo(f)) - 1
            /\ Cardinality(Closed(f)) \in Nat
        BY ONLY <3>1, ForwardedFinite, FS_RemoveElement, FS_CardinalityType
      <3>3. less[f] = connection_count[f] - 1
        BY <2>2 DEF CountAfterClose
      <3> QED BY <2>1, <3>2, <3>3
    <2>3. CASE ~(c.flags # "none" /\ c.server = f)
      <3>1. Closed(f) = ForwardedTo(f)
        BY <2>3 DEF ForwardedTo
      <3>2. less[f] = connection_count[f]
        BY <2>3 DEF CountAfterClose
      <3> QED BY <2>1, <3>1, <3>2, ForwardedFinite
    <2> QED BY <2>2, <2>3
  <1>3. less \in [Server -> Nat]
    <2>1. DOMAIN less = Server /\ less = [f \in Server |-> less[f]]
      BY DEF CountAfterClose
    <2> HIDE DEF less
    <2> QED BY <1>2, <2>1
  <1> HIDE DEF less
  <1>4. ASSUME NEW f \in Server
        PROVE  /\ connection_count'[f] \in Nat
               /\ connection_count'[f] = Cardinality(ForwardedTo(f)')
    <2>1. connection_count' = Added(less, d)
      BY DEF less
    <2>2. less[f] \in Nat /\ less[f] = Cardinality(Closed(f)) /\ IsFiniteSet(Closed(f))
      BY <1>2, ForwardedFinite, FS_Subset
    <2>3. CASE d.flags # "none" /\ d.server = f
      <3>1. ForwardedTo(f)' = Closed(f) \cup {s}
        BY <1>1, <2>3 DEF ForwardedTo
      <3>2. s \notin Closed(f)
        OBVIOUS
      <3>3. Cardinality(Closed(f) \cup {s}) = Cardinality(Closed(f)) + 1
        <4> HIDE DEF Closed
        <4> QED BY ONLY <2>2, <3>2, FS_AddElement
      <3>4. connection_count'[f] = less[f] + 1
        BY <1>3, <2>1, <2>3 DEF Added
      <3> QED BY <2>2, <3>1, <3>3, <3>4
    <2>4. CASE ~(d.flags # "none" /\ d.server = f)
      <3>1. ForwardedTo(f)' = Closed(f)
        BY <1>1, <2>4 DEF ForwardedTo
      <3>2. connection_count'[f] = less[f]
        BY <1>3, <2>1, <2>4 DEF Added
      <3> QED BY <2>2, <3>1, <3>2
    <2> QED BY <2>3, <2>4
  <1>5. DOMAIN connection_count' = Server
        /\ connection_count' = [f \in Server |-> connection_count'[f]]
    BY <1>3 DEF Added, less
  <1>6. connection_count' \in [Server -> Nat]
    BY <1>4, <1>5
  <1>7. Counted'
    BY <1>4 DEF Counted
  <1> QED BY <1>6, <1>7

\* A refresh moves timestamps, not sessions.
LEMMA RefreshKeepsInUse ==
    ASSUME NEW s, KeepPool \/ Refresh(s)
    PROVE  InUse' = InUse
  <1>1. CASE KeepPool
    BY <1>1 DEF KeepPool, poolVars, treeVars, InUse
  <1>2. CASE Refresh(s)
    BY <1>2 DEF Refresh, UpdateTimeout, AddNode, RemoveNode, InUse
  <1> QED BY <1>1, <1>2

\* Whether a session is served does not depend on how its use is written.
LEMMA ServedNext ==
    ASSUME conn' \in [Session -> ConnType],
           \A s \in Session : /\ s \in InUse' => Served(conn'[s], TRUE)
                              /\ s \notin InUse' => Served(conn'[s], FALSE)
    PROVE  EachServed'
  <1> SUFFICES ASSUME NEW s \in Session
               PROVE  Served(conn'[s], s \in InUse')
    BY DEF EachServed, Served
  <1>1. CASE s \in InUse'
    BY <1>1 DEF Served
  <1>2. CASE s \notin InUse'
    BY <1>2 DEF Served
  <1> QED BY <1>1, <1>2

\* The same of the present state.
LEMMA ServedNow ==
    ASSUME EachServed, NEW s \in Session
    PROVE  /\ s \in InUse => Served(conn[s], TRUE)
           /\ s \notin InUse => Served(conn[s], FALSE)
  <1>1. Served(conn[s], s \in InUse)
    BY DEF EachServed
  <1> QED BY <1>1 DEF Served

\* A session that stays in use.
LEMMA GoesKeeps ==
    ASSUME WorkerInv, NEW s \in InUse, NEW d, Goes(s, d)
    PROVE  SessionsInv' /\ [PoolNext]_poolVars /\ InUse' = InUse
  <1>1. /\ s \in Session /\ conn \in [Session -> ConnType]
        /\ Served(conn[s], TRUE) /\ connection_count \in [Server -> Nat]
    BY SessionFacts
  <1>2. /\ d \in ConnType /\ Served(d, TRUE)
        /\ conn' = [conn EXCEPT ![s] = d]
        /\ heap' = heap /\ alive' \in BOOLEAN
        /\ connection_count' = Added(CountAfterClose(conn[s]), d)
        /\ server_order' \in Order
        /\ disabled_left' \in [Server -> 0 .. ForwardDisable + 1]
        /\ KeepPool \/ Refresh(s)
    BY DEF Goes
  <1>3. [PoolNext]_poolVars
    BY <1>1, <1>2 DEF KeepPool, PoolNext
  <1>4. IInv' /\ InUse' = InUse
    BY <1>2, <1>3, NextIInv, RefreshKeepsInUse DEF WorkerInv
  <1>5. Counted' /\ connection_count' \in [Server -> Nat]
    BY <1>1, <1>2, CountFollows DEF WorkerInv, Served
  <1>6. conn' \in [Session -> ConnType]
    BY <1>1, <1>2
  <1>7. EachServed'
    <2>1. \A t \in Session : /\ t \in InUse' => Served(conn'[t], TRUE)
                             /\ t \notin InUse' => Served(conn'[t], FALSE)
      <3> SUFFICES ASSUME NEW t \in Session
                   PROVE  /\ t \in InUse => Served(conn'[t], TRUE)
                          /\ t \notin InUse => Served(conn'[t], FALSE)
        BY <1>4
      <3>1. conn'[t] = IF t = s THEN d ELSE conn[t]
        BY <1>1, <1>2
      <3> QED BY <1>2, <3>1, ServedNow DEF WorkerInv
    <2> QED BY <1>6, <2>1, ServedNext
  <1>8. ConnTypes'
    BY <1>2, <1>5, <1>6 DEF ConnTypes, WorkerInv, WorkerTypeOK
  <1> QED BY <1>3, <1>4, <1>5, <1>7, <1>8 DEF SessionsInv

\* A session that is released.
LEMMA ReleaseKeeps ==
    ASSUME WorkerInv, NEW s \in InUse, Release(s)
    PROVE  SessionsInv' /\ [PoolNext]_poolVars /\ InUse' = InUse \ {s}
  <1> DEFINE d == [Unopened EXCEPT !.extra = ResetHttpEnv(conn[s].extra)]
  <1>1. /\ s \in Session /\ conn \in [Session -> ConnType]
        /\ Served(conn[s], TRUE) /\ connection_count \in [Server -> Nat]
    BY SessionFacts
  <1>2. /\ SetHttpSessionUnused(s)
        /\ connection_count' = CountAfterClose(conn[s])
        /\ conn' = [conn EXCEPT ![s] = d]
        /\ heap' = heap /\ alive' = alive
        /\ disabled_left' = disabled_left /\ server_order' = server_order
    BY DEF Release, Become
  <1>3. d \in ConnType /\ Served(d, FALSE) /\ d.flags = "none"
    BY DEF ConnType, Unopened, ResetHttpEnv, Served
  <1> HIDE DEF d
  <1>4. Close(s)
    BY <1>2 DEF Close
  <1>5. [PoolNext]_poolVars
    BY <1>1, <1>4 DEF PoolNext
  <1>6. IInv'
    BY <1>5, NextIInv DEF WorkerInv
  <1>7. InUse' = InUse \ {s}
    BY <1>2 DEF SetHttpSessionUnused, RemoveNode, InUse
  <1>8. connection_count' = Added(CountAfterClose(conn[s]), d)
    BY <1>2, <1>3 DEF Added
  <1>9. Counted' /\ connection_count' \in [Server -> Nat]
    BY <1>1, <1>2, <1>3, <1>8, CountFollows DEF WorkerInv, Served
  <1>10. conn' \in [Session -> ConnType]
    BY <1>1, <1>2, <1>3
  <1>11. EachServed'
    <2>1. \A t \in Session : /\ t \in InUse' => Served(conn'[t], TRUE)
                             /\ t \notin InUse' => Served(conn'[t], FALSE)
      <3> SUFFICES ASSUME NEW t \in Session
                   PROVE  /\ t \in InUse \ {s} => Served(conn'[t], TRUE)
                          /\ t \notin InUse \ {s} => Served(conn'[t], FALSE)
        BY <1>7
      <3>1. conn'[t] = IF t = s THEN d ELSE conn[t]
        BY <1>1, <1>2
      <3> QED BY <1>3, <3>1, ServedNow DEF WorkerInv
    <2> QED BY <1>10, <2>1, ServedNext
  <1>12. ConnTypes'
    BY <1>2, <1>9, <1>10 DEF ConnTypes, WorkerInv, WorkerTypeOK
  <1> QED BY <1>5, <1>6, <1>7, <1>9, <1>11, <1>12 DEF SessionsInv

\* A handler.
LEMMA HandledKeeps ==
    ASSUME WorkerInv, NEW s \in InUse, Handled(s)
    PROVE  SessionsInv' /\ [PoolNext]_poolVars /\ InUse' \subseteq InUse
  BY GoesKeeps, ReleaseKeeps DEF Handled

\* A step that leaves the connections and the servers as they are, whatever it
\* says of the heap and of the worker itself.
LEMMA SessionsKept ==
    ASSUME WorkerInv, UNCHANGED <<conn, serverVars>>,
           heap' \in {"intact", "corrupt"}, alive' \in BOOLEAN,
           [PoolNext]_poolVars, InUse' = InUse
    PROVE  SessionsInv'
  <1>1. IInv'
    BY NextIInv DEF WorkerInv
  <1>2. conn' = conn /\ UNCHANGED <<connection_count, disabled_left, server_order>>
    BY DEF serverVars
  <1>3. ConnTypes'
    BY <1>2 DEF ConnTypes, WorkerInv, WorkerTypeOK
  <1>4. EachServed'
    <2>1. conn' \in [Session -> ConnType]
      BY <1>3 DEF ConnTypes
    <2>2. \A t \in Session : /\ t \in InUse' => Served(conn'[t], TRUE)
                             /\ t \notin InUse' => Served(conn'[t], FALSE)
      BY <1>2, ServedNow DEF WorkerInv
    <2> QED BY <2>1, <2>2, ServedNext
  <1>5. Counted'
    BY <1>2 DEF Counted, ForwardedTo, WorkerInv
  <1> QED BY <1>1, <1>3, <1>4, <1>5 DEF SessionsInv

\* Steps of the loop alone keep what is said of the sessions.
LEMMA KeepSessionsKeeps ==
    ASSUME WorkerInv, KeepSessions
    PROVE  SessionsInv' /\ UNCHANGED poolVars /\ InUse' = InUse
  <1>1. UNCHANGED <<conn, serverVars, poolVars, heap, alive>>
    BY DEF KeepSessions, connVars
  <1>2. InUse' = InUse
    BY <1>1 DEF poolVars, treeVars, InUse
  <1>3. heap \in {"intact", "corrupt"} /\ alive \in BOOLEAN
    BY DEF WorkerInv, WorkerTypeOK
  <1> QED BY <1>1, <1>2, <1>3, SessionsKept

\* So do the end of the worker and a second release, which ends the model.
LEMMA StopOrCorruptKeeps ==
    ASSUME WorkerInv, StopWorker \/ CorruptHeap
    PROVE  SessionsInv' /\ UNCHANGED poolVars /\ InUse' = InUse
  <1>1. UNCHANGED <<conn, serverVars, poolVars>>
    BY DEF StopWorker, CorruptHeap, KeepPool, KeepServers
  <1>2. InUse' = InUse
    BY <1>1 DEF poolVars, treeVars, InUse
  <1>3. heap' \in {"intact", "corrupt"} /\ alive' \in BOOLEAN
    BY DEF WorkerInv, WorkerTypeOK, StopWorker, CorruptHeap
  <1> QED BY <1>1, <1>2, <1>3, SessionsKept

\* A second passes for the sessions and for the servers left alone.
LEMMA TimerUpdatesKeeps ==
    ASSUME WorkerInv, TimerUpdates
    PROVE  SessionsInv' /\ [PoolNext]_poolVars /\ InUse' = InUse /\ conn' = conn
  <1>1. /\ Second /\ ServersTick
        /\ UNCHANGED <<conn, heap, alive, connection_count, server_order>>
    BY DEF TimerUpdates, connVars
  <1>2. [PoolNext]_poolVars
    BY <1>1 DEF PoolNext
  <1>3. InUse' = InUse
    BY <1>1 DEF Second, Tick, InUse
  <1>4. IInv'
    BY <1>2, NextIInv DEF WorkerInv
  <1>5. disabled_left' \in [Server -> 0 .. ForwardDisable + 1]
    <2>1. disabled_left \in [Server -> 0 .. ForwardDisable + 1]
      BY DEF WorkerInv, WorkerTypeOK
    <2> QED BY <1>1, <2>1, ForwardAssumption DEF ServersTick
  <1>6. ConnTypes'
    BY <1>1, <1>5 DEF ConnTypes, WorkerInv, WorkerTypeOK
  <1>7. EachServed'
    <2>1. conn' \in [Session -> ConnType]
      BY <1>6 DEF ConnTypes
    <2>2. \A t \in Session : /\ t \in InUse' => Served(conn'[t], TRUE)
                             /\ t \notin InUse' => Served(conn'[t], FALSE)
      BY <1>1, <1>3, ServedNow DEF WorkerInv
    <2> QED BY <2>1, <2>2, ServedNext
  <1>8. Counted'
    BY <1>1 DEF Counted, ForwardedTo, WorkerInv
  <1> QED BY <1>1, <1>2, <1>3, <1>4, <1>6, <1>7, <1>8 DEF SessionsInv

\* Fetching puts one session into use.
LEMMA FetchTakesOne ==
    ASSUME NEW ip, FetchHttpSessionUnused(ip)
    PROVE  \E h : InUse' = InUse \cup {h}
  <1>1. ASSUME NEW list, NEW unused, Take(ip, list, unused)
        PROVE  InUse' = InUse \cup {Head(list)}
    BY <1>1 DEF Take, AddNode, InUse
  <1> QED BY <1>1 DEF FetchHttpSessionUnused, FetchFromList, FetchAfterIncrease

\* An accepted connection has a session of its own, which nothing was left in.
LEMMA AcceptedKeeps ==
    ASSUME WorkerInv, NEW ip \in Ip, NEW withSsl \in BOOLEAN, Accepted(ip, withSsl)
    PROVE  /\ SessionsInv' /\ [PoolNext]_poolVars
           /\ \A s \in InUse' \ InUse :
                 s \in Session /\ (withSsl => conn'[s].ssl = "handshake")
  <1>1. /\ FetchHttpSessionUnused(ip)
        /\ KeepServers
    BY DEF Accepted
  <1>2. [PoolNext]_poolVars
    BY <1>1 DEF PoolNext
  <1>3. IInv'
    BY <1>2, NextIInv DEF WorkerInv
  <1>4. InUse' \subseteq Session
    BY <1>3 DEF IInv, TypeOK, Session
  <1>5. PICK s \in InUse' \ InUse :
           Become(s, [conn[s] EXCEPT !.mask = "IN",
                                     !.ssl = IF withSsl THEN "handshake" ELSE "none"])
    BY DEF Accepted, InUse
  <1>6. s \in Session /\ InUse' = InUse \cup {s}
    BY <1>1, <1>4, <1>5, FetchTakesOne
  <1> DEFINE c == conn[s]
             d == [c EXCEPT !.mask = "IN",
                            !.ssl = IF withSsl THEN "handshake" ELSE "none"]
  <1>7. /\ c \in ConnType /\ Served(c, FALSE)
        /\ conn \in [Session -> ConnType] /\ connection_count \in [Server -> Nat]
    BY <1>5, <1>6, ServedNow DEF WorkerInv, WorkerTypeOK
  <1>8. conn' = [conn EXCEPT ![s] = d] /\ heap' = heap /\ alive' = alive
    BY <1>5 DEF Become
  <1> HIDE DEF c
  <1>9. /\ d \in ConnType /\ Served(d, TRUE) /\ d.flags = "none" /\ c.flags = "none"
        /\ withSsl => d.ssl = "handshake"
    BY <1>7 DEF ConnType, Served
  <1> HIDE DEF d
  <1>10. /\ conn' \in [Session -> ConnType]
         /\ \A t \in Session : conn'[t] = IF t = s THEN d ELSE conn[t]
    BY <1>6, <1>7, <1>8, <1>9
  <1>11. UNCHANGED <<connection_count, disabled_left, server_order>>
    BY <1>1 DEF KeepServers, serverVars
  <1>12. Counted'
    <2>1. connection_count' = Added(CountAfterClose(conn[s]), d)
      BY <1>9, <1>11 DEF Added, CountAfterClose, c
    <2> QED BY <1>6, <1>7, <1>8, <1>9, <2>1, CountFollows DEF WorkerInv, c
  <1>13. EachServed'
    <2>1. \A t \in Session : /\ t \in InUse' => Served(conn'[t], TRUE)
                             /\ t \notin InUse' => Served(conn'[t], FALSE)
      <3> SUFFICES ASSUME NEW t \in Session
                   PROVE  /\ t \in InUse \cup {s} => Served(conn'[t], TRUE)
                          /\ t \notin InUse \cup {s} => Served(conn'[t], FALSE)
        BY <1>6
      <3> QED BY <1>9, <1>10, ServedNow DEF WorkerInv
    <2> QED BY <1>10, <2>1, ServedNext
  <1>14. ConnTypes'
    BY <1>8, <1>10, <1>11 DEF ConnTypes, WorkerInv, WorkerTypeOK
  <1>15. \A t \in InUse' \ InUse : t = s
    BY <1>6
  <1>16. withSsl => conn'[s].ssl = "handshake"
    BY <1>6, <1>9, <1>10
  <1> QED
    BY <1>2, <1>3, <1>6, <1>12, <1>13, <1>14, <1>15, <1>16 DEF SessionsInv

\* A connection that gets no session.
LEMMA FetchFailsKeeps ==
    ASSUME WorkerInv, NEW ip \in Ip, FetchFails(ip), UNCHANGED <<connVars, serverVars>>
    PROVE  SessionsInv' /\ [PoolNext]_poolVars /\ InUse' = InUse
  <1>1. [PoolNext]_poolVars
    BY DEF PoolNext
  <1>2. InUse' = InUse
    BY DEF FetchFails, FetchRefused, FetchLimited, FetchMallocFails, poolVars, treeVars,
       InUse
  <1>3. heap' \in {"intact", "corrupt"} /\ alive' \in BOOLEAN /\ conn' = conn
    BY DEF connVars, WorkerInv, WorkerTypeOK
  <1> QED BY <1>1, <1>2, <1>3, SessionsKept

-----------------------------------------------------------------------------
(* The steps of the two threads.                                           *)

\* A step of the worker keeps the invariant, is a step of a caller of the pool,
\* and after the exit flag is set accepts nothing.
StepOK ==
    /\ WorkerInv'
    /\ [PoolNext]_poolVars
    /\ g_worker_exit_flag => InUse' \subseteq InUse

\* What epoll_wait may deliver are events, and after the exit only of sessions.
LEMMA DeliveredEvents ==
    ASSUME WorkerInv, NEW n \in Nat, NEW q \in Delivered(n)
    PROVE  /\ q \in Seq(Event)
           /\ g_worker_exit_flag => \A k \in DOMAIN q : q[k].type # "LISTEN"
  <1>1. q \in [1 .. n -> HttpEvents \cup LoopEvents]
    BY DEF Delivered
  <1>2. HttpEvents \subseteq Event /\ \A e \in HttpEvents : e.type = "HTTP"
    <2>1. InUse \subseteq Session
      BY DEF WorkerInv, IInv, TypeOK
    <2> SUFFICES ASSUME NEW e \in HttpEvents
                 PROVE  e \in Event /\ e.type = "HTTP"
      OBVIOUS
    <2>2. e \in [type : {"HTTP"}, of : InUse, fd : {"netaddr", "forward_netaddr"},
                 flag : {"IN", "OUT", "RDHUP", "ERR"}]
      BY DEF HttpEvents
    <2> QED BY <2>1, <2>2 DEF Event
  <1>3. LoopEvents \subseteq Event /\ (g_worker_exit_flag => LoopEvents = {})
    BY DEF LoopEvents, Event
  <1>4. q \in [1 .. n -> Event]
    BY <1>1, <1>2, <1>3
  <1>5. q \in Seq(Event)
    BY <1>4
  <1>6. ASSUME g_worker_exit_flag, NEW k \in DOMAIN q PROVE q[k].type # "LISTEN"
    BY <1>1, <1>2, <1>3, <1>6
  <1> QED BY <1>5, <1>6

\* Going on to the next event of a batch.
LEMMA NextEventKeeps ==
    ASSUME WorkerInv, batch # <<>>, NextEvent, accepts' \in 0 .. MaxAccepts,
           current' \in Session \cup {NoSession},
           UNCHANGED <<g_worker_exit_flag, g_second_elapse, timer>>
    PROVE  LoopInv'
  <1>1. batch \in Seq(Event) /\ index \in Nat /\ nfds \in 0 .. MaxEvents
    BY DEF WorkerInv, WorkerTypeOK
  <1>2. /\ batch' \in Seq(Event) /\ DOMAIN batch' = 1 .. Len(batch')
        /\ Len(batch') = Len(batch) - 1 /\ Len(batch) \in Nat
        /\ \A k \in 1 .. Len(batch') : batch'[k] = batch[k + 1]
        /\ DOMAIN batch = 1 .. Len(batch)
    BY <1>1, HeadTailProperties, LenProperties DEF NextEvent
  <1>3. LoopTypes'
    BY <1>1, <1>2 DEF NextEvent, LoopTypes, WorkerInv, WorkerTypeOK, Event, Session
  <1>4. Exiting'
    <2> SUFFICES ASSUME g_worker_exit_flag, NEW k \in DOMAIN batch'
                 PROVE  batch'[k].type # "LISTEN"
      BY DEF Exiting, NextEvent
    <2>1. k + 1 \in DOMAIN batch /\ batch'[k] = batch[k + 1]
      BY <1>2
    <2>2. \A m \in DOMAIN batch : batch[m].type # "LISTEN"
      BY DEF WorkerInv, Exiting
    <2> QED BY <2>1, <2>2
  <1> QED BY <1>3, <1>4 DEF LoopInv, Handshaking, Accepting, NextEvent

\* Steps of the loop that leave the batch and the sessions alone.
LEMMA LoopMoves ==
    ASSUME WorkerInv, InUse' = InUse \/ pc' # "handshake", conn' = conn \/ pc' # "handshake",
           pc' \in {"epoll_wait", "sweep_timeout", "sweep_elapse", "dispatch",
                    "accept", "handshake", "returned"},
           pc' \in {"accept", "handshake"} => batch # <<>>,
           pc' = "handshake" => current \in InUse /\ conn[current].ssl = "handshake",
           g_worker_exit_flag => pc' # "accept",
           accepts' \in 0 .. MaxAccepts,
           g_second_elapse' \in BOOLEAN, timer' \in {"sleep", "update"},
           UNCHANGED <<batch, nfds, index, current, g_worker_exit_flag>>
    PROVE  LoopInv'
  <1>1. LoopTypes'
    BY DEF LoopTypes, WorkerInv, WorkerTypeOK, Event, Session
  <1>2. Exiting'
    BY DEF WorkerInv, Exiting
  <1> QED BY <1>1, <1>2 DEF LoopInv, Handshaking, Accepting

\* A step that only the sessions or the timer notice.
LEMMA LoopKept ==
    ASSUME WorkerInv, KeepLoop, g_second_elapse' \in BOOLEAN,
           timer' \in {"sleep", "update"},
           pc = "handshake" => InUse' = InUse /\ conn' = conn
    PROVE  LoopInv'
  <1>1. /\ pc \in {"epoll_wait", "sweep_timeout", "sweep_elapse", "dispatch",
                   "accept", "handshake", "returned"}
        /\ pc \in {"accept", "handshake"} => batch # <<>>
        /\ pc = "handshake" => current \in InUse /\ conn[current].ssl = "handshake"
        /\ g_worker_exit_flag => pc # "accept"
        /\ accepts \in 0 .. MaxAccepts
    BY DEF WorkerInv, WorkerTypeOK, Handshaking, Exiting, Accepting
  <1>2. UNCHANGED <<pc, batch, nfds, index, accepts, current, g_worker_exit_flag>>
    BY DEF KeepLoop, loopVars
  <1> QED BY <1>1, <1>2, LoopMoves

\* A step of the timer thread.
LEMMA TimerOK == ASSUME WorkerInv, Timer PROVE StepOK
  <1>1. ASSUME TimerWakes PROVE StepOK
    <2>1. KeepSessions /\ KeepLoop /\ g_second_elapse' = TRUE /\ timer' = "update"
      BY <1>1 DEF TimerWakes
    <2>2. SessionsInv' /\ UNCHANGED poolVars /\ InUse' = InUse
      BY <2>1, KeepSessionsKeeps
    <2>3. conn' = conn
      BY <2>1 DEF KeepSessions, connVars
    <2>4. LoopInv'
      BY <2>1, <2>2, <2>3, LoopKept
    <2> QED BY <2>2, <2>4, TwoHalvesNext DEF StepOK
  <1>2. ASSUME TimerUpdates PROVE StepOK
    <2>1. KeepLoop /\ g_second_elapse' = g_second_elapse /\ timer' = "sleep"
      BY <1>2 DEF TimerUpdates
    <2>2. SessionsInv' /\ [PoolNext]_poolVars /\ InUse' = InUse /\ conn' = conn
      BY <1>2, TimerUpdatesKeeps
    <2>3. g_second_elapse \in BOOLEAN
      BY DEF WorkerInv, WorkerTypeOK
    <2>4. LoopInv'
      BY <2>1, <2>2, <2>3, LoopKept
    <2> QED BY <2>2, <2>4, TwoHalvesNext DEF StepOK
  <1> QED BY <1>1, <1>2 DEF Timer

\* Steps that end a worker, or none, with the loop where it was.
LEMMA StopOK ==
    ASSUME WorkerInv, StopWorker, KeepLoop, KeepTimer
    PROVE  StepOK
  <1>1. SessionsInv' /\ UNCHANGED poolVars /\ InUse' = InUse
    BY StopOrCorruptKeeps
  <1>2. g_second_elapse' \in BOOLEAN /\ timer' \in {"sleep", "update"}
    BY DEF KeepTimer, timerVars, WorkerInv, WorkerTypeOK
  <1>3. conn' = conn
    BY DEF StopWorker
  <1>4. LoopInv'
    BY <1>1, <1>2, <1>3, LoopKept
  <1> QED BY <1>1, <1>4, TwoHalvesNext DEF StepOK

\* Waiting for events and the end of the loop.
LEMMA EpollWaitOK == ASSUME WorkerInv, EpollWait PROVE StepOK
  <1>1. /\ KeepTimer /\ pc = "epoll_wait"
        /\ \/ /\ \E n \in 0 .. MaxEvents :
                    batch' \in Delivered(n) /\ nfds' = n /\ index' = 0
              /\ pc' = IF g_second_elapse THEN "sweep_timeout" ELSE "dispatch"
              /\ KeepSessions
              /\ UNCHANGED <<accepts, current, g_worker_exit_flag>>
           \/ StopWorker /\ KeepLoop
    BY DEF EpollWait
  <1>2. CASE StopWorker /\ KeepLoop
    BY <1>1, <1>2, StopOK
  <1>3. ASSUME NEW n \in 0 .. MaxEvents, batch' \in Delivered(n), nfds' = n, index' = 0,
               pc' = (IF g_second_elapse THEN "sweep_timeout" ELSE "dispatch"),
               KeepSessions, UNCHANGED <<accepts, current, g_worker_exit_flag>>
        PROVE  StepOK
    <2>1. SessionsInv' /\ UNCHANGED poolVars /\ InUse' = InUse
      BY <1>3, KeepSessionsKeeps
    <2>2. n \in Nat
      BY WorkerAssumption
    <2>3. /\ batch' \in Seq(Event)
          /\ g_worker_exit_flag => \A k \in DOMAIN batch' : batch'[k].type # "LISTEN"
      BY <1>3, <2>2, DeliveredEvents
    <2>4. LoopTypes'
      BY <1>1, <1>3, <2>3
         DEF LoopTypes, WorkerInv, WorkerTypeOK, KeepTimer, timerVars, Event, Session
    <2>5. LoopInv'
      BY <1>3, <2>3, <2>4 DEF LoopInv, Handshaking, Exiting, Accepting
    <2> QED BY <2>1, <2>5, TwoHalvesNext DEF StepOK
  <1> QED BY <1>1, <1>2, <1>3

\* Steps that move the loop on to a place without events or sessions at hand.
LEMMA GoToOK ==
    ASSUME WorkerInv, NEW place \in {"sweep_elapse", "dispatch", "returned"},
           KeepSessions, pc' = place,
           UNCHANGED <<batch, nfds, index, accepts, current, g_worker_exit_flag>>,
           g_second_elapse' \in BOOLEAN, timer' \in {"sleep", "update"}
    PROVE  StepOK
  <1>1. SessionsInv' /\ UNCHANGED poolVars /\ InUse' = InUse
    BY KeepSessionsKeeps
  <1>2. accepts' \in 0 .. MaxAccepts
    BY DEF WorkerInv, WorkerTypeOK
  <1>3. LoopInv'
    BY <1>1, <1>2, LoopMoves
  <1> QED BY <1>1, <1>3, TwoHalvesNext DEF StepOK

\* The types of what most steps of the loop leave alone.
LEMMA TimerTypes ==
    ASSUME WorkerInv
    PROVE  /\ g_second_elapse \in BOOLEAN /\ timer \in {"sleep", "update"}
           /\ KeepTimer => g_second_elapse' \in BOOLEAN /\ timer' \in {"sleep", "update"}
           /\ accepts \in 0 .. MaxAccepts /\ current \in Session \cup {NoSession}
  BY DEF WorkerInv, WorkerTypeOK, KeepTimer, timerVars

\* The loop ends.
LEMMA LoopEndsOK == ASSUME WorkerInv, LoopEnds PROVE StepOK
  BY GoToOK, TimerTypes DEF LoopEnds

\* The sweep releases sessions in use only.
LEMMA SweepOK == ASSUME WorkerInv, SweepTimeout \/ SweepElapse PROVE StepOK
  <1>1. Expired(timeout_tree) \subseteq InUse /\ Expired(elapse_tree) \subseteq InUse
    BY DEF Expired, InUse, WorkerInv, IInv, TypeOK
  <1>2. ASSUME NEW s \in InUse, Release(s), KeepLoop, KeepTimer, pc # "handshake"
        PROVE  StepOK
    <2>1. SessionsInv' /\ [PoolNext]_poolVars /\ InUse' = InUse \ {s}
      BY <1>2, ReleaseKeeps
    <2>2. LoopInv'
      BY <1>2, TimerTypes, LoopKept
    <2> QED BY <2>1, <2>2, TwoHalvesNext DEF StepOK
  <1>3. CASE SweepTimeout
    BY <1>1, <1>2, <1>3, GoToOK, TimerTypes DEF SweepTimeout, GoTo
  <1>4. CASE SweepElapse
    BY <1>1, <1>2, <1>4, GoToOK, TimerTypes DEF SweepElapse, GoTo
  <1> QED BY <1>3, <1>4

\* The batch is done.
LEMMA BatchDoneOK == ASSUME WorkerInv, BatchDone PROVE StepOK
  <1>1. SessionsInv' /\ UNCHANGED poolVars /\ InUse' = InUse
    BY KeepSessionsKeeps DEF BatchDone
  <1>2. /\ batch' = <<>> /\ nfds' = 0 /\ index' = 0 /\ pc' = "epoll_wait"
        /\ UNCHANGED <<accepts, current, g_worker_exit_flag, g_second_elapse, timer>>
    BY DEF BatchDone, KeepTimer, timerVars
  <1>3. LoopTypes'
    BY <1>2, WorkerAssumption
       DEF LoopTypes, WorkerInv, WorkerTypeOK, Event, Session
  <1>4. LoopInv'
    BY <1>2, <1>3 DEF LoopInv, Handshaking, Exiting, Accepting
  <1> QED BY <1>1, <1>4, TwoHalvesNext DEF StepOK

\* The event at hand is in the batch, whose head it is.
LEMMA EventAtHand ==
    ASSUME WorkerInv, NEW type, At(type)
    PROVE  /\ batch # <<>> /\ pc = "dispatch" /\ batch \in Seq(Event)
           /\ Head(batch).type = type
  BY DEF At, WorkerInv, WorkerTypeOK

\* An event of a session is handled, or comes after the session was released.
LEMMA HttpEventOK == ASSUME WorkerInv, HttpEvent PROVE StepOK
  <1> DEFINE e == Head(batch)
  <1>1. /\ batch # <<>> /\ NextEvent /\ KeepTimer
        /\ UNCHANGED <<accepts, current, g_worker_exit_flag>>
    BY EventAtHand DEF HttpEvent
  <1>2. \/ e.of \in InUse /\ Handle(e.of, e.flag)
        \/ Unfinished \/ CorruptHeap
    BY DEF HttpEvent, HandleReleased
  <1>3. LoopInv'
    BY <1>1, TimerTypes, NextEventKeeps DEF KeepTimer, timerVars
  <1> HIDE DEF e
  <1>4. CASE e.of \in InUse /\ Handle(e.of, e.flag)
    <2>1. Handled(e.of)
      BY <1>4, HandleHandled
    <2>2. SessionsInv' /\ [PoolNext]_poolVars /\ InUse' \subseteq InUse
      BY <1>4, <2>1, HandledKeeps
    <2> QED BY <1>3, <2>2, TwoHalvesNext DEF StepOK
  <1>5. CASE Unfinished
    <2>1. SessionsInv' /\ UNCHANGED poolVars /\ InUse' = InUse
      BY <1>5, KeepSessionsKeeps DEF Unfinished, KeepSessions
    <2> QED BY <1>3, <2>1, TwoHalvesNext DEF StepOK
  <1>6. CASE CorruptHeap
    <2>1. SessionsInv' /\ UNCHANGED poolVars /\ InUse' = InUse
      BY <1>6, StopOrCorruptKeeps
    <2> QED BY <1>3, <2>1, TwoHalvesNext DEF StepOK
  <1> QED BY <1>2, <1>4, <1>5, <1>6

\* An event without a type is passed over.
LEMMA MaskedEventOK == ASSUME WorkerInv, MaskedEvent PROVE StepOK
  <1>1. /\ batch # <<>> /\ NextEvent /\ KeepTimer /\ KeepSessions
        /\ UNCHANGED <<accepts, current, g_worker_exit_flag>>
    BY EventAtHand DEF MaskedEvent
  <1>2. LoopInv'
    BY <1>1, TimerTypes, NextEventKeeps DEF KeepTimer, timerVars
  <1>3. SessionsInv' /\ UNCHANGED poolVars /\ InUse' = InUse
    BY <1>1, KeepSessionsKeeps
  <1> QED BY <1>2, <1>3, TwoHalvesNext DEF StepOK

\* Accepting begins only while no exit flag is set: after it no event in the
\* batch is one of a listener.
LEMMA ListenEventOK == ASSUME WorkerInv, ListenEvent PROVE StepOK
  <1>1. /\ batch # <<>> /\ batch \in Seq(Event) /\ Head(batch).type = "LISTEN"
        /\ KeepTimer /\ KeepSessions /\ pc' = "accept" /\ accepts' = 0
        /\ UNCHANGED <<batch, nfds, index, current, g_worker_exit_flag>>
    BY EventAtHand DEF ListenEvent
  <1>2. ~g_worker_exit_flag
    <2>1. 1 \in DOMAIN batch /\ Head(batch) = batch[1]
      BY <1>1, EmptySeq, LenProperties
    <2> QED BY <1>1, <2>1 DEF WorkerInv, Exiting
  <1>3. SessionsInv' /\ UNCHANGED poolVars /\ InUse' = InUse
    BY <1>1, KeepSessionsKeeps
  <1>4. 0 \in 0 .. MaxAccepts
    BY WorkerAssumption
  <1>5. LoopInv'
    BY <1>1, <1>2, <1>4, TimerTypes, LoopMoves
  <1> QED BY <1>3, <1>5, TwoHalvesNext DEF StepOK

\* What holds while connections are accepted.
LEMMA WhileAccepting ==
    ASSUME WorkerInv, pc = "accept"
    PROVE  batch # <<>> /\ ~g_worker_exit_flag
  BY DEF WorkerInv, Accepting, Exiting

\* A connection is accepted, and its handshake begun when it needs one.
LEMMA AcceptOK == ASSUME WorkerInv, Accept PROVE StepOK
  <1> DEFINE withSsl == Head(batch).of \in SslListener
  <1>1. PICK ip \in Ip : Accepted(ip, withSsl)
    BY DEF Accept
  <1>2. /\ pc = "accept" /\ accepts < MaxAccepts /\ accepts' = accepts + 1 /\ KeepTimer
        /\ IF withSsl THEN current' \in InUse' \ InUse /\ pc' = "handshake"
                      ELSE UNCHANGED <<current, pc>>
        /\ UNCHANGED <<batch, nfds, index, g_worker_exit_flag>>
    BY DEF Accept, InUse
  <1>3. withSsl \in BOOLEAN
    OBVIOUS
  <1> HIDE DEF withSsl
  <1>4. /\ SessionsInv' /\ [PoolNext]_poolVars
        /\ \A s \in InUse' \ InUse :
              s \in Session /\ (withSsl => conn'[s].ssl = "handshake")
    BY <1>1, <1>3, AcceptedKeeps
  <1>5. accepts' \in 0 .. MaxAccepts
    BY <1>2, TimerTypes, WorkerAssumption
  <1>6. batch # <<>> /\ ~g_worker_exit_flag
    BY <1>2, WhileAccepting
  <1>7. current' \in Session \cup {NoSession}
    BY <1>2, <1>4, TimerTypes
  <1>8. LoopTypes'
    BY <1>2, <1>5, <1>7, TimerTypes
       DEF LoopTypes, WorkerInv, WorkerTypeOK, Event, Session
  <1>9. Handshaking'
    BY <1>2, <1>4 DEF Handshaking
  <1>10. LoopInv'
    BY <1>2, <1>6, <1>8, <1>9 DEF LoopInv, Exiting, Accepting
  <1> QED BY <1>4, <1>6, <1>10, TwoHalvesNext DEF StepOK

\* There is nothing more to accept, or no session for it.
LEMMA AcceptEndsOK == ASSUME WorkerInv, AcceptEnds PROVE StepOK
  <1>1. /\ pc = "accept" /\ NextEvent /\ accepts' = 0 /\ KeepTimer
        /\ UNCHANGED <<current, g_worker_exit_flag>>
        /\ \/ /\ \E ip \in Ip : FetchFails(ip)
              /\ UNCHANGED <<connVars, serverVars>>
           \/ KeepSessions
    BY DEF AcceptEnds
  <1>2. 0 \in 0 .. MaxAccepts
    BY WorkerAssumption
  <1>3. LoopInv'
    BY <1>1, <1>2, WhileAccepting, TimerTypes, NextEventKeeps DEF KeepTimer, timerVars
  <1>4. SessionsInv' /\ [PoolNext]_poolVars /\ InUse' = InUse
    BY <1>1, FetchFailsKeeps, KeepSessionsKeeps
  <1> QED BY <1>3, <1>4, TwoHalvesNext DEF StepOK

\* The first step of the handshake, for the session that was just accepted.
LEMMA FirstHandshakeOK == ASSUME WorkerInv, FirstHandshake PROVE StepOK
  <1>1. /\ pc = "handshake" /\ OnAcceptingSslSocket(current) /\ NextEvent
        /\ accepts' = 0 /\ current' = NoSession /\ KeepTimer
        /\ UNCHANGED g_worker_exit_flag
    BY DEF FirstHandshake
  <1>2. current \in InUse /\ conn[current].ssl = "handshake" /\ batch # <<>>
    BY <1>1 DEF WorkerInv, Handshaking, Accepting
  <1>3. SessionsInv' /\ [PoolNext]_poolVars /\ InUse' \subseteq InUse
    BY <1>1, <1>2, OnAcceptingSslSocketHandled, HandledKeeps
  <1>4. 0 \in 0 .. MaxAccepts
    BY WorkerAssumption
  <1>5. LoopInv'
    BY <1>1, <1>2, <1>4, NextEventKeeps DEF KeepTimer, timerVars
  <1> QED BY <1>3, <1>5, TwoHalvesNext DEF StepOK

\* The events of the listeners that the exit closes lose their type.
LEMMA PipeClosedOK == ASSUME WorkerInv, PipeClosed PROVE StepOK
  <1> DEFINE masked(k) ==
          IF batch[k + 1].type = "LISTEN" THEN [batch[k + 1] EXCEPT !.type = "0"]
                                          ELSE batch[k + 1]
  <1>1. /\ batch # <<>> /\ batch \in Seq(Event) /\ pc = "dispatch"
        /\ KeepTimer /\ KeepSessions /\ g_worker_exit_flag' = TRUE
        /\ batch' = [k \in 1 .. Len(batch) - 1 |-> masked(k)]
        /\ index' = index + 1 /\ UNCHANGED <<pc, nfds, accepts, current>>
    BY EventAtHand DEF PipeClosed
  <1>2. SessionsInv' /\ UNCHANGED poolVars /\ InUse' = InUse
    BY <1>1, KeepSessionsKeeps
  <1>3. Len(batch) \in Nat /\ Len(batch) # 0
    BY <1>1, EmptySeq, LenProperties
  <1>4. ASSUME NEW k \in 1 .. Len(batch) - 1
        PROVE  masked(k) \in Event /\ masked(k).type # "LISTEN"
    <2>1. batch[k + 1] \in Event
      BY <1>1, <1>3, ElementOfSeq
    <2> DEFINE b == batch[k + 1]
    <2> HIDE DEF b
    <2>2. b \in Event => [b EXCEPT !.type = "0"] \in Event
                         /\ [b EXCEPT !.type = "0"].type = "0"
      BY DEF Event
    <2> QED BY <2>1, <2>2 DEF b
  <1> HIDE DEF masked
  <1>5. batch' \in Seq(Event) /\ DOMAIN batch' = 1 .. Len(batch) - 1
    BY <1>1, <1>3, <1>4
  <1>6. \A k \in DOMAIN batch' : batch'[k].type # "LISTEN"
    BY <1>1, <1>4
  <1>7. LoopTypes'
    BY <1>1, <1>5, TimerTypes DEF LoopTypes, WorkerInv, WorkerTypeOK, Event, Session
  <1>8. LoopInv'
    BY <1>1, <1>6, <1>7 DEF LoopInv, Handshaking, Exiting, Accepting
  <1> QED BY <1>2, <1>8, TwoHalvesNext DEF StepOK

\* The logs are reopened, and the index is left where that loop left it.
LEMMA PipeReopenLogOK == ASSUME WorkerInv, PipeReopenLog PROVE StepOK
  <1>1. /\ batch # <<>> /\ batch \in Seq(Event) /\ pc = "dispatch"
        /\ KeepTimer /\ KeepSessions
        /\ batch' = Tail(batch) /\ index' = VirtualHostHashsize + 1
        /\ UNCHANGED <<pc, nfds, accepts, current, g_worker_exit_flag>>
    BY EventAtHand DEF PipeReopenLog
  <1>2. SessionsInv' /\ UNCHANGED poolVars /\ InUse' = InUse
    BY <1>1, KeepSessionsKeeps
  <1>3. VirtualHostHashsize \in Nat
    BY WorkerAssumption
  <1>4. /\ batch' \in Seq(Event) /\ DOMAIN batch' = 1 .. Len(batch')
        /\ Len(batch') = Len(batch) - 1 /\ Len(batch) \in Nat
        /\ \A k \in 1 .. Len(batch') : batch'[k] = batch[k + 1]
        /\ DOMAIN batch = 1 .. Len(batch)
    BY <1>1, HeadTailProperties, LenProperties
  <1>5. LoopTypes'
    BY <1>1, <1>3, <1>4, TimerTypes
       DEF LoopTypes, WorkerInv, WorkerTypeOK, Event, Session
  <1>6. Exiting'
    <2> SUFFICES ASSUME g_worker_exit_flag, NEW k \in DOMAIN batch'
                 PROVE  batch'[k].type # "LISTEN"
      BY <1>1 DEF Exiting
    <2>1. k + 1 \in DOMAIN batch /\ batch'[k] = batch[k + 1]
      BY <1>4
    <2>2. \A m \in DOMAIN batch : batch[m].type # "LISTEN"
      BY DEF WorkerInv, Exiting
    <2> QED BY <2>1, <2>2
  <1>7. LoopInv'
    BY <1>1, <1>5, <1>6 DEF LoopInv, Handshaking, Accepting
  <1> QED BY <1>2, <1>7, TwoHalvesNext DEF StepOK

\* Every step of the loop.
LEMMA LoopOK == ASSUME WorkerInv, Loop PROVE StepOK
  <1>1. ASSUME PastTheEvents \/ AcceptFails PROVE StepOK
    BY <1>1, StopOK DEF PastTheEvents, AcceptFails
  <1> QED
    BY <1>1, EpollWaitOK, LoopEndsOK, SweepOK, BatchDoneOK, HttpEventOK,
       MaskedEventOK, ListenEventOK, AcceptOK, AcceptEndsOK, FirstHandshakeOK,
       PipeClosedOK, PipeReopenLogOK DEF Loop

-----------------------------------------------------------------------------
(* The theorems.                                                           *)

\* A worker starts with nothing in use, nothing counted and nothing to do.
LEMMA InitWorkerInv == Init => WorkerInv
  <1> SUFFICES ASSUME Init PROVE WorkerInv
    OBVIOUS
  <1>1. PoolInit /\ ServersInit /\ ConnInit
    BY DEF Init
  <1>2. IInv
    BY <1>1, InitIInv
  <1>3. InUse = {}
    BY <1>1 DEF PoolInit, InUse
  <1>4. Unopened \in ConnType /\ Served(Unopened, FALSE) /\ Unopened.flags = "none"
    BY DEF Unopened, ConnType, Served
  <1>5. /\ conn \in [Session -> ConnType]
        /\ \A s \in Session : conn[s] = Unopened
    BY <1>1, <1>4 DEF ConnInit
  <1>6. ConnTypes
    <2>1. ForwardDisable + 1 \in Nat
      BY ForwardAssumption
    <2>2. server_order \in Order
      <3>1. server_order = ServerList /\ server_order \in Seq(Server)
        BY <1>1, ForwardAssumption DEF ServersInit
      <3>2. ASSUME NEW f \in Server PROVE OnceIn(server_order, f)
        <4>1. PICK i \in DOMAIN ServerList : ServerList[i] = f
          BY DEF Server
        <4> QED BY <3>1, <4>1, ForwardAssumption DEF OnceIn
      <3> QED BY <3>1, <3>2 DEF Order
    <2>3. /\ connection_count \in [Server -> Nat]
          /\ disabled_left \in [Server -> 0 .. ForwardDisable + 1]
      BY <1>1, <2>1 DEF ServersInit
    <2>4. heap = "intact" /\ alive = TRUE
      BY <1>1 DEF ConnInit
    <2> QED BY <1>5, <2>2, <2>3, <2>4 DEF ConnTypes
  <1>7. EachServed
    <2>1. \A s \in Session : Served(conn[s], FALSE)
      BY <1>4, <1>5, Zenon
    <2> QED BY <1>3, <2>1 DEF EachServed, Served
  <1>8. Counted
    <2>1. \A f \in Server : ForwardedTo(f) = {} /\ connection_count[f] = 0
      BY <1>1, <1>4, <1>5 DEF ForwardedTo, ServersInit
    <2> QED BY <2>1, FS_EmptySet DEF Counted
  <1>9. LoopInv
    <2>1. LoopTypes
      <3>1. batch \in Seq(Event)
        BY EmptySeq DEF Init
      <3>2. nfds \in 0 .. MaxEvents /\ index \in Nat /\ accepts \in 0 .. MaxAccepts
        BY WorkerAssumption DEF Init
      <3>3. /\ current \in Session \cup {NoSession} /\ g_worker_exit_flag \in BOOLEAN
            /\ g_second_elapse \in BOOLEAN
        BY Zenon DEF Init
      <3>4. pc = "epoll_wait" /\ timer = "sleep"
        BY DEF Init
      <3> QED BY <3>1, <3>2, <3>3, <3>4 DEF LoopTypes
    <2> QED BY <2>1 DEF Init, LoopInv, Handshaking, Exiting, Accepting
  <1> QED BY <1>2, <1>6, <1>7, <1>8, <1>9, TwoHalves DEF SessionsInv

\* Every step keeps the invariant.
LEMMA NextWorkerInv == WorkerInv /\ [Next]_vars => StepOK
  <1> SUFFICES ASSUME WorkerInv, [Next]_vars PROVE StepOK
    OBVIOUS
  <1>1. CASE Next
    BY <1>1, TimerOK, LoopOK DEF Next
  <1>2. CASE UNCHANGED vars
    <2>1. KeepSessions /\ KeepLoop /\ KeepTimer
      BY <1>2 DEF vars, KeepSessions, KeepLoop, KeepTimer
    <2>2. SessionsInv' /\ UNCHANGED poolVars /\ InUse' = InUse
      BY <2>1, KeepSessionsKeeps
    <2>3. conn' = conn
      BY <2>1 DEF KeepSessions, connVars
    <2>4. LoopInv'
      BY <2>1, <2>2, <2>3, TimerTypes, LoopKept
    <2> QED BY <2>2, <2>4, TwoHalvesNext DEF StepOK
  <1> QED BY <1>1, <1>2

\* The invariant holds throughout.
LEMMA WorkerInvariant == Spec => []WorkerInv
  <1>1. WorkerInv /\ [Next]_vars => WorkerInv'
    BY NextWorkerInv DEF StepOK
  <1> QED BY <1>1, InitWorkerInv, PTL DEF Spec

\* A worker releases, fetches and refreshes sessions as the pool's specification
\* lets its callers: what SetHttpSessionUnused, FetchHttpSessionUnused and the
\* updates of the two trees assume of the handlers is true of them, up to the
\* release of a session that was already released.
THEOREM WorkerUsesPool == Spec => UsesPool
  <1>1. Init => PoolInit
    BY DEF Init
  <1>2. WorkerInv /\ [Next]_vars => [PoolNext]_poolVars
    BY NextWorkerInv DEF StepOK
  <1> QED BY <1>1, <1>2, WorkerInvariant, PTL DEF Spec, UsesPool, PoolSpec

\* So what was proved of the pool is true of the pool of a worker: no session is
\* lost, the counters agree with the list and the trees, and every connection
\* is counted for its address.
THEOREM WorkerLosesNoSession == Spec => [](NothingLost /\ Accounting /\ IpCovered)
  <1>1. PoolSpec => [](NothingLost /\ Accounting /\ IpCovered)
    BY NoSessionLost, CountersAgree, ConnectionsCounted, PTL
  <1> QED BY <1>1, WorkerUsesPool, PTL DEF UsesPool

\* And a worker implements the two admission limits: neither
\* max_http_session_count nor max_connections_per_ip is ever exceeded.
THEOREM WorkerImplementsAdmission == Spec => AdmissionSpec
  BY WorkerUsesPool, PoolImplementsAdmission, PTL DEF UsesPool

\* The sessions, the servers, the batch and the loop keep their types; in
\* particular no count of connections goes below 0.
THEOREM WorkerTypes == Spec => []WorkerTypeOK
  <1>1. WorkerInv => WorkerTypeOK
    BY DEF WorkerInv
  <1> QED BY <1>1, WorkerInvariant, PTL

\* Whatever order events, expiries, failures and answers come in, a session in
\* use is watched for something, a client that is only watched for hanging up
\* has a forward connection that is watched, and an unused session for nothing.
THEOREM ClientsAreWatched == Spec => []NobodyForgotten
  <1>1. WorkerInv => NobodyForgotten
    BY ServedNow DEF WorkerInv, NobodyForgotten, Served, Registered
  <1> QED BY <1>1, WorkerInvariant, PTL

\* A client is watched for output only with a response to send, and for input
\* only between a response and the next request.
THEOREM RequestsAlternate == Spec => []RequestThenResponse
  <1>1. WorkerInv => RequestThenResponse
    <2> SUFFICES ASSUME WorkerInv, NEW s \in InUse, conn[s].ssl # "handshake"
                 PROVE  /\ conn[s].mask = "OUT" => conn[s].http = "response"
                        /\ conn[s].mask = "IN" => /\ conn[s].http = "empty"
                                                  /\ conn[s].flags = "none"
      BY DEF RequestThenResponse
    <2> QED BY SessionFacts DEF Served
  <1> QED BY <1>1, WorkerInvariant, PTL

\* connection_count of a server is the number of sessions with a forward
\* connection to it: each of the places that end one takes back what
\* ConnectForwardServer added, once, whatever failed in between.
THEOREM EveryForwardIsCounted == Spec => []ForwardsCounted
  <1>1. WorkerInv => ForwardsCounted
    <2> SUFFICES ASSUME WorkerInv, NEW f \in Server
                 PROVE  connection_count[f] = Cardinality(
                            {s \in InUse : conn[s].server = f /\ conn[s].flags # "none"})
      BY DEF ForwardsCounted
    <2>1. InUse \subseteq Session
      BY DEF WorkerInv, IInv, TypeOK
    <2>2. \A s \in Session \ InUse : conn[s].flags = "none"
      BY ServedNow DEF WorkerInv, Served
    <2>3. ForwardedTo(f) = {s \in InUse : conn[s].server = f /\ conn[s].flags # "none"}
      BY <2>1, <2>2 DEF ForwardedTo
    <2>4. connection_count[f] = Cardinality(ForwardedTo(f))
      BY DEF WorkerInv, Counted
    <2> QED BY <2>3, <2>4
  <1> QED BY <1>1, WorkerInvariant, PTL

\* Selecting and connecting move a server in the round-robin list or the tree,
\* and every forward server stays in it, at one place: one that is not reachable
\* for a while is found again.
THEOREM ServersStayInOrder == Spec => []EveryServerOnce
  <1>1. WorkerInv => EveryServerOnce
    BY DEF WorkerInv, Order, EveryServerOnce
  <1> QED BY <1>1, WorkerInvariant, PTL

\* Once the pipe is closed no connection is accepted, not even for an event of
\* the same batch: the type is taken from the events of the listeners, and
\* nothing that follows puts one back.
THEOREM ExitAcceptsNothing == Spec => NoneAcceptedAfterExit
  <1>1. WorkerInv /\ [Next]_vars => [g_worker_exit_flag => InUse' \subseteq InUse]_vars
    BY NextWorkerInv DEF StepOK
  <1> QED BY <1>1, WorkerInvariant, PTL DEF Spec, NoneAcceptedAfterExit
=============================================================================
