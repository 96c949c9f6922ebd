----------------------- MODULE GracefulRestart_proofs ----------------------
(***************************************************************************)
(* For every set of configurations and any number of restarts: a serving   *)
(* generation holds no socket but those it listens on, and, where a port   *)
(* belongs to one address, it listens on all that its configuration names, *)
(* is refused no address but an explicit one, and resets no client.        *)
(***************************************************************************)
EXTENDS GracefulRestart, WellFoundedInduction, TLAPS

OldSocket == [sock : Nat, ip : {"", "text"}]

Generation ==
    [phase : {"starting", "serving", "draining", "ended", "refused", "failed"},
     conf : Config, old : Seq(OldSocket), listen : Seq(Nat), fds : SUBSET Nat]

\* What CloseUnusedOldListeners closes.
Unused(r) == {o.sock : o \in {q \in ToSet(r.old) : q.ip # ""}}

\* A generation that starts also holds what it has inherited and not yet adopted.
Bounded(r) ==
    /\ r.phase = "starting" => r.fds \subseteq ToSet(r.listen) \cup Unused(r)
    /\ r.phase = "serving" => r.fds \subseteq ToSet(r.listen)

HeldInv ==
    /\ sockets \in Seq(Address)
    /\ gens \in Seq(Generation)
    /\ \A g \in DOMAIN gens : Bounded(gens[g])

-----------------------------------------------------------------------------
(* Lists and arrays.                                                       *)

\* The elements of a sequence, and what replacing one of them gives.
LEMMA SeqElems ==
    ASSUME NEW S, NEW list \in Seq(S), NEW i \in DOMAIN list
    PROVE  /\ list[i] \in S
           /\ \A e \in S : /\ [list EXCEPT ![i] = e] \in Seq(S)
                           /\ DOMAIN [list EXCEPT ![i] = e] = DOMAIN list
                           /\ [list EXCEPT ![i] = e][i] = e
                           /\ \A j \in DOMAIN list \ {i} : [list EXCEPT ![i] = e][j] = list[j]
  OBVIOUS

\* A function on an initial segment is a sequence.
LEMMA IsASeq ==
    ASSUME NEW S, NEW n \in Nat, NEW f \in [1 .. n -> S]
    PROVE  f \in Seq(S)
  OBVIOUS

\* A socket that is put at the front of listen_session_list is added to its elements.
LEMMA PrependElems ==
    ASSUME NEW S, NEW list \in Seq(S), NEW s \in S
    PROVE  /\ <<s>> \o list \in Seq(S)
           /\ Len(<<s>> \o list) = Len(list) + 1
           /\ (<<s>> \o list)[1] = s
           /\ \A i \in 1 .. Len(list) : (<<s>> \o list)[i + 1] = list[i]
           /\ ToSet(<<s>> \o list) = ToSet(list) \cup {s}
  <1> DEFINE l == <<s>> \o list
  <1>1. /\ l \in Seq(S)
        /\ Len(l) = Len(list) + 1
        /\ Len(list) \in Nat
        /\ DOMAIN l = 1 .. Len(list) + 1
        /\ DOMAIN list = 1 .. Len(list)
        /\ l[1] = s
        /\ \A i \in 1 .. Len(list) : l[i + 1] = list[i]
    OBVIOUS
  <1> HIDE DEF l
  <1>2. ToSet(list) \cup {s} \subseteq ToSet(l)
    BY <1>1 DEF ToSet
  <1>3. ASSUME NEW i \in DOMAIN l, i # 1 PROVE l[i] \in ToSet(list)
    <2>1. i - 1 \in 1 .. Len(list) /\ l[(i - 1) + 1] = list[i - 1]
      BY <1>1, <1>3
    <2> QED BY <1>1, <2>1 DEF ToSet
  <1>4. ToSet(l) \subseteq ToSet(list) \cup {s}
    BY <1>1, <1>3 DEF ToSet
  <1> QED BY <1>1, <1>2, <1>4 DEF l

\* The answer of GetListener: an entry that matches, and the array with that one marked.
Marks(old, a, l) ==
    \E i \in DOMAIN old :
        /\ Matches(old[i], a)
        /\ l.sock = old[i].sock /\ l.sock \in Nat
        /\ l.old \in Seq(OldSocket)
        /\ DOMAIN l.old = DOMAIN old
        /\ l.old[i].sock = old[i].sock /\ l.old[i].ip = ""
        /\ \A j \in DOMAIN old \ {i} : l.old[j] = old[j]

\* GetListener marks the entry whose socket it returns and leaves the others alone.
LEMMA GetListenerMarks ==
    ASSUME NEW old \in Seq(OldSocket), NEW a, NEW l \in GetListener(old, a)
    PROVE  Marks(old, a, l)
  <1>1. PICK i \in DOMAIN old :
           /\ Matches(old[i], a)
           /\ l = [old |-> [old EXCEPT ![i].ip = ""], sock |-> old[i].sock]
    BY DEF GetListener
  <1> DEFINE o == old[i]
             n == [o EXCEPT !.ip = ""]
  <1>2. o \in OldSocket
    BY SeqElems
  <1>3. l.sock = o.sock /\ l.old = [old EXCEPT ![i] = n]
    BY <1>1
  <1> HIDE DEF o
  <1>4. n \in OldSocket /\ n.sock = o.sock /\ n.ip = "" /\ o.sock \in Nat
    BY <1>2 DEF OldSocket
  <1> HIDE DEF n
  <1>5. /\ l.old \in Seq(OldSocket)
        /\ DOMAIN l.old = DOMAIN old
        /\ l.old[i] = n
        /\ \A j \in DOMAIN old \ {i} : l.old[j] = old[j]
    <2> DEFINE x == [old EXCEPT ![i] = n]
    <2>1. /\ x \in Seq(OldSocket) /\ DOMAIN x = DOMAIN old /\ x[i] = n
          /\ \A j \in DOMAIN old \ {i} : x[j] = old[j]
      BY <1>4, SeqElems
    <2> HIDE DEF x
    <2>2. l.old = x
      BY <1>3 DEF x
    <2> QED BY <2>1, <2>2
  <1> QED
    <2>1. Matches(old[i], a) /\ l.sock = old[i].sock /\ l.sock \in Nat
      BY <1>1, <1>3, <1>4 DEF o
    <2>2. l.old[i].sock = old[i].sock /\ l.old[i].ip = ""
      BY <1>4, <1>5 DEF o
    <2> QED BY <2>1, <2>2, <1>5 DEF Marks

-----------------------------------------------------------------------------
(* What a generation holds.                                                *)

\* A new generation that fits keeps the invariant.
LEMMA AppendHeld ==
    ASSUME HeldInv, NEW r \in Generation, Bounded(r), UNCHANGED sockets, gens' = Append(gens, r)
    PROVE  HeldInv'
  <1>1. /\ gens \in Seq(Generation) /\ gens' = Append(gens, r)
        /\ \A g \in DOMAIN gens : Bounded(gens[g])
    BY DEF HeldInv
  <1>2. /\ gens' \in Seq(Generation)
        /\ \A g \in DOMAIN gens' : (g \in DOMAIN gens /\ gens'[g] = gens[g]) \/ gens'[g] = r
    BY <1>1
  <1>3. \A g \in DOMAIN gens' : Bounded(gens'[g])
    BY <1>1, <1>2
  <1> QED BY <1>2, <1>3 DEF HeldInv

\* So does a generation that is replaced by one that fits.
LEMMA BecomeHeld ==
    ASSUME HeldInv, NEW g \in DOMAIN gens, NEW r \in Generation, Bounded(r),
           sockets' \in Seq(Address), Become(g, r)
    PROVE  HeldInv'
  BY DEF HeldInv, Become

\* Adopting keeps what is held among what is listened on and what is still unused.
LEMMA AdoptHeld ==
    ASSUME HeldInv, NEW g \in DOMAIN gens, Adopt(g)
    PROVE  HeldInv'
  <1> DEFINE r == gens[g]
  <1>1. r \in Generation /\ Bounded(r) /\ r.phase = "starting"
    BY DEF HeldInv, Adopt, StillListening
  <1>2. PICK l \in GetListener(r.old, Wanted(g)) :
           Become(g, [r EXCEPT !.old = l.old, !.listen = <<l.sock>> \o @])
    BY DEF Adopt
  <1> DEFINE n == [r EXCEPT !.old = l.old, !.listen = <<l.sock>> \o @]
  <1>3. r.old \in Seq(OldSocket) /\ r.listen \in Seq(Nat)
    BY <1>1 DEF Generation
  <1> HIDE DEF r
  <1> DEFINE old == r.old
  <1>4. PICK i \in DOMAIN old :
           /\ l.sock = old[i].sock /\ l.sock \in Nat
           /\ l.old \in Seq(OldSocket)
           /\ DOMAIN l.old = DOMAIN old
           /\ \A j \in DOMAIN old \ {i} : l.old[j] = old[j]
    <2> DEFINE a == Wanted(g)
    <2>1. old \in Seq(OldSocket) /\ l \in GetListener(old, a)
      BY <1>3
    <2> HIDE DEF old, a
    <2>2. Marks(old, a, l)
      BY <2>1, GetListenerMarks
    <2> QED BY <2>2 DEF Marks
  <1>5. <<l.sock>> \o r.listen \in Seq(Nat)
        /\ ToSet(<<l.sock>> \o r.listen) = ToSet(r.listen) \cup {l.sock}
    BY <1>3, <1>4, PrependElems
  <1>6. /\ n.phase = "starting" /\ n.fds = r.fds /\ n.old = l.old
        /\ n.listen = <<l.sock>> \o r.listen
        /\ n \in Generation
    BY <1>1, <1>4, <1>5 DEF Generation
  <1>7. Unused(r) \subseteq Unused(n) \cup {l.sock}
    <2>1. ASSUME NEW x \in Unused(r), x # l.sock PROVE x \in Unused(n)
      <3>1. PICK j \in DOMAIN old : x = old[j].sock /\ old[j].ip # ""
        BY <2>1 DEF Unused, ToSet
      <3>2. j # i /\ l.old[j] = old[j] /\ j \in DOMAIN l.old
        BY <1>4, <2>1, <3>1
      <3>3. l.old[j] \in {q \in ToSet(n.old) : q.ip # ""}
        BY <1>6, <3>1, <3>2 DEF ToSet
      <3> QED BY <3>1, <3>2, <3>3 DEF Unused
    <2> QED BY <2>1
  <1>8. Bounded(n)
    BY <1>1, <1>5, <1>6, <1>7 DEF Bounded
  <1>9. sockets' \in Seq(Address)
    BY DEF HeldInv, Adopt
  <1> QED BY <1>2, <1>6, <1>8, <1>9, BecomeHeld DEF r

\* A socket that a generation makes is one that it listens on.
LEMMA BindHeld ==
    ASSUME HeldInv, NEW g \in DOMAIN gens, Bind(g)
    PROVE  HeldInv'
  <1> DEFINE r == gens[g]
             s == Len(sockets) + 1
             n == [r EXCEPT !.listen = <<s>> \o @, !.fds = @ \cup {s}]
  <1>1. r \in Generation /\ Bounded(r) /\ r.phase = "starting"
    BY DEF HeldInv, Bind, StillListening
  <1>2. s \in Nat /\ Become(g, n) /\ sockets' = Append(sockets, Wanted(g))
    BY DEF HeldInv, Bind
  <1>3. Wanted(g) \in Address
    <2>1. /\ r.conf \in Config /\ r.listen \in Seq(Nat)
          /\ Len(r.listen) < Len(r.conf)
      BY <1>1 DEF Generation, Bind, StillListening
    <2>2. r.conf \in Seq(Address)
      BY <2>1, GracefulRestartAssumption
    <2> QED BY <2>1, <2>2 DEF Wanted
  <1>4. sockets' \in Seq(Address)
    BY <1>2, <1>3 DEF HeldInv
  <1> HIDE DEF r, s
  <1>5. r.listen \in Seq(Nat)
    BY <1>1 DEF Generation
  <1>6. <<s>> \o r.listen \in Seq(Nat) /\ ToSet(<<s>> \o r.listen) = ToSet(r.listen) \cup {s}
    BY <1>2, <1>5, PrependElems
  <1>7. /\ n.phase = "starting" /\ n.fds = r.fds \cup {s} /\ n.old = r.old
        /\ n.listen = <<s>> \o r.listen
        /\ n \in Generation
    BY <1>1, <1>2, <1>6 DEF Generation
  <1>8. Bounded(n)
    BY <1>1, <1>6, <1>7 DEF Bounded, Unused
  <1> QED BY <1>2, <1>4, <1>7, <1>8, BecomeHeld DEF r

\* A restart hands over what the old generation listens on, all of it unused as yet.
LEMMA RestartHeld ==
    ASSUME HeldInv, NEW g \in DOMAIN gens, NEW c \in Config, Restart(g, c)
    PROVE  HeldInv'
  <1> DEFINE r == gens[g]
             old == [i \in DOMAIN r.listen |-> [sock |-> r.listen[i], ip |-> "text"]]
             n == Executed(c, old, r.fds)
  <1>1. r \in Generation /\ Bounded(r) /\ r.phase = "serving"
    BY DEF HeldInv, Restart, Serving
  <1>2. gens' = Append(gens, n) /\ UNCHANGED sockets
    BY DEF Restart, LoadOldListenSockets, SaveListenSockets
  <1> HIDE DEF r
  <1>3. r.listen \in Seq(Nat) /\ r.fds \in SUBSET Nat /\ r.fds \subseteq ToSet(r.listen)
    BY <1>1 DEF Generation, Bounded
  <1>4. old \in Seq(OldSocket)
    <2>1. \A i \in DOMAIN r.listen : r.listen[i] \in Nat
      BY <1>3
    <2>2. \A i \in DOMAIN r.listen : old[i] \in OldSocket
      BY <2>1 DEF OldSocket
    <2>3. Len(r.listen) \in Nat /\ DOMAIN r.listen = 1 .. Len(r.listen)
      BY <1>3
    <2>4. old \in [1 .. Len(r.listen) -> OldSocket]
      BY <2>2, <2>3
    <2> HIDE DEF old
    <2> QED BY <2>3, <2>4, IsASeq
  <1>5. ASSUME NEW x \in ToSet(r.listen) PROVE x \in Unused(n)
    <2>1. PICK i \in DOMAIN r.listen : x = r.listen[i]
      BY <1>5 DEF ToSet
    <2>2. old[i].sock = x /\ old[i].ip # "" /\ i \in DOMAIN old
      BY <2>1
    <2>3. old[i] \in {q \in ToSet(old) : q.ip # ""}
      BY <2>2 DEF ToSet
    <2> QED BY <2>2, <2>3 DEF Unused, Executed
  <1>6. Bounded(n)
    BY <1>3, <1>5 DEF Bounded, Executed
  <1>7. n \in Generation
    BY <1>3, <1>4 DEF Generation, Executed
  <1> QED BY <1>2, <1>6, <1>7, AppendHeld

\* When it starts to serve, what is unused is closed.
LEMMA ServeHeld ==
    ASSUME HeldInv, NEW g \in DOMAIN gens, Serve(g)
    PROVE  HeldInv'
  <1> DEFINE r == gens[g]
             n == [CloseUnusedOldListeners(r) EXCEPT !.phase = "serving", !.old = <<>>]
  <1>1. r \in Generation /\ Bounded(r) /\ r.phase = "starting"
    BY DEF HeldInv, Serve
  <1>2. Become(g, n) /\ sockets' \in Seq(Address)
    BY DEF HeldInv, Serve
  <1> HIDE DEF r
  <1>3. CloseUnusedOldListeners(r) = [r EXCEPT !.fds = @ \ Unused(r)]
    BY DEF CloseUnusedOldListeners, Unused
  <1> DEFINE u == Unused(r)
  <1> HIDE DEF u
  <1>4. /\ n.phase = "serving" /\ n.listen = r.listen /\ n.fds = r.fds \ u
        /\ n \in Generation
    <2>1. n = [r EXCEPT !.fds = @ \ u, !.phase = "serving", !.old = <<>>]
      BY <1>3 DEF u
    <2>2. <<>> \in Seq(OldSocket)
      OBVIOUS
    <2> HIDE DEF n
    <2> QED BY <1>1, <2>1, <2>2 DEF Generation
  <1>5. Bounded(n)
    BY <1>1, <1>4 DEF Bounded, u
  <1> QED BY <1>2, <1>4, <1>5, BecomeHeld DEF r

\* No other step changes what a starting or a serving generation holds.
LEMMA OthersHeld ==
    ASSUME HeldInv, NEW g \in DOMAIN gens,
           BindRefused(g) \/ StartFails(g) \/ Terminate(g) \/ GenerationEnds(g)
    PROVE  HeldInv'
  <1> DEFINE r == gens[g]
  <1>1. r \in Generation /\ sockets' \in Seq(Address)
    BY DEF HeldInv, BindRefused, StartFails, Terminate, GenerationEnds
  <1>2. PICK p \in {"refused", "failed", "draining", "ended"}, f \in {r.fds, {}} :
           Become(g, [r EXCEPT !.phase = p, !.fds = f])
    <2>1. CASE BindRefused(g) BY <2>1 DEF BindRefused
    <2>2. CASE StartFails(g) BY <2>2 DEF StartFails
    <2>3. CASE GenerationEnds(g) BY <2>3 DEF GenerationEnds
    <2>4. CASE Terminate(g)
      <3>1. [r EXCEPT !.phase = "draining"] = [r EXCEPT !.phase = "draining", !.fds = r.fds]
        BY <1>1 DEF Generation
      <3> QED BY <2>4, <3>1 DEF Terminate
    <2> QED BY <2>1, <2>2, <2>3, <2>4
  <1> DEFINE n == [r EXCEPT !.phase = p, !.fds = f]
  <1> HIDE DEF r
  <1>3. n \in Generation /\ Bounded(n)
    BY <1>1 DEF Generation, Bounded
  <1> QED BY <1>1, <1>2, <1>3, BecomeHeld DEF r

\* Every step of every generation keeps the invariant.
LEMMA StepHeld ==
    ASSUME HeldInv, [Next]_vars
    PROVE  HeldInv'
  <1>1. ASSUME NEW c \in Config, Start(c) PROVE HeldInv'
    <2>1. Executed(c, <<>>, {}) \in Generation /\ Bounded(Executed(c, <<>>, {}))
      BY DEF Executed, Generation, Bounded
    <2> QED BY <1>1, <2>1, AppendHeld DEF Start
  <1>2. ASSUME NEW c \in Config, NEW g \in DOMAIN gens, Restart(g, c) PROVE HeldInv'
    BY <1>2, RestartHeld
  <1>3. ASSUME NEW g \in DOMAIN gens, Adopt(g) PROVE HeldInv'
    BY <1>3, AdoptHeld
  <1>4. ASSUME NEW g \in DOMAIN gens, Bind(g) PROVE HeldInv'
    BY <1>4, BindHeld
  <1>5. ASSUME NEW g \in DOMAIN gens, Serve(g) PROVE HeldInv'
    BY <1>5, ServeHeld
  <1>6. ASSUME NEW g \in DOMAIN gens,
               BindRefused(g) \/ StartFails(g) \/ Terminate(g) \/ GenerationEnds(g)
        PROVE  HeldInv'
    BY <1>6, OthersHeld
  <1>7. ASSUME UNCHANGED <<sockets, gens>> PROVE HeldInv'
    BY <1>7 DEF HeldInv, Bounded, Unused
  <1>8. ASSUME NEW s, Connect(s) PROVE HeldInv'
    BY <1>7, <1>8 DEF Connect
  <1>9. ASSUME NEW g, NEW s, Accept(g, s) PROVE HeldInv'
    BY <1>7, <1>9 DEF Accept
  <1> QED BY <1>1, <1>2, <1>3, <1>4, <1>5, <1>6, <1>7, <1>8, <1>9 DEF Next, vars

\* Whatever the configurations and however many restarts lie between, a generation that
\* serves holds no listening socket that it does not listen on: CloseUnusedOldListeners
\* closes all that was inherited and not adopted, and a restart passes on no other.
THEOREM NothingElseIsHeld == Spec => []HoldsNothingElse
  <1>1. Init => HeldInv
    BY DEF Init, HeldInv
  <1>2. HeldInv => HoldsNothingElse
    BY DEF HeldInv, HoldsNothingElse, Serving, Bounded
  <1> QED BY <1>1, <1>2, StepHeld, PTL DEF Spec

-----------------------------------------------------------------------------
(* Where a generation listens.                                             *)

\* What is inherited is held, once each, and what is not yet adopted is not listened on.
Intact(r, socks) ==
    /\ \A i \in DOMAIN r.old : r.old[i].sock \in DOMAIN socks /\ r.old[i].sock \in r.fds
    /\ \A i, j \in DOMAIN r.old : r.old[i].sock = r.old[j].sock => i = j
    /\ \A i \in DOMAIN r.old, k \in DOMAIN r.listen :
          r.old[i].ip # "" => r.old[i].sock # r.listen[k]

\* listen_session_list has the sockets of the sections dealt with, the last one first.
Placed(r, socks) ==
    /\ Len(r.listen) <= Len(r.conf)
    /\ \A i \in DOMAIN r.listen : /\ r.listen[i] \in DOMAIN socks
                                  /\ socks[r.listen[i]] = r.conf[Len(r.listen) - i + 1]
    /\ r.phase \in {"starting", "serving"} => \A i \in DOMAIN r.listen : r.listen[i] \in r.fds
    /\ r.phase = "starting" => Intact(r, socks)
    /\ r.phase = "serving" => Len(r.listen) = Len(r.conf)

PlacedInv == \A g \in DOMAIN gens : Placed(gens[g], sockets)

\* The sockets of a list that grew at its front are the new one and those it had.
LEMMA PrependCases ==
    ASSUME NEW S, NEW list \in Seq(S), NEW s \in S, NEW k \in DOMAIN (<<s>> \o list)
    PROVE  \/ k = 1 /\ (<<s>> \o list)[k] = s
           \/ k - 1 \in DOMAIN list /\ k # 1 /\ (<<s>> \o list)[k] = list[k - 1]
  OBVIOUS

\* The section that a listener of a complete list belongs to.
LEMMA SectionOfListener ==
    ASSUME NEW S, NEW T, NEW list \in Seq(S), NEW conf \in Seq(T), Len(list) = Len(conf),
           NEW i \in DOMAIN list
    PROVE  Len(list) - i + 1 \in DOMAIN conf
  OBVIOUS

\* Making a socket leaves the addresses of the others as they are.
LEMMA PlacedStays ==
    ASSUME NEW r \in Generation, NEW socks, NEW more,
           Placed(r, socks), \A s \in DOMAIN socks : s \in DOMAIN more /\ more[s] = socks[s]
    PROVE  Placed(r, more)
  BY DEF Placed, Intact

\* A new generation that fits keeps the invariant.
LEMMA AppendPlaced ==
    ASSUME HeldInv, PlacedInv, NEW r, Placed(r, sockets),
           UNCHANGED sockets, gens' = Append(gens, r)
    PROVE  PlacedInv'
  <1>1. gens \in Seq(Generation)
    BY DEF HeldInv
  <1>2. \A g \in DOMAIN gens' : (g \in DOMAIN gens /\ gens'[g] = gens[g]) \/ gens'[g] = r
    BY <1>1
  <1>3. \A g \in DOMAIN gens' : Placed(gens'[g], sockets)
    BY <1>2 DEF PlacedInv
  <1> QED BY <1>3 DEF PlacedInv

\* So does a generation that is replaced by one that fits, whether a socket is made or not.
LEMMA BecomePlaced ==
    ASSUME HeldInv, PlacedInv, NEW g \in DOMAIN gens, NEW r, Placed(r, sockets'),
           \A s \in DOMAIN sockets : s \in DOMAIN sockets' /\ sockets'[s] = sockets[s],
           Become(g, r)
    PROVE  PlacedInv'
  <1>1. ASSUME NEW h \in DOMAIN gens PROVE Placed(gens[h], sockets')
    <2>1. gens[h] \in Generation /\ Placed(gens[h], sockets)
      BY DEF HeldInv, PlacedInv
    <2> QED BY <2>1, PlacedStays
  <1>2. \A h \in DOMAIN gens' : h \in DOMAIN gens /\ (gens'[h] = gens[h] \/ gens'[h] = r)
    BY DEF Become
  <1> QED BY <1>1, <1>2 DEF PlacedInv

\* An adopted socket is one of the address that the section names.
LEMMA AdoptPlaced ==
    ASSUME OneAddressPerPort, HeldInv, PlacedInv, NEW g \in DOMAIN gens, Adopt(g)
    PROVE  PlacedInv'
  <1> DEFINE r == gens[g]
             a == Wanted(g)
             old == r.old
  <1>1. r \in Generation /\ Placed(r, sockets) /\ r.phase = "starting"
    BY DEF HeldInv, PlacedInv, Adopt, StillListening
  <1>2. PICK l \in GetListener(old, a) :
           Become(g, [r EXCEPT !.old = l.old, !.listen = <<l.sock>> \o @])
    BY DEF Adopt
  <1>3. UNCHANGED sockets /\ sockets \in Seq(Address)
    BY DEF Adopt, HeldInv
  <1>4. a = r.conf[Len(r.listen) + 1] /\ Len(r.listen) < Len(r.conf)
    BY DEF Wanted, Adopt, StillListening
  <1> DEFINE n == [r EXCEPT !.old = l.old, !.listen = <<l.sock>> \o @]
  <1> HIDE DEF r, a
  <1>5. r.listen \in Seq(Nat) /\ old \in Seq(OldSocket) /\ r.conf \in Seq(Address)
    BY <1>1, GracefulRestartAssumption DEF Generation
  <1> HIDE DEF old
  <1>6. Marks(old, a, l)
    BY <1>2, <1>5, GetListenerMarks
  <1>7. PICK m \in DOMAIN old :
           /\ Matches(old[m], a)
           /\ l.sock = old[m].sock /\ l.sock \in Nat
           /\ DOMAIN l.old = DOMAIN old
           /\ l.old[m].sock = old[m].sock /\ l.old[m].ip = ""
           /\ \A j \in DOMAIN old \ {m} : l.old[j] = old[j]
    BY <1>6 DEF Marks
  <1>8. Intact(r, sockets)
    BY <1>1 DEF Placed
  <1>9. sockets[l.sock] = a /\ l.sock \in DOMAIN sockets /\ l.sock \in r.fds
    <2>1. l.sock \in DOMAIN sockets /\ l.sock \in r.fds
      BY <1>7, <1>8 DEF Intact, old
    <2>2. old[m] \in OldSocket
      BY <1>5, SeqElems
    <2>3. a.ip = "" /\ sockets[l.sock].port = a.port
      BY <1>7, <2>2 DEF Matches, OldSocket
    <2>4. a \in Address /\ sockets[l.sock] \in Address
      BY <1>3, <1>4, <1>5, <2>1
    <2> QED BY <2>1, <2>3, <2>4 DEF OneAddressPerPort
  <1> DEFINE s == l.sock
             list == <<s>> \o r.listen
  <1>10. /\ n.phase = "starting" /\ n.fds = r.fds /\ n.old = l.old
         /\ n.listen = list /\ n.conf = r.conf
    BY <1>1 DEF Generation
  <1>11. s \in Nat
    BY <1>7
  <1> HIDE DEF s
  <1>12. Len(list) = Len(r.listen) + 1 /\ Len(r.listen) \in Nat /\ Len(r.conf) \in Nat
    BY <1>5, <1>11, PrependElems
  <1>13. ASSUME NEW k \in DOMAIN list
         PROVE  \/ k = 1 /\ list[k] = s
                \/ k - 1 \in DOMAIN r.listen /\ k # 1 /\ list[k] = r.listen[k - 1]
    BY <1>5, <1>11, PrependCases
  <1>14. DOMAIN list \subseteq Nat
    BY <1>5, <1>11
  <1> HIDE DEF list, n
  <1>15. ASSUME NEW k \in DOMAIN list
         PROVE  /\ list[k] \in DOMAIN sockets /\ list[k] \in r.fds
                /\ sockets[list[k]] = r.conf[Len(list) - k + 1]
    <2>1. CASE k = 1
      <3>1. list[k] = s /\ Len(list) - k + 1 = Len(r.listen) + 1
        BY <1>12, <1>13, <2>1
      <3> QED BY <1>4, <1>9, <3>1 DEF s
    <2>2. CASE k # 1
      <3>1. k - 1 \in DOMAIN r.listen /\ list[k] = r.listen[k - 1]
        BY <1>13, <2>2
      <3>2. Len(list) - k + 1 = Len(r.listen) - (k - 1) + 1
        BY <1>12, <1>14
      <3> QED BY <1>1, <3>1, <3>2 DEF Placed
    <2> QED BY <2>1, <2>2
  <1>16. Intact(n, sockets)
    <2>1. \A i \in DOMAIN l.old : l.old[i].sock = old[i].sock /\ i \in DOMAIN old
      BY <1>7
    <2>2. ASSUME NEW i \in DOMAIN l.old, NEW k \in DOMAIN list, l.old[i].ip # ""
          PROVE  l.old[i].sock # list[k]
      <3>1. i # m /\ i \in DOMAIN old /\ l.old[i] = old[i]
        BY <1>7, <2>2
      <3>2. l.old[i].sock # l.sock
        BY <1>7, <1>8, <3>1 DEF Intact, old
      <3>3. \A j \in DOMAIN r.listen : l.old[i].sock # r.listen[j]
        BY <1>8, <2>2, <3>1 DEF Intact, old
      <3> QED BY <1>13, <3>2, <3>3 DEF s
    <2>3. \A i \in DOMAIN l.old : l.old[i].sock \in DOMAIN sockets /\ l.old[i].sock \in r.fds
      BY <1>8, <2>1 DEF Intact, old
    <2>4. \A i, j \in DOMAIN l.old : l.old[i].sock = l.old[j].sock => i = j
      BY <1>8, <2>1 DEF Intact, old
    <2> QED BY <1>10, <2>2, <2>3, <2>4 DEF Intact
  <1>17. Placed(n, sockets)
    BY <1>4, <1>10, <1>12, <1>15, <1>16 DEF Placed
  <1> QED BY <1>2, <1>3, <1>17, BecomePlaced DEF n, r

\* A socket that is made is none of the inherited ones.
LEMMA BindPlaced ==
    ASSUME HeldInv, PlacedInv, NEW g \in DOMAIN gens, Bind(g)
    PROVE  PlacedInv'
  <1> DEFINE r == gens[g]
             a == Wanted(g)
             s == Len(sockets) + 1
             n == [r EXCEPT !.listen = <<s>> \o @, !.fds = @ \cup {s}]
  <1>1. r \in Generation /\ Placed(r, sockets) /\ r.phase = "starting"
    BY DEF HeldInv, PlacedInv, Bind, StillListening
  <1>2. Become(g, n) /\ sockets' = Append(sockets, a) /\ sockets \in Seq(Address)
    BY DEF HeldInv, Bind
  <1>3. a = r.conf[Len(r.listen) + 1] /\ Len(r.listen) < Len(r.conf)
    BY DEF Wanted, Bind, StillListening
  <1>4. /\ s \in Nat /\ s \notin DOMAIN sockets
        /\ \A x \in DOMAIN sockets : x \in DOMAIN sockets' /\ sockets'[x] = sockets[x]
        /\ s \in DOMAIN sockets' /\ sockets'[s] = a
    BY <1>2
  <1> HIDE DEF r, a, s
  <1>5. r.listen \in Seq(Nat) /\ r.conf \in Seq(Address)
    BY <1>1, GracefulRestartAssumption DEF Generation
  <1> DEFINE list == <<s>> \o r.listen
  <1>6. /\ n.phase = "starting" /\ n.fds = r.fds \cup {s} /\ n.old = r.old
        /\ n.listen = list /\ n.conf = r.conf
    BY <1>1 DEF Generation
  <1>7. Len(list) = Len(r.listen) + 1 /\ Len(r.listen) \in Nat /\ Len(r.conf) \in Nat
    BY <1>4, <1>5, PrependElems
  <1>8. \A k \in DOMAIN list : \/ k = 1 /\ list[k] = s
                               \/ k - 1 \in DOMAIN r.listen /\ k # 1 /\ list[k] = r.listen[k - 1]
    BY <1>4, <1>5, PrependCases
  <1>9. DOMAIN list \subseteq Nat
    BY <1>4, <1>5
  <1>10. Placed(r, sockets')
    BY <1>1, <1>4, PlacedStays
  <1> HIDE DEF list, n
  <1>11. ASSUME NEW k \in DOMAIN list
         PROVE  /\ list[k] \in DOMAIN sockets' /\ list[k] \in n.fds
                /\ sockets'[list[k]] = r.conf[Len(list) - k + 1]
    <2>1. CASE k = 1
      <3>1. list[k] = s /\ Len(list) - k + 1 = Len(r.listen) + 1
        BY <1>7, <1>8, <2>1
      <3> QED BY <1>3, <1>4, <1>6, <3>1
    <2>2. CASE k # 1
      <3>1. k - 1 \in DOMAIN r.listen /\ list[k] = r.listen[k - 1]
        BY <1>8, <2>2
      <3>2. Len(list) - k + 1 = Len(r.listen) - (k - 1) + 1
        BY <1>7, <1>9
      <3> QED BY <1>1, <1>6, <1>10, <3>1, <3>2 DEF Placed
    <2> QED BY <2>1, <2>2
  <1>12. Intact(n, sockets')
    <2>1. Intact(r, sockets')
      BY <1>1, <1>10 DEF Placed
    <2>2. \A i \in DOMAIN r.old : r.old[i].sock # s
      BY <1>1, <1>4 DEF Placed, Intact
    <2>3. ASSUME NEW i \in DOMAIN r.old, NEW k \in DOMAIN list, r.old[i].ip # ""
          PROVE  r.old[i].sock # list[k]
      <3>1. \A j \in DOMAIN r.listen : r.old[i].sock # r.listen[j]
        BY <2>1, <2>3 DEF Intact
      <3> QED BY <1>8, <2>2, <3>1
    <2> QED BY <1>6, <2>1, <2>3 DEF Intact
  <1>13. Placed(n, sockets')
    BY <1>3, <1>6, <1>7, <1>11, <1>12 DEF Placed
  <1> QED BY <1>2, <1>4, <1>13, BecomePlaced DEF n, r

\* The sockets that are handed over are different ones, because the sections are.
LEMMA RestartPlaced ==
    ASSUME DistinctSections, HeldInv, PlacedInv,
           NEW g \in DOMAIN gens, NEW c \in Config, Restart(g, c)
    PROVE  PlacedInv'
  <1> DEFINE r == gens[g]
             old == [i \in DOMAIN r.listen |-> [sock |-> r.listen[i], ip |-> "text"]]
             n == Executed(c, old, r.fds)
  <1>1. r \in Generation /\ Placed(r, sockets) /\ r.phase = "serving"
    BY DEF HeldInv, PlacedInv, Restart, Serving
  <1>2. gens' = Append(gens, n) /\ UNCHANGED sockets
    BY DEF Restart, LoadOldListenSockets, SaveListenSockets
  <1> HIDE DEF r
  <1>3. r.listen \in Seq(Nat) /\ r.conf \in Config /\ r.conf \in Seq(Address) /\ c \in Seq(Address)
    BY <1>1, GracefulRestartAssumption DEF Generation
  <1>4. DOMAIN old = DOMAIN r.listen /\ \A i \in DOMAIN old : old[i].sock = r.listen[i]
    OBVIOUS
  <1>5. ASSUME NEW i \in DOMAIN r.listen, NEW j \in DOMAIN r.listen, r.listen[i] = r.listen[j]
        PROVE  i = j
    <2>1. /\ Len(r.listen) = Len(r.conf)
          /\ r.conf[Len(r.listen) - i + 1] = sockets[r.listen[i]]
          /\ r.conf[Len(r.listen) - j + 1] = sockets[r.listen[j]]
      BY <1>1 DEF Placed
    <2>2. Len(r.listen) - i + 1 \in DOMAIN r.conf /\ Len(r.listen) - j + 1 \in DOMAIN r.conf
      BY <1>3, <2>1, SectionOfListener
    <2>3. Len(r.listen) - i + 1 = Len(r.listen) - j + 1
      BY <1>3, <1>5, <2>1, <2>2 DEF DistinctSections
    <2> QED BY <1>3, <2>3
  <1> HIDE DEF old
  <1>6. Intact(n, sockets)
    BY <1>1, <1>4, <1>5 DEF Intact, Placed, Executed
  <1>7. Placed(n, sockets)
    BY <1>3, <1>6 DEF Placed, Executed
  <1> QED BY <1>2, <1>7, AppendPlaced

\* What is closed is not listened on.
LEMMA ServePlaced ==
    ASSUME HeldInv, PlacedInv, NEW g \in DOMAIN gens, Serve(g)
    PROVE  PlacedInv'
  <1> DEFINE r == gens[g]
             n == [CloseUnusedOldListeners(r) EXCEPT !.phase = "serving", !.old = <<>>]
             u == Unused(r)
  <1>1. r \in Generation /\ Placed(r, sockets) /\ r.phase = "starting"
    BY DEF HeldInv, PlacedInv, Serve
  <1>2. /\ Become(g, n) /\ UNCHANGED sockets
        /\ ~ Len(r.listen) < Len(r.conf)
    BY <1>1 DEF Serve, StillListening
  <1> HIDE DEF r
  <1>3. n = [r EXCEPT !.fds = @ \ u, !.phase = "serving", !.old = <<>>]
    BY DEF CloseUnusedOldListeners, Unused
  <1>4. Len(r.listen) \in Nat /\ Len(r.conf) \in Nat
    BY <1>1, GracefulRestartAssumption DEF Generation
  <1>5. \A k \in DOMAIN r.listen : r.listen[k] \notin u
    <2>1. Intact(r, sockets)
      BY <1>1 DEF Placed
    <2> SUFFICES ASSUME NEW k \in DOMAIN r.listen, r.listen[k] \in u PROVE FALSE
      OBVIOUS
    <2>2. PICK i \in DOMAIN r.old : r.listen[k] = r.old[i].sock /\ r.old[i].ip # ""
      BY DEF Unused, ToSet
    <2> QED BY <2>1, <2>2 DEF Intact
  <1> HIDE DEF n, u
  <1>6. /\ n.phase = "serving" /\ n.listen = r.listen /\ n.conf = r.conf /\ n.fds = r.fds \ u
    BY <1>1, <1>3 DEF Generation
  <1>7. Placed(n, sockets)
    BY <1>1, <1>2, <1>4, <1>5, <1>6 DEF Placed
  <1> QED BY <1>2, <1>7, BecomePlaced DEF r, n

\* A generation that ends keeps its list.
LEMMA OthersPlaced ==
    ASSUME HeldInv, PlacedInv, NEW g \in DOMAIN gens,
           BindRefused(g) \/ StartFails(g) \/ Terminate(g) \/ GenerationEnds(g)
    PROVE  PlacedInv'
  <1> DEFINE r == gens[g]
  <1>1. r \in Generation /\ Placed(r, sockets) /\ UNCHANGED sockets
    BY DEF HeldInv, PlacedInv, BindRefused, StartFails, Terminate, GenerationEnds
  <1>2. PICK n \in {[r EXCEPT !.phase = "refused", !.fds = {}],
                    [r EXCEPT !.phase = "failed", !.fds = {}],
                    [r EXCEPT !.phase = "ended", !.fds = {}],
                    [r EXCEPT !.phase = "draining"]} : Become(g, n)
    BY DEF BindRefused, StartFails, Terminate, GenerationEnds
  <1> HIDE DEF r
  <1>3. /\ n.phase \notin {"starting", "serving"}
        /\ n.listen = r.listen /\ n.conf = r.conf
    BY <1>1, <1>2 DEF Generation
  <1>4. Placed(n, sockets)
    BY <1>1, <1>3 DEF Placed
  <1> QED BY <1>1, <1>2, <1>4, BecomePlaced DEF r

\* Every step of every generation keeps the invariant.
LEMMA StepPlaced ==
    ASSUME OneAddressPerPort, DistinctSections, HeldInv, PlacedInv, [Next]_vars
    PROVE  PlacedInv'
  <1>1. ASSUME NEW c \in Config, Start(c) PROVE PlacedInv'
    <2>1. Placed(Executed(c, <<>>, {}), sockets)
      <3>1. Len(c) \in Nat
        BY GracefulRestartAssumption
      <3> QED BY <3>1 DEF Executed, Placed, Intact
    <2> QED BY <1>1, <2>1, AppendPlaced DEF Start
  <1>2. ASSUME NEW c \in Config, NEW g \in DOMAIN gens, Restart(g, c) PROVE PlacedInv'
    BY <1>2, RestartPlaced
  <1>3. ASSUME NEW g \in DOMAIN gens, Adopt(g) PROVE PlacedInv'
    BY <1>3, AdoptPlaced
  <1>4. ASSUME NEW g \in DOMAIN gens, Bind(g) PROVE PlacedInv'
    BY <1>4, BindPlaced
  <1>5. ASSUME NEW g \in DOMAIN gens, Serve(g) PROVE PlacedInv'
    BY <1>5, ServePlaced
  <1>6. ASSUME NEW g \in DOMAIN gens,
               BindRefused(g) \/ StartFails(g) \/ Terminate(g) \/ GenerationEnds(g)
        PROVE  PlacedInv'
    BY <1>6, OthersPlaced
  <1>7. ASSUME UNCHANGED <<sockets, gens>> PROVE PlacedInv'
    BY <1>7 DEF PlacedInv
  <1>8. ASSUME NEW s, Connect(s) PROVE PlacedInv'
    BY <1>7, <1>8 DEF Connect
  <1>9. ASSUME NEW g, NEW s, Accept(g, s) PROVE PlacedInv'
    BY <1>7, <1>9 DEF Accept
  <1> QED BY <1>1, <1>2, <1>3, <1>4, <1>5, <1>6, <1>7, <1>8, <1>9 DEF Next, vars

\* The list of a generation that serves is complete, and its listeners are held.
LEMMA PlacedListens ==
    ASSUME HeldInv, PlacedInv
    PROVE  ListensWhereConfigured
  <1> SUFFICES ASSUME NEW g \in Serving, NEW k \in DOMAIN gens[g].conf
               PROVE  \E s \in gens[g].fds :
                         s \in ToSet(gens[g].listen) /\ sockets[s] = gens[g].conf[k]
    BY DEF ListensWhereConfigured
  <1> DEFINE r == gens[g]
             i == Len(r.conf) - k + 1
  <1>1. r \in Generation /\ Placed(r, sockets) /\ r.phase = "serving"
    BY DEF HeldInv, PlacedInv, Serving
  <1> HIDE DEF r
  <1>2. r.listen \in Seq(Nat) /\ r.conf \in Seq(Address) /\ k \in DOMAIN r.conf
    BY <1>1, GracefulRestartAssumption DEF Generation, r
  <1>3. Len(r.listen) = Len(r.conf)
    BY <1>1 DEF Placed
  <1>4. i \in DOMAIN r.listen /\ Len(r.listen) - i + 1 = k
    BY <1>2, <1>3
  <1>5. r.listen[i] \in r.fds /\ sockets[r.listen[i]] = r.conf[k]
    BY <1>1, <1>4 DEF Placed
  <1>6. r.listen[i] \in ToSet(r.listen)
    BY <1>4 DEF ToSet
  <1> QED BY <1>5, <1>6 DEF r

\* If a port asked for on every address of the host is asked for on no single one, and no
\* configuration names an address twice, a generation that serves listens on every address
\* of its configuration, whatever was adopted, made or closed in InitListenEnvirment and
\* CloseUnusedOldListeners, and after any number of restarts and of failed ones.
THEOREM ListensWhereToldTo ==
    ASSUME OneAddressPerPort, DistinctSections
    PROVE  Spec => []ListensWhereConfigured
  <1>1. Init => HeldInv /\ PlacedInv
    BY DEF Init, HeldInv, PlacedInv
  <1>2. HeldInv /\ PlacedInv /\ [Next]_vars => HeldInv' /\ PlacedInv'
    BY StepHeld, StepPlaced
  <1>3. HeldInv /\ PlacedInv => ListensWhereConfigured
    BY PlacedListens
  <1> QED BY <1>1, <1>2, <1>3, PTL DEF Spec

-----------------------------------------------------------------------------
(* What the generations share.                                             *)

AllHeld == UNION {gens[g].fds : g \in DOMAIN gens}
Inherited(r) == {r.old[i].sock : i \in DOMAIN r.old}

\* A generation that is gone holds nothing, and what one has taken it listens on.
Tidy(r) ==
    /\ r.phase \in {"ended", "refused", "failed"} => r.fds = {}
    /\ r.phase = "starting" =>
          \A i \in DOMAIN r.old : r.old[i].ip = "" => r.old[i].sock \in ToSet(r.listen)

\* While a generation starts, no other one does, and what the others hold it has inherited.
Heir(g) ==
    gens[g].phase = "starting" =>
        \A h \in DOMAIN gens \ {g} : /\ gens[h].phase # "starting"
                                     /\ gens[h].fds \subseteq Inherited(gens[g])

\* No two sockets that are held are bound to one address.
OnePerAddress == \A s, t \in AllHeld : sockets[s] = sockets[t] => s = t

SharedInv ==
    /\ backlog \subseteq AllHeld
    /\ AllHeld \subseteq DOMAIN sockets
    /\ OnePerAddress
    /\ \A g \in DOMAIN gens : Tidy(gens[g]) /\ Heir(g)
    /\ RefusedOnlyExplicit

\* A set of natural numbers that is not empty has a least element.
LEMMA Least ==
    ASSUME NEW T \in SUBSET Nat, T # {}
    PROVE  \E x \in T : \A y \in T : x <= y
  <1>1. \A x, y \in Nat : <<x, y>> \in OpToRel(<, Nat) <=> x < y
    BY DEF OpToRel
  <1>2. PICK x \in T : \A y \in T : ~ (<<y, x>> \in OpToRel(<, Nat))
    BY NatLessThanWellFounded, WFMin, Zenon
  <1>3. \A y \in T : ~ (y < x)
    BY <1>1, <1>2
  <1> QED BY <1>3

\* GetListener finds a socket if any of the array matches.
LEMMA GetListenerFinds ==
    ASSUME NEW old \in Seq(OldSocket), NEW a, NEW i \in DOMAIN old, Matches(old[i], a)
    PROVE  GetListener(old, a) # {}
  <1> DEFINE T == {j \in DOMAIN old : Matches(old[j], a)}
  <1>1. T \in SUBSET Nat /\ i \in T
    OBVIOUS
  <1>2. PICK m \in T : \A j \in T : m <= j
    <2> HIDE DEF T
    <2> QED BY <1>1, Least
  <1>3. m \in DOMAIN old /\ Matches(old[m], a) /\ m \in Nat
    OBVIOUS
  <1>4. ASSUME NEW k \in 1 .. m - 1 PROVE ~ Matches(old[k], a)
    <2>1. k \in DOMAIN old /\ ~ (m <= k)
      BY <1>3, <1>4
    <2> QED BY <1>2, <2>1
  <1> QED BY <1>3, <1>4 DEF GetListener

-----------------------------------------------------------------------------
(* A new generation, and one that changes.                                 *)

\* A new generation that inherits all that is held, from others that do not start.
LEMMA AppendShared ==
    ASSUME HeldInv, SharedInv, NEW r \in Generation, gens' = Append(gens, r),
           UNCHANGED <<sockets, backlog>>,
           r.phase = "starting", Tidy(r), r.fds \subseteq AllHeld,
           \A h \in DOMAIN gens : /\ gens[h].phase # "starting"
                                  /\ gens[h].fds \subseteq Inherited(r)
    PROVE  SharedInv'
  <1>1. gens \in Seq(Generation)
    BY DEF HeldInv
  <1> DEFINE n == Len(gens) + 1
  <1>2. /\ n \notin DOMAIN gens /\ DOMAIN gens' = DOMAIN gens \cup {n} /\ gens'[n] = r
        /\ \A g \in DOMAIN gens : gens'[g] = gens[g]
    BY <1>1
  <1> HIDE DEF n
  <1>3. AllHeld' = AllHeld
    BY <1>2 DEF AllHeld
  <1>4. \A g \in DOMAIN gens' : Tidy(gens'[g])
    BY <1>2 DEF SharedInv
  <1>5. \A g \in DOMAIN gens' : Heir(g)'
    BY <1>2 DEF Heir
  <1>6. RefusedOnlyExplicit'
    BY <1>2 DEF SharedInv, RefusedOnlyExplicit, Wanted
  <1> QED BY <1>3, <1>4, <1>5, <1>6 DEF SharedInv, OnePerAddress

\* A generation that makes no socket, and hands none to the others.
LEMMA BecomeShared ==
    ASSUME HeldInv, SharedInv, NEW g \in DOMAIN gens, NEW r \in Generation, Become(g, r),
           UNCHANGED sockets, r.fds \subseteq gens[g].fds, Tidy(r),
           r.phase = "starting" => /\ gens[g].phase = "starting"
                                   /\ Inherited(r) = Inherited(gens[g]),
           r.phase = "refused" => Wanted(g)'.ip # ""
    PROVE  SharedInv'
  <1>1. /\ DOMAIN gens' = DOMAIN gens /\ gens'[g] = r
        /\ \A h \in DOMAIN gens \ {g} : gens'[h] = gens[h]
        /\ backlog' \subseteq AllHeld'
    BY DEF HeldInv, Become, AllHeld
  <1>2. AllHeld' \subseteq AllHeld
    BY <1>1 DEF AllHeld
  <1>3. \A h \in DOMAIN gens' : Tidy(gens'[h])
    BY <1>1 DEF SharedInv
  <1>4. ASSUME NEW h \in DOMAIN gens' PROVE Heir(h)'
    <2>1. Heir(h) /\ Heir(g)
      BY <1>1 DEF SharedInv
    <2>2. CASE h = g
      BY <1>1, <2>1, <2>2 DEF Heir
    <2>3. CASE h # g
      <3>1. gens'[h] = gens[h] /\ h \in DOMAIN gens
        BY <1>1, <2>3
      <3> QED BY <1>1, <2>1, <2>3, <3>1 DEF Heir
    <2> QED BY <2>2, <2>3
  <1>5. RefusedOnlyExplicit'
    BY <1>1 DEF SharedInv, RefusedOnlyExplicit, Wanted
  <1> QED BY <1>1, <1>2, <1>3, <1>4, <1>5 DEF SharedInv, OnePerAddress

-----------------------------------------------------------------------------
(* The steps.                                                              *)

\* What nobody held is held by nobody: the generations that are gone hold nothing.
LEMMA HeldByLive ==
    ASSUME HeldInv, SharedInv
    PROVE  AllHeld = Held
  <1>1. ASSUME NEW g \in DOMAIN gens, gens[g].fds # {} PROVE g \in Live
    <2>1. gens[g] \in Generation /\ Tidy(gens[g])
      BY DEF HeldInv, SharedInv
    <2> QED BY <1>1, <2>1 DEF Generation, Tidy, Live
  <1> QED BY <1>1 DEF AllHeld, Held, Live

\* The first generation finds nothing that is held.
LEMMA StartShared ==
    ASSUME HeldInv, SharedInv, NEW c \in Config, Start(c)
    PROVE  SharedInv'
  <1> DEFINE r == Executed(c, <<>>, {})
  <1>1. /\ r \in Generation /\ Tidy(r) /\ r.phase = "starting"
        /\ r.fds \subseteq AllHeld
    BY DEF Executed, Generation, Tidy
  <1>2. gens' = Append(gens, r) /\ UNCHANGED <<sockets, backlog>> /\ Live = {}
    BY DEF Start
  <1> HIDE DEF r
  <1>3. ASSUME NEW h \in DOMAIN gens
        PROVE  gens[h].phase # "starting" /\ gens[h].fds \subseteq Inherited(r)
    <2>1. AllHeld = {}
      BY <1>2, HeldByLive DEF Held
    <2> QED BY <1>2, <2>1 DEF Live, AllHeld
  <1> QED BY <1>1, <1>2, <1>3, AppendShared

\* The next one inherits all that the only one that is left holds.
LEMMA RestartShared ==
    ASSUME HeldInv, SharedInv, NEW g \in DOMAIN gens, NEW c \in Config, Restart(g, c)
    PROVE  SharedInv'
  <1> DEFINE p == gens[g]
             old == LoadOldListenSockets(SaveListenSockets(p.listen))
             r == Executed(c, old, p.fds)
  <1>1. gens' = Append(gens, r) /\ UNCHANGED <<sockets, backlog>> /\ Live = {g}
    BY DEF Restart
  <1>2. p \in Generation /\ p.phase = "serving" /\ p.fds \subseteq ToSet(p.listen)
    BY DEF Restart, Serving, HeldInv, Bounded
  <1>3. p.fds \subseteq AllHeld
    BY DEF AllHeld
  <1>4. r \in Generation
    <2>1. gens' \in Seq(Generation)
      BY RestartHeld DEF HeldInv
    <2>2. Len(gens) + 1 \in DOMAIN gens' /\ gens'[Len(gens) + 1] = r
      BY <1>1 DEF HeldInv
    <2> HIDE DEF r
    <2> QED BY <2>1, <2>2
  <1> HIDE DEF p
  <1>5. DOMAIN old = DOMAIN p.listen
        /\ \A i \in DOMAIN old : old[i].sock = p.listen[i] /\ old[i].ip # ""
    BY DEF LoadOldListenSockets, SaveListenSockets
  <1>6. r.phase = "starting" /\ r.old = old /\ r.fds = p.fds
    BY DEF Executed
  <1> HIDE DEF r, old
  <1>7. Tidy(r)
    BY <1>5, <1>6 DEF Tidy
  <1>8. ToSet(p.listen) \subseteq Inherited(r)
    BY <1>5, <1>6 DEF Inherited, ToSet
  <1>9. ASSUME NEW h \in DOMAIN gens
        PROVE  gens[h].phase # "starting" /\ gens[h].fds \subseteq Inherited(r)
    <2>1. CASE h = g
      BY <1>2, <1>8, <2>1 DEF p
    <2>2. CASE h # g
      <3>1. gens[h] \in Generation /\ Tidy(gens[h]) /\ h \notin Live
        BY <1>1, <2>2 DEF HeldInv, SharedInv
      <3> QED BY <3>1 DEF Generation, Tidy, Live
    <2> QED BY <2>1, <2>2
  <1> QED BY <1>1, <1>3, <1>4, <1>6, <1>7, <1>9, AppendShared

\* What has been taken out of the array has been put in the list.
LEMMA AdoptShared ==
    ASSUME HeldInv, SharedInv, NEW g \in DOMAIN gens, Adopt(g)
    PROVE  SharedInv'
  <1> DEFINE r == gens[g]
             old == r.old
             a == Wanted(g)
  <1>1. r \in Generation /\ Tidy(r) /\ r.phase = "starting"
    BY DEF HeldInv, SharedInv, Adopt, StillListening
  <1>2. PICK l \in GetListener(old, a) :
           Become(g, [r EXCEPT !.old = l.old, !.listen = <<l.sock>> \o @])
    BY DEF Adopt
  <1> DEFINE n == [r EXCEPT !.old = l.old, !.listen = <<l.sock>> \o @]
             list == <<l.sock>> \o r.listen
  <1>3. old \in Seq(OldSocket) /\ r.listen \in Seq(Nat)
    BY <1>1 DEF Generation
  <1>4. n \in Generation
    <2>1. n = gens'[g] /\ g \in DOMAIN gens'
      BY <1>2 DEF Become, HeldInv
    <2>2. gens' \in Seq(Generation)
      BY AdoptHeld DEF HeldInv
    <2> HIDE DEF n
    <2> QED BY <2>1, <2>2
  <1>5. n.phase = r.phase /\ n.fds = r.fds /\ n.old = l.old /\ n.listen = list
    BY <1>1 DEF Generation
  <1> HIDE DEF r, a, n, old
  <1>6. Marks(old, a, l)
    BY <1>2, <1>3, GetListenerMarks
  <1>7. PICK i \in DOMAIN old :
           /\ l.sock = old[i].sock /\ l.sock \in Nat
           /\ DOMAIN l.old = DOMAIN old
           /\ l.old[i].sock = old[i].sock
           /\ \A j \in DOMAIN old \ {i} : l.old[j] = old[j]
    BY <1>6 DEF Marks
  <1>8. ToSet(list) = ToSet(r.listen) \cup {l.sock}
    BY <1>3, <1>7, PrependElems
  <1> HIDE DEF list
  <1>9. Tidy(n)
    <2> SUFFICES ASSUME NEW j \in DOMAIN l.old, l.old[j].ip = ""
                 PROVE  l.old[j].sock \in ToSet(list)
      BY <1>1, <1>5 DEF Tidy
    <2>1. CASE j = i
      BY <1>7, <1>8, <2>1
    <2>2. CASE j # i
      <3>1. l.old[j] = old[j] /\ j \in DOMAIN old
        BY <1>7, <2>2
      <3> QED BY <1>1, <1>8, <3>1 DEF Tidy, old
    <2> QED BY <2>1, <2>2
  <1>10. Inherited(n) = Inherited(r)
    <2>1. \A j \in DOMAIN old : l.old[j].sock = old[j].sock
      BY <1>7
    <2> QED BY <1>5, <1>7, <2>1 DEF Inherited, old
  <1> QED BY <1>1, <1>2, <1>4, <1>5, <1>9, <1>10, BecomeShared DEF Adopt, r, n

\* A socket that is made is bound to an address that nobody holds.
LEMMA BindShared ==
    ASSUME HeldInv, SharedInv, NEW g \in DOMAIN gens, Bind(g)
    PROVE  SharedInv'
  <1> DEFINE r == gens[g]
             s == Len(sockets) + 1
             a == Wanted(g)
             n == [r EXCEPT !.listen = <<s>> \o @, !.fds = @ \cup {s}]
             list == <<s>> \o r.listen
  <1>1. r \in Generation /\ Tidy(r) /\ r.phase = "starting" /\ sockets \in Seq(Address)
    BY DEF HeldInv, SharedInv, Bind, StillListening
  <1>2. Become(g, n) /\ sockets' = Append(sockets, a) /\ ~ InUse(a)
    BY DEF Bind
  <1>3. s \in Nat /\ r.listen \in Seq(Nat)
    BY <1>1 DEF Generation
  <1>4. /\ s \notin DOMAIN sockets /\ s \in DOMAIN sockets' /\ sockets'[s] = a
        /\ \A t \in DOMAIN sockets : t \in DOMAIN sockets' /\ sockets'[t] = sockets[t]
    BY <1>1, <1>2
  <1>5. \A t \in AllHeld : t \in DOMAIN sockets /\ sockets[t] # a
    BY <1>2, HeldByLive DEF SharedInv, InUse
  <1>6. n.phase = r.phase /\ n.fds = r.fds \cup {s} /\ n.old = r.old /\ n.listen = list
    BY <1>1 DEF Generation
  <1> HIDE DEF s, a, n
  <1>7. /\ DOMAIN gens' = DOMAIN gens /\ gens'[g] = n
        /\ \A h \in DOMAIN gens \ {g} : gens'[h] = gens[h]
        /\ backlog' \subseteq AllHeld'
    BY <1>2 DEF HeldInv, Become, AllHeld
  <1> HIDE DEF r
  <1>8. AllHeld' = AllHeld \cup {s}
    BY <1>6, <1>7 DEF AllHeld, r
  <1>9. Tidy(n) /\ Inherited(n) = Inherited(r)
    <2>1. ToSet(r.listen) \subseteq ToSet(list)
      BY <1>3, PrependElems
    <2> HIDE DEF list
    <2> QED BY <1>1, <1>6, <2>1 DEF Tidy, Inherited
  <1>10. AllHeld' \subseteq DOMAIN sockets'
    BY <1>4, <1>5, <1>8
  <1>11. OnePerAddress'
    <2> SUFFICES ASSUME NEW t \in AllHeld', NEW u \in AllHeld', sockets'[t] = sockets'[u]
                 PROVE  t = u
      BY DEF OnePerAddress
    <2>1. CASE t \in AllHeld /\ u \in AllHeld
      BY <1>4, <1>5, <2>1 DEF SharedInv, OnePerAddress
    <2>2. CASE ~ (t \in AllHeld /\ u \in AllHeld)
      BY <1>4, <1>5, <1>8, <2>2
    <2> QED BY <2>1, <2>2
  <1>12. \A h \in DOMAIN gens' : Tidy(gens'[h])
    BY <1>7, <1>9 DEF SharedInv
  <1>13. ASSUME NEW h \in DOMAIN gens' PROVE Heir(h)'
    <2>1. Heir(h) /\ Heir(g)
      BY <1>7 DEF SharedInv
    <2>2. CASE h = g
      BY <1>1, <1>7, <1>9, <2>1, <2>2 DEF Heir, r
    <2>3. CASE h # g
      <3>1. gens'[h].phase # "starting"
        BY <1>1, <1>7, <2>1, <2>3 DEF Heir, r
      <3> QED BY <3>1 DEF Heir
    <2> QED BY <2>2, <2>3
  <1>14. RefusedOnlyExplicit'
    BY <1>1, <1>6, <1>7 DEF SharedInv, RefusedOnlyExplicit, Wanted
  <1> QED BY <1>7, <1>10, <1>11, <1>12, <1>13, <1>14 DEF SharedInv

\* Where a port belongs to one address, a socket on the port of a section for every address
\* of the host is either inherited and found by GetListener or belongs to an earlier section,
\* and that one would have the same address.
LEMMA RefusedExplicitly ==
    ASSUME OneAddressPerPort, DistinctSections, HeldInv, PlacedInv, SharedInv,
           NEW g \in DOMAIN gens, BindRefused(g)
    PROVE  Wanted(g).ip # ""
  <1> DEFINE r == gens[g]
             a == Wanted(g)
  <1> SUFFICES ASSUME a.ip = "" PROVE FALSE
    OBVIOUS
  <1>1. /\ r \in Generation /\ r.phase = "starting"
        /\ Bounded(r) /\ Placed(r, sockets) /\ Tidy(r) /\ Heir(g)
        /\ sockets \in Seq(Address)
    <2>1. r.phase = "starting"
      BY DEF BindRefused, StillListening
    <2>2. r \in Generation /\ Bounded(r) /\ Placed(r, sockets) /\ sockets \in Seq(Address)
      BY ONLY HeldInv, PlacedInv, g \in DOMAIN gens DEF HeldInv, PlacedInv
    <2>3. Tidy(r) /\ Heir(g)
      BY DEF SharedInv
    <2> QED BY <2>1, <2>2, <2>3
  <1>2. GetListener(r.old, a) = {} /\ InUse(a)
    BY DEF BindRefused
  <1>3. a = r.conf[Len(r.listen) + 1] /\ Len(r.listen) < Len(r.conf)
    BY DEF Wanted, BindRefused, StillListening
  <1>4. PICK s \in Held : sockets[s].port = a.port
    BY <1>2 DEF InUse
  <1>5. s \in AllHeld /\ s \in DOMAIN sockets /\ sockets[s] \in Address
    <2>1. s \in AllHeld /\ s \in DOMAIN sockets
      BY <1>4, HeldByLive, Zenon DEF SharedInv
    <2> HIDE DEF r, a
    <2> QED BY ONLY <1>1, <2>1
  <1>6. s \in ToSet(r.listen) \cup Inherited(r)
    <2>1. PICK h \in DOMAIN gens : s \in gens[h].fds
      BY <1>5 DEF AllHeld
    <2>2. CASE h = g
      <3>1. s \in ToSet(r.listen) \cup Unused(r)
        BY <1>1, <2>1, <2>2 DEF Bounded
      <3>2. Unused(r) \subseteq Inherited(r)
        BY DEF Unused, Inherited, ToSet
      <3> QED BY <3>1, <3>2
    <2>3. CASE h # g
      BY <1>1, <2>1, <2>3 DEF Heir
    <2> QED BY <2>2, <2>3
  <1> HIDE DEF r, a
  <1>7. /\ r.conf \in Config /\ r.conf \in Seq(Address)
        /\ r.listen \in Seq(Nat) /\ r.old \in Seq(OldSocket)
    BY <1>1, GracefulRestartAssumption DEF Generation
  <1>8. ASSUME NEW i \in DOMAIN r.old, s = r.old[i].sock PROVE r.old[i].ip = ""
    <2>1. Matches(r.old[i], a)
      BY <1>4, <1>8 DEF Matches
    <2> QED BY <1>2, <1>7, <2>1, GetListenerFinds
  <1>9. s \in ToSet(r.listen)
    BY <1>1, <1>6, <1>8 DEF Tidy, Inherited
  <1>10. PICK k \in DOMAIN r.listen : s = r.listen[k]
    BY <1>9 DEF ToSet
  <1> DEFINE i == Len(r.listen) - k + 1
             j == Len(r.listen) + 1
  <1>11. i \in DOMAIN r.conf /\ j \in DOMAIN r.conf /\ i # j
    BY ONLY <1>3, <1>7, k \in DOMAIN r.listen
  <1>12. sockets[s] = r.conf[i]
    BY <1>1, <1>10 DEF Placed
  <1> HIDE DEF i
  <1>13. a = r.conf[j] /\ a \in Address
    BY ONLY <1>3, <1>7, <1>11
  <1> HIDE DEF j
  <1>14. sockets[s] = a
    BY <1>4, <1>5, <1>13 DEF OneAddressPerPort
  <1> QED BY <1>7, <1>11, <1>12, <1>13, <1>14 DEF DistinctSections

\* A generation that starts to serve, is refused, fails or ends gives up sockets at most.
LEMMA OthersShared ==
    ASSUME OneAddressPerPort, DistinctSections, HeldInv, PlacedInv, SharedInv,
           NEW g \in DOMAIN gens,
           \/ Serve(g) \/ BindRefused(g) \/ StartFails(g) \/ Terminate(g) \/ GenerationEnds(g)
    PROVE  SharedInv'
  <1> DEFINE r == gens[g]
             n == gens'[g]
  <1>1. r \in Generation
    BY DEF HeldInv
  <1>2. n \in Generation
    <2>1. HeldInv' /\ g \in DOMAIN gens'
      <3>1. HeldInv'
        BY ServeHeld, OthersHeld
      <3> QED BY <3>1 DEF HeldInv, Serve, BindRefused, StartFails, Terminate, GenerationEnds, Become
    <2> QED BY <2>1 DEF HeldInv
  <1>3. PICK m : /\ Become(g, m) /\ UNCHANGED sockets
                 /\ m.fds \subseteq r.fds /\ m.phase # "starting"
                 /\ m.phase \in {"ended", "refused", "failed"} => m.fds = {}
                 /\ m.phase = "refused" => BindRefused(g) /\ m.conf = r.conf /\ m.listen = r.listen
    <2>1. CASE Serve(g)
      <3> DEFINE m == [CloseUnusedOldListeners(r) EXCEPT !.phase = "serving", !.old = <<>>]
      <3>1. Become(g, m) /\ UNCHANGED sockets
        BY <2>1 DEF Serve
      <3>2. m.fds \subseteq r.fds /\ m.phase = "serving"
        BY <1>1 DEF Generation, CloseUnusedOldListeners
      <3> QED BY <3>1, <3>2
    <2>2. CASE BindRefused(g)
      <3> DEFINE m == [r EXCEPT !.phase = "refused", !.fds = {}]
      <3>1. Become(g, m) /\ UNCHANGED sockets
        BY <2>2 DEF BindRefused
      <3>2. m.fds = {} /\ m.phase = "refused" /\ m.conf = r.conf /\ m.listen = r.listen
        BY <1>1 DEF Generation
      <3> QED BY <2>2, <3>1, <3>2
    <2>3. CASE StartFails(g)
      <3> DEFINE m == [r EXCEPT !.phase = "failed", !.fds = {}]
      <3>1. Become(g, m) /\ UNCHANGED sockets
        BY <2>3 DEF StartFails
      <3>2. m.fds = {} /\ m.phase = "failed"
        BY <1>1 DEF Generation
      <3> QED BY <3>1, <3>2
    <2>4. CASE Terminate(g)
      <3> DEFINE m == [r EXCEPT !.phase = "draining"]
      <3>1. Become(g, m) /\ UNCHANGED sockets
        BY <2>4 DEF Terminate
      <3>2. m.fds = r.fds /\ m.phase = "draining"
        BY <1>1 DEF Generation
      <3> QED BY <3>1, <3>2
    <2>5. CASE GenerationEnds(g)
      <3> DEFINE m == [r EXCEPT !.phase = "ended", !.fds = {}]
      <3>1. Become(g, m) /\ UNCHANGED sockets
        BY <2>5 DEF GenerationEnds
      <3>2. m.fds = {} /\ m.phase = "ended"
        BY <1>1 DEF Generation
      <3> QED BY <3>1, <3>2
    <2> QED BY <2>1, <2>2, <2>3, <2>4, <2>5
  <1>4. m = n
    BY <1>3 DEF Become, HeldInv
  <1>5. n.phase = "refused" => Wanted(g)'.ip # ""
    BY <1>3, <1>4, RefusedExplicitly DEF Wanted
  <1> HIDE DEF n
  <1> QED BY <1>2, <1>3, <1>4, <1>5, BecomeShared DEF Tidy

\* Every step of every generation keeps the invariant.
LEMMA StepShared ==
    ASSUME OneAddressPerPort, DistinctSections, HeldInv, PlacedInv, SharedInv, [Next]_vars
    PROVE  SharedInv'
  <1>1. ASSUME NEW c \in Config, Start(c) PROVE SharedInv'
    BY <1>1, StartShared
  <1>2. ASSUME NEW c \in Config, NEW g \in DOMAIN gens, Restart(g, c) PROVE SharedInv'
    BY <1>2, RestartShared
  <1>3. ASSUME NEW g \in DOMAIN gens, Adopt(g) PROVE SharedInv'
    BY <1>3, AdoptShared
  <1>4. ASSUME NEW g \in DOMAIN gens, Bind(g) PROVE SharedInv'
    BY <1>4, BindShared
  <1>5. ASSUME NEW g \in DOMAIN gens,
               \/ Serve(g) \/ BindRefused(g) \/ StartFails(g) \/ Terminate(g) \/ GenerationEnds(g)
        PROVE  SharedInv'
    BY <1>5, OthersShared
  <1>6. ASSUME UNCHANGED <<sockets, gens>>, backlog' \subseteq AllHeld PROVE SharedInv'
    <2>1. AllHeld' = AllHeld
      BY <1>6 DEF AllHeld
    <2>2. OnePerAddress'
      BY <1>6, <2>1 DEF SharedInv, OnePerAddress
    <2>3. \A g \in DOMAIN gens' : Tidy(gens'[g]) /\ Heir(g)'
      BY <1>6 DEF SharedInv, Heir
    <2>4. RefusedOnlyExplicit'
      BY <1>6 DEF SharedInv, RefusedOnlyExplicit, Wanted
    <2> QED BY <1>6, <2>1, <2>2, <2>3, <2>4 DEF SharedInv
  <1>7. ASSUME NEW s, Connect(s) PROVE SharedInv'
    BY <1>6, <1>7, HeldByLive DEF Connect, SharedInv
  <1>8. ASSUME NEW g, NEW s, Accept(g, s) PROVE SharedInv'
    BY <1>6, <1>8 DEF Accept, SharedInv
  <1>9. ASSUME UNCHANGED vars PROVE SharedInv'
    BY <1>6, <1>9 DEF vars, SharedInv
  <1> QED BY <1>1, <1>2, <1>3, <1>4, <1>5, <1>7, <1>8, <1>9 DEF Next

LEMMA SharedAlways ==
    ASSUME OneAddressPerPort, DistinctSections
    PROVE  Spec => [](HeldInv /\ PlacedInv /\ SharedInv)
  <1>1. Init => HeldInv /\ PlacedInv /\ SharedInv
    <2>1. Init => HeldInv /\ PlacedInv
      BY DEF Init, HeldInv, PlacedInv
    <2>2. Init => SharedInv
      BY DEF Init, SharedInv, AllHeld, OnePerAddress, RefusedOnlyExplicit
    <2> QED BY <2>1, <2>2
  <1>2. HeldInv /\ PlacedInv /\ SharedInv /\ [Next]_vars => (HeldInv /\ PlacedInv /\ SharedInv)'
    BY StepHeld, StepPlaced, StepShared
  <1> QED BY <1>1, <1>2, PTL DEF Spec

\* The sockets, the backlog and the generations keep their types, and what a serving
\* generation listens on it holds.
THEOREM GenerationTypes ==
    ASSUME OneAddressPerPort, DistinctSections
    PROVE  Spec => []GracefulRestartTypeOK
  <1>1. ASSUME HeldInv, PlacedInv, SharedInv PROVE GracefulRestartTypeOK
    <2>1. sockets \in Seq(Address) /\ backlog \subseteq Held
      BY <1>1, HeldByLive DEF HeldInv, SharedInv
    <2>2. ASSUME NEW g \in DOMAIN gens
          PROVE  /\ gens[g].conf \in Config
                 /\ gens[g].fds \subseteq DOMAIN sockets
                 /\ ToSet(gens[g].listen) \subseteq DOMAIN sockets
                 /\ g \in Serving => ToSet(gens[g].listen) \subseteq gens[g].fds
                 /\ Len(gens[g].listen) <= Len(gens[g].conf)
      <3>1. gens[g] \in Generation /\ Placed(gens[g], sockets)
        BY <1>1 DEF HeldInv, PlacedInv
      <3>2. gens[g].fds \subseteq DOMAIN sockets
        BY <1>1 DEF SharedInv, AllHeld
      <3>3. gens[g].conf \in Config
        BY <3>1 DEF Generation
      <3> QED BY <3>1, <3>2, <3>3 DEF Placed, Serving, ToSet
    <2> QED BY <2>1, <2>2 DEF GracefulRestartTypeOK
  <1> QED BY <1>1, SharedAlways, PTL

\* With configurations of that kind bind is refused for an explicit address only: a server
\* that listens on every address of its host can always be restarted, because GetListener
\* finds what was inherited on the port and nothing else on the port is held.
THEOREM OthersAreNotRefused ==
    ASSUME OneAddressPerPort, DistinctSections
    PROVE  Spec => []RefusedOnlyExplicit
  <1>1. SharedInv => RefusedOnlyExplicit
    BY DEF SharedInv
  <1> QED BY <1>1, SharedAlways, PTL

\* A generation that serves gives up no socket, whatever it or another one does next.
LEMMA ServingKeeps ==
    ASSUME HeldInv, NEW g \in Serving, [Next]_vars
    PROVE  gens[g].fds \subseteq Held'
  <1> DEFINE Kept == /\ g \in DOMAIN gens' /\ gens'[g].fds = gens[g].fds
                     /\ gens'[g].phase \in {"serving", "draining"}
  <1>1. g \in DOMAIN gens /\ gens[g].phase = "serving" /\ gens[g] \in Generation
    BY DEF Serving, HeldInv
  <1>2. ASSUME NEW r, gens' = Append(gens, r) PROVE Kept
    BY <1>1, <1>2 DEF HeldInv
  <1>3. ASSUME NEW h \in DOMAIN gens, NEW r, Become(h, r), h # g PROVE Kept
    BY <1>1, <1>3 DEF HeldInv, Become
  <1>4. ASSUME UNCHANGED gens PROVE Kept
    BY <1>1, <1>4
  <1>5. ASSUME NEW h, Terminate(h), h = g PROVE Kept
    <2> DEFINE m == [gens[g] EXCEPT !.phase = "draining"]
    <2>1. m.fds = gens[g].fds /\ m.phase = "draining"
      BY <1>1 DEF Generation
    <2>2. g \in DOMAIN gens' /\ gens'[g] = m
      BY <1>1, <1>5 DEF Terminate, Become, HeldInv
    <2> HIDE DEF m
    <2> QED BY <2>1, <2>2
  <1>6. ASSUME NEW h \in DOMAIN gens,
               \/ Adopt(h) \/ Bind(h) \/ BindRefused(h) \/ StartFails(h)
               \/ Serve(h) \/ GenerationEnds(h) \/ (Terminate(h) /\ h # g)
        PROVE  Kept
    <2>1. h # g
      BY <1>1, <1>6 DEF Adopt, Bind, BindRefused, StartFails, Serve, GenerationEnds, StillListening
    <2>2. \E r : Become(h, r)
      BY <1>6 DEF Adopt, Bind, BindRefused, StartFails, Serve, GenerationEnds, Terminate
    <2> QED BY <1>3, <2>1, <2>2
  <1>7. ASSUME NEW c, Start(c) \/ \E h \in DOMAIN gens : Restart(h, c) PROVE Kept
    BY <1>2, <1>7 DEF Start, Restart
  <1>8. ASSUME NEW s, Connect(s) \/ \E h \in DOMAIN gens : Accept(h, s) PROVE Kept
    BY <1>4, <1>8 DEF Connect, Accept
  <1>9. ASSUME UNCHANGED vars PROVE Kept
    BY <1>4, <1>9 DEF vars
  <1>10. Kept
    <2> HIDE DEF Kept
    <2>1. ASSUME NEW h \in DOMAIN gens,
                 \/ Adopt(h) \/ Bind(h) \/ BindRefused(h) \/ StartFails(h)
                 \/ Serve(h) \/ GenerationEnds(h) \/ Terminate(h)
          PROVE  Kept
      BY <1>5, <1>6, <2>1
    <2> QED BY <1>7, <1>8, <1>9, <2>1 DEF Next
  <1> QED BY <1>10 DEF Held, Live

\* No step of a restart, failed or not, resets a client that has connected to an address
\* which a serving generation has in its configuration: the socket at which it waits is the
\* one that this generation listens on, since no other that is held has the address.
THEOREM NobodyIsReset ==
    ASSUME OneAddressPerPort, DistinctSections
    PROVE  Spec => NobodyReset
  <1>1. ASSUME HeldInv, PlacedInv, SharedInv, [Next]_vars, NEW s \in backlog, Stays(s)
        PROVE  s \in Held'
    <2>1. PICK g \in Serving : sockets[s] \in ToSet(gens[g].conf)
      BY <1>1 DEF Stays
    <2>2. PICK k \in DOMAIN gens[g].conf : sockets[s] = gens[g].conf[k]
      BY <2>1 DEF ToSet
    <2>3. PICK t \in gens[g].fds : sockets[t] = gens[g].conf[k]
      BY <1>1, <2>2, PlacedListens DEF ListensWhereConfigured
    <2>4. s \in AllHeld /\ t \in AllHeld
      BY <1>1, <2>3 DEF SharedInv, AllHeld, Serving
    <2>5. s = t
      BY <1>1, <2>2, <2>3, <2>4 DEF SharedInv, OnePerAddress
    <2> QED BY <1>1, <2>3, <2>5, ServingKeeps
  <1>2. HeldInv /\ PlacedInv /\ SharedInv /\ [Next]_vars
            => [\A s \in backlog : Stays(s) => s \in Held']_vars
    BY <1>1
  <1> QED BY <1>2, SharedAlways, PTL DEF Spec, NobodyReset
=============================================================================
