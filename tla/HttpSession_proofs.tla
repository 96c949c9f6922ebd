-------------------------- MODULE HttpSession_proofs ------------------------
(***************************************************************************)
(* For every limit, batch size and set of addresses: the pool's types, its *)
(* accounting, and that it implements Admission.                           *)
(***************************************************************************)
EXTENDS HttpSession, FiniteSetTheorems, TLAPS

IInv == TypeOK /\ NothingLost /\ Accounting /\ IpCovered

-----------------------------------------------------------------------------
(* Lists without repetition.                                               *)

\* Appending an element that is not in a list adds just that element.
LEMMA AppendElems ==
    ASSUME NEW S, NEW list \in Seq(S), NEW s \in S
    PROVE  /\ Append(list, s) \in Seq(S)
           /\ Len(Append(list, s)) = Len(list) + 1
           /\ Elems(Append(list, s)) = Elems(list) \cup {s}
           /\ Distinct(list) /\ s \notin Elems(list)
                 => Distinct(Append(list, s))
  <1> DEFINE l == Append(list, s)
  <1>1. /\ l \in Seq(S)
        /\ Len(l) = Len(list) + 1
        /\ DOMAIN l = 1 .. Len(list) + 1
        /\ DOMAIN list = 1 .. Len(list)
        /\ Len(list) \in Nat
        /\ \A i \in 1 .. Len(list) : l[i] = list[i]
        /\ l[Len(list) + 1] = s
    OBVIOUS
  <1> HIDE DEF l
  <1>2. Elems(l) = Elems(list) \cup {s}
    <2>1. Elems(l) \subseteq Elems(list) \cup {s}
      BY <1>1 DEF Elems
    <2>2. Elems(list) \subseteq Elems(l)
      BY <1>1 DEF Elems
    <2>3. s \in Elems(l)
      BY <1>1 DEF Elems
    <2> QED BY <2>1, <2>2, <2>3
  <1>3. ASSUME Distinct(list), s \notin Elems(list) PROVE Distinct(l)
    BY <1>1, <1>3 DEF Distinct, Elems
  <1> QED BY <1>1, <1>2, <1>3 DEF l

\* Taking the head off a list without repetition removes just that element.
LEMMA TailElems ==
    ASSUME NEW S, NEW list \in Seq(S), Len(list) # 0, Distinct(list)
    PROVE  /\ Head(list) \in S
           /\ Head(list) \in Elems(list)
           /\ Tail(list) \in Seq(S)
           /\ Len(Tail(list)) = Len(list) - 1
           /\ Elems(Tail(list)) = Elems(list) \ {Head(list)}
           /\ Distinct(Tail(list))
  <1> DEFINE l == Tail(list)
  <1>1. /\ Len(list) \in Nat \ {0}
        /\ DOMAIN list = 1 .. Len(list)
        /\ list # << >>
        /\ Head(list) = list[1]
        /\ list[1] \in S
    OBVIOUS
  <1>2. /\ l \in Seq(S)
        /\ Len(l) = Len(list) - 1
        /\ DOMAIN l = 1 .. Len(list) - 1
        /\ \A i \in 1 .. Len(list) - 1 : l[i] = list[i + 1]
    BY <1>1
  <1> HIDE DEF l
  <1>3. Head(list) \in Elems(list)
    BY <1>1 DEF Elems
  <1>4. Elems(l) = Elems(list) \ {Head(list)}
    <2>1. Elems(l) \subseteq Elems(list) \ {Head(list)}
      BY <1>1, <1>2 DEF Elems, Distinct
    <2>2. ASSUME NEW e \in Elems(list), e # Head(list) PROVE e \in Elems(l)
      <3>1. PICK i \in 1 .. Len(list) : e = list[i]
        BY <1>1 DEF Elems
      <3>2. i - 1 \in 1 .. Len(list) - 1 /\ l[i - 1] = e
        BY <1>1, <1>2, <2>2, <3>1
      <3> QED BY <1>2, <3>2 DEF Elems
    <2> QED BY <2>1, <2>2
  <1>5. Distinct(l)
    BY <1>1, <1>2 DEF Distinct
  <1> QED BY <1>1, <1>2, <1>3, <1>4, <1>5 DEF l

\* Concatenating two lists without repetition and without common elements.
LEMMA ConcatElems ==
    ASSUME NEW S, NEW l1 \in Seq(S), NEW l2 \in Seq(S),
           Distinct(l1), Distinct(l2), Elems(l1) \cap Elems(l2) = {}
    PROVE  /\ l1 \o l2 \in Seq(S)
           /\ Len(l1 \o l2) = Len(l1) + Len(l2)
           /\ Elems(l1 \o l2) = Elems(l1) \cup Elems(l2)
           /\ Distinct(l1 \o l2)
  <1> DEFINE l == l1 \o l2
  <1>1. /\ l \in Seq(S)
        /\ Len(l1) \in Nat /\ Len(l2) \in Nat
        /\ Len(l) = Len(l1) + Len(l2)
        /\ DOMAIN l = 1 .. Len(l1) + Len(l2)
        /\ DOMAIN l1 = 1 .. Len(l1) /\ DOMAIN l2 = 1 .. Len(l2)
        /\ \A i \in 1 .. Len(l1) + Len(l2) :
              l[i] = IF i <= Len(l1) THEN l1[i] ELSE l2[i - Len(l1)]
    OBVIOUS
  <1> HIDE DEF l
  <1>2. Elems(l) = Elems(l1) \cup Elems(l2)
    <2>1. ASSUME NEW i \in 1 .. Len(l1) + Len(l2)
          PROVE  l[i] \in Elems(l1) \cup Elems(l2)
      <3>1. CASE i <= Len(l1)
        BY <1>1, <3>1 DEF Elems
      <3>2. CASE i > Len(l1)
        <4>1. i - Len(l1) \in DOMAIN l2 /\ l[i] = l2[i - Len(l1)]
          BY <1>1, <3>2
        <4> QED BY <4>1 DEF Elems
      <3> QED BY <1>1, <3>1, <3>2
    <2>2. Elems(l1) \subseteq Elems(l)
      BY <1>1 DEF Elems
    <2>3. ASSUME NEW i \in 1 .. Len(l2) PROVE l2[i] \in Elems(l)
      <3>1. Len(l1) + i \in 1 .. Len(l1) + Len(l2) /\ l[Len(l1) + i] = l2[i]
        BY <1>1
      <3> QED BY <1>1, <3>1 DEF Elems
    <2> QED BY <1>1, <2>1, <2>2, <2>3 DEF Elems
  <1>3. Distinct(l)
    <2> SUFFICES ASSUME NEW i \in DOMAIN l, NEW j \in DOMAIN l, i < j
                 PROVE  l[i] # l[j]
      BY <1>1 DEF Distinct
    <2>1. CASE j <= Len(l1)
      BY <1>1, <2>1 DEF Distinct
    <2>2. CASE i > Len(l1)
      <3>1. /\ i - Len(l1) \in DOMAIN l2 /\ j - Len(l1) \in DOMAIN l2
            /\ i - Len(l1) # j - Len(l1)
            /\ l[i] = l2[i - Len(l1)] /\ l[j] = l2[j - Len(l1)]
        BY <1>1, <2>2
      <3> QED BY <3>1 DEF Distinct
    <2>3. CASE i <= Len(l1) /\ j > Len(l1)
      <3>1. l[i] \in Elems(l1)
        BY <1>1, <2>3 DEF Elems
      <3>2. j - Len(l1) \in DOMAIN l2 /\ l[j] = l2[j - Len(l1)]
        BY <1>1, <2>3
      <3>3. l[j] \in Elems(l2)
        BY <3>2 DEF Elems
      <3> QED BY <3>1, <3>3
    <2> QED BY <1>1, <2>1, <2>2, <2>3
  <1> QED BY <1>1, <1>2, <1>3 DEF l
-----------------------------------------------------------------------------
(* Sessions and addresses.                                                 *)

\* A batch of new sessions is a list of the next identities.
LEMMA FreshElems ==
    ASSUME allocated \in Nat, NEW n \in Nat,
           allocated + n <= MaxSessions + MaxOrphans
    PROVE  /\ Fresh(n) \in Seq(Session)
           /\ Len(Fresh(n)) = n
           /\ Elems(Fresh(n)) = allocated + 1 .. allocated + n
           /\ Distinct(Fresh(n))
  <1>1. \A i \in 1 .. n : allocated + i \in Session
    BY PoolAssumption DEF Session
  <1>2. Fresh(n) \in [1 .. n -> Session]
    BY <1>1 DEF Fresh
  <1>3. Fresh(n) \in Seq(Session) /\ Len(Fresh(n)) = n
    BY <1>2
  <1>4. DOMAIN Fresh(n) = 1 .. n /\ \A i \in 1 .. n : Fresh(n)[i] = allocated + i
    BY DEF Fresh
  <1>5. Elems(Fresh(n)) = allocated + 1 .. allocated + n
    <2>1. Elems(Fresh(n)) \subseteq allocated + 1 .. allocated + n
      BY <1>4 DEF Elems
    <2>2. ASSUME NEW e \in allocated + 1 .. allocated + n
          PROVE  e \in Elems(Fresh(n))
      <3>1. e - allocated \in 1 .. n /\ Fresh(n)[e - allocated] = e
        BY <1>4
      <3> QED BY <1>4, <3>1 DEF Elems
    <2> QED BY <2>1, <2>2
  <1>6. Distinct(Fresh(n))
    BY <1>4 DEF Distinct
  <1> QED BY <1>3, <1>5, <1>6

\* What the operations on a tree do to its nodes and timestamps.
LEMMA TreeTypes ==
    ASSUME NEW D, NEW T \in Nat, NEW tree \in [D -> 0 .. T], NEW s
    PROVE  /\ \A left \in 0 .. T : AddNode(tree, s, left) \in [D \cup {s} -> 0 .. T]
           /\ RemoveNode(tree, s) \in [D \ {s} -> 0 .. T]
           /\ Tick(tree) \in [D -> 0 .. T]
  BY DEF AddNode, RemoveNode, Tick

\* Only finitely many sessions are in use, and from one address no more.
LEMMA InUseFinite ==
    ASSUME TypeOK
    PROVE  /\ IsFiniteSet(InUse)
           /\ Cardinality(InUse) \in Nat
           /\ \A ip : /\ IsFiniteSet(OpenFrom(ip))
                      /\ Cardinality(OpenFrom(ip)) \in Nat
                      /\ Cardinality(OpenFrom(ip)) <= Cardinality(InUse)
  <1>1. IsFiniteSet(Session)
    BY PoolAssumption, FS_Interval DEF Session
  <1>2. IsFiniteSet(InUse)
    BY <1>1, FS_Subset DEF TypeOK
  <1>3. \A ip : OpenFrom(ip) \subseteq InUse
    BY DEF OpenFrom
  <1>4. \A ip : IsFiniteSet(OpenFrom(ip))
                /\ Cardinality(OpenFrom(ip)) <= Cardinality(InUse)
    BY <1>2, <1>3, FS_Subset
  <1> QED BY <1>2, <1>4, FS_CardinalityType

\* What counting an address does to its counter, and what it required.
LEMMA CountIpEffect ==
    ASSUME TypeOK, IpCovered, NEW ip \in Ip, CountIp(ip)
    PROVE  /\ iplimits' \in [Ip -> Nat]
           /\ IpLimited => /\ iplimits' = [iplimits EXCEPT ![ip] = @ + 1]
                           /\ iplimits[ip] + 1 <= IpCap
  BY IpLimitAssumption
     DEF TypeOK, IpCovered, CountIp, IncreaseRefused, IncreaseIpLimitsHashNode,
         IpCap, IpLimited

\* A failing fetch may leave an address counted, which keeps the bound.
LEMMA CountIpCovers ==
    ASSUME TypeOK, IpCovered, NEW ip \in Ip, CountIp(ip),
           UNCHANGED <<timeout_tree, netaddr_ip>>
    PROVE  IpCovered'
  <1> SUFFICES ASSUME IpLimited, NEW o \in Ip
               PROVE  /\ Cardinality(OpenFrom(o)') <= iplimits'[o]
                      /\ iplimits'[o] <= IpCap
    BY DEF IpCovered, IpLimited, IpCap
  <1>1. OpenFrom(o)' = OpenFrom(o)
    BY DEF OpenFrom, InUse
  <1>2. /\ iplimits[o] \in Nat
        /\ Cardinality(OpenFrom(o)) \in Nat
        /\ Cardinality(OpenFrom(o)) <= iplimits[o] /\ iplimits[o] <= IpCap
    BY InUseFinite DEF IpCovered, TypeOK
  <1>3. /\ iplimits'[o] = IF o = ip THEN iplimits[o] + 1 ELSE iplimits[o]
        /\ o = ip => iplimits[o] + 1 <= IpCap
    BY CountIpEffect DEF TypeOK
  <1> QED BY <1>1, <1>2, <1>3, IpLimitAssumption DEF IpCap

-----------------------------------------------------------------------------
(* Taking a session off a list.                                            *)

\* Take moves one session from a list that accounts for every session not in
\* use, and keeps the whole invariant.
LEMMA TakeKeepsIInv ==
    ASSUME IInv, NEW ip \in Ip, NEW list \in Seq(Session),
           NEW unused \in Nat \ {0},
           Distinct(list), Elems(list) \cap InUse = {},
           Elems(list) \cup InUse = 1 .. allocated',
           allocated' \in 0 .. MaxSessions + MaxOrphans,
           allocated' = used_count + Len(list),
           Len(list) - unused \in 0 .. MaxOrphans,
           used_count + unused <= MaxSessions,
           CountIp(ip), Take(ip, list, unused)
    PROVE  IInv'
  <1> DEFINE s == Head(list)
  <1> USE PoolAssumption
  <1>1. Len(list) \in Nat \ {0}
    OBVIOUS
  <1>2. /\ s \in Session /\ s \in Elems(list) /\ s \notin InUse
        /\ Tail(list) \in Seq(Session)
        /\ Len(Tail(list)) = Len(list) - 1
        /\ Elems(Tail(list)) = Elems(list) \ {s}
        /\ Distinct(Tail(list))
    BY <1>1, TailElems
  <1> HIDE DEF s
  <1>3. /\ unused_list' = Tail(list)
        /\ unused_count' = unused - 1
        /\ used_count' = used_count + 1
        /\ timeout_tree' = AddNode(timeout_tree, s, Timeout)
        /\ elapse_tree' = AddNode(elapse_tree, s, Elapse)
        /\ netaddr_ip' = [netaddr_ip EXCEPT ![s] = ip]
    BY DEF Take, s
  <1>4. InUse' = InUse \cup {s}
    BY <1>3 DEF InUse, AddNode
  <1>5. TypeOK'
    <2>1. timeout_tree' \in [InUse' -> 0 .. Timeout]
      <3>1. timeout_tree \in [InUse -> 0 .. Timeout] /\ Timeout \in Nat
        BY DEF IInv, TypeOK
      <3>2. Timeout \in 0 .. Timeout
        BY <3>1
      <3>3. AddNode(timeout_tree, s, Timeout) \in [InUse \cup {s} -> 0 .. Timeout]
        BY <3>1, <3>2, TreeTypes
      <3> QED BY <1>3, <1>4, <3>3
    <2>2. elapse_tree' \in [InUse' -> 0 .. Elapse]
      <3>1. elapse_tree \in [InUse -> 0 .. Elapse] /\ Elapse \in Nat
        BY DEF IInv, TypeOK
      <3>2. Elapse \in 0 .. Elapse
        BY <3>1
      <3>3. AddNode(elapse_tree, s, Elapse) \in [InUse \cup {s} -> 0 .. Elapse]
        BY <3>1, <3>2, TreeTypes
      <3> QED BY <1>3, <1>4, <3>3
    <2>3. iplimits' \in [Ip -> Nat]
      BY CountIpEffect DEF IInv
    <2>4. netaddr_ip' \in [Session -> Ip]
      BY <1>3 DEF IInv, TypeOK
    <2>5. /\ unused_list' \in Seq(Session)
          /\ unused_count' \in Nat /\ used_count' \in Nat
          /\ InUse' \subseteq Session
      BY <1>2, <1>3, <1>4 DEF IInv, TypeOK
    <2> QED BY <2>1, <2>2, <2>3, <2>4, <2>5 DEF TypeOK, Session
  <1>6. NothingLost'
    <2>1. Listed' = Elems(list) \ {s}
      BY <1>2, <1>3 DEF Listed
    <2> QED BY <1>2, <1>3, <1>4, <2>1 DEF NothingLost
  <1>7. Accounting'
    <2>1. Cardinality(InUse') = Cardinality(InUse) + 1
      BY <1>2, <1>4, InUseFinite, FS_AddElement DEF IInv
    <2>2. /\ used_count \in Nat /\ used_count = Cardinality(InUse)
      BY DEF IInv, Accounting, TypeOK
    <2>3. Len(unused_list') = Len(list) - 1
      BY <1>2, <1>3
    <2>4. Orphans' = Len(list) - unused
      BY <1>1, <1>3, <2>3 DEF Orphans
    <2>5. used_count' + unused_count' <= MaxSessions
      BY <1>3, <2>2
    <2>6. allocated' = used_count' + Len(unused_list')
      BY <1>1, <1>3, <2>2, <2>3
    <2>7. used_count' = Cardinality(InUse')
      BY <1>3, <2>1, <2>2
    <2> QED BY <2>4, <2>5, <2>6, <2>7 DEF Accounting
  <1>8. IpCovered'
    <2> SUFFICES ASSUME IpLimited, NEW o \in Ip
                 PROVE  /\ Cardinality(OpenFrom(o)') <= iplimits'[o]
                        /\ iplimits'[o] <= IpCap
      BY DEF IpCovered, IpLimited, IpCap
    <2>1. OpenFrom(o)' = IF o = ip THEN OpenFrom(o) \cup {s} ELSE OpenFrom(o)
      BY <1>2, <1>3, <1>4 DEF OpenFrom, IInv, TypeOK
    <2>2. /\ IsFiniteSet(OpenFrom(o)) /\ s \notin OpenFrom(o)
          /\ Cardinality(OpenFrom(o)) \in Nat
      BY <1>2, InUseFinite DEF IInv, OpenFrom
    <2>3. Cardinality(OpenFrom(o) \cup {s}) = Cardinality(OpenFrom(o)) + 1
      BY <2>2, FS_AddElement
    <2>4. /\ iplimits[o] \in Nat
          /\ Cardinality(OpenFrom(o)) <= iplimits[o] /\ iplimits[o] <= IpCap
      BY DEF IInv, IpCovered, TypeOK
    <2>5. /\ iplimits'[o] = IF o = ip THEN iplimits[o] + 1 ELSE iplimits[o]
          /\ o = ip => iplimits[o] + 1 <= IpCap
      BY CountIpEffect DEF IInv, TypeOK
    <2>6. IpCap \in Int
      BY IpLimitAssumption DEF IpCap
    <2> QED BY <2>1, <2>2, <2>3, <2>4, <2>5, <2>6
  <1> QED BY <1>5, <1>6, <1>7, <1>8 DEF IInv

\* A session comes from the list itself.
LEMMA FetchFromListKeepsIInv ==
    ASSUME IInv, NEW ip \in Ip, FetchFromList(ip)
    PROVE  IInv'
  <1>1. /\ unused_list \in Seq(Session)
        /\ unused_count \in Nat \ {0}
        /\ allocated' = allocated /\ allocated \in 0 .. MaxSessions + MaxOrphans
    BY DEF FetchFromList, IInv, TypeOK
  <1>2. /\ Distinct(unused_list)
        /\ Elems(unused_list) \cap InUse = {}
        /\ Elems(unused_list) \cup InUse = 1 .. allocated'
    BY <1>1 DEF IInv, NothingLost, Listed
  <1>3. /\ allocated' = used_count + Len(unused_list)
        /\ Len(unused_list) - unused_count \in 0 .. MaxOrphans
        /\ used_count + unused_count <= MaxSessions
    BY <1>1 DEF IInv, Accounting, Orphans
  <1>4. CountIp(ip) /\ Take(ip, unused_list, unused_count)
    BY DEF FetchFromList
  <1> QED BY <1>1, <1>2, <1>3, <1>4, TakeKeepsIInv

\* What appending a batch of n new sessions to the list gives.
LEMMA GrownList ==
    ASSUME TypeOK, NothingLost, NEW n \in Nat,
           allocated + n <= MaxSessions + MaxOrphans
    PROVE  /\ unused_list \o Fresh(n) \in Seq(Session)
           /\ Len(unused_list \o Fresh(n)) = Len(unused_list) + n
           /\ Distinct(unused_list \o Fresh(n))
           /\ Elems(unused_list \o Fresh(n)) \cap InUse = {}
           /\ Elems(unused_list \o Fresh(n)) \cup InUse = 1 .. allocated + n
  <1>1. /\ unused_list \in Seq(Session) /\ allocated \in Nat
        /\ Distinct(unused_list)
        /\ Elems(unused_list) \cap InUse = {}
        /\ Elems(unused_list) \cup InUse = 1 .. allocated
    BY PoolAssumption DEF TypeOK, NothingLost, Listed
  <1>2. /\ Fresh(n) \in Seq(Session) /\ Len(Fresh(n)) = n
        /\ Elems(Fresh(n)) = allocated + 1 .. allocated + n
        /\ Distinct(Fresh(n))
    BY <1>1, FreshElems
  <1>3. (1 .. allocated) \cap (allocated + 1 .. allocated + n) = {}
    BY <1>1
  <1>4. Elems(unused_list) \cap Elems(Fresh(n)) = {}
    BY <1>1, <1>2, <1>3
  <1>5. /\ unused_list \o Fresh(n) \in Seq(Session)
        /\ Len(unused_list \o Fresh(n)) = Len(unused_list) + n
        /\ Elems(unused_list \o Fresh(n)) = Elems(unused_list) \cup Elems(Fresh(n))
        /\ Distinct(unused_list \o Fresh(n))
    BY <1>1, <1>2, <1>4, ConcatElems
  <1>6. (1 .. allocated) \cup (allocated + 1 .. allocated + n) = 1 .. allocated + n
    BY <1>1
  <1> QED BY <1>1, <1>2, <1>3, <1>5, <1>6

\* A batch is positive and never takes the pool over its limit.
LEMMA ClampBounds ==
    ASSUME NEW used \in Nat, used < MaxSessions, NEW wanted \in Nat \ {0}
    PROVE  /\ Clamp(wanted, used) \in Nat \ {0}
           /\ used + Clamp(wanted, used) <= MaxSessions
           /\ Clamp(wanted, used) <= wanted
  BY PoolAssumption DEF Clamp

\* A session comes from a new batch, behind the orphans already listed.
LEMMA FetchAfterIncreaseKeepsIInv ==
    ASSUME IInv, NEW ip \in Ip, FetchAfterIncrease(ip)
    PROVE  IInv'
  <1> DEFINE n == Clamp(Increment, used_count)
             list == unused_list \o Fresh(n)
  <1>1. /\ used_count \in Nat /\ used_count < MaxSessions
        /\ unused_count = 0
        /\ allocated \in 0 .. MaxSessions + MaxOrphans
        /\ allocated = used_count + Len(unused_list)
        /\ Len(unused_list) \in 0 .. MaxOrphans
    BY DEF FetchAfterIncrease, IInv, TypeOK, Accounting, Orphans
  <1>2. n \in Nat \ {0} /\ used_count + n <= MaxSessions
    BY <1>1, ClampBounds, PoolAssumption
  <1>3. /\ CountIp(ip)
        /\ Take(ip, list, n)
        /\ allocated' = allocated + n
    BY DEF FetchAfterIncrease
  <1> HIDE DEF n
  <1>4. allocated + n <= MaxSessions + MaxOrphans
    BY <1>1, <1>2, PoolAssumption
  <1>5. /\ list \in Seq(Session)
        /\ Len(list) = Len(unused_list) + n
        /\ Distinct(list)
        /\ Elems(list) \cap InUse = {}
        /\ Elems(list) \cup InUse = 1 .. allocated'
    BY <1>2, <1>3, <1>4, GrownList DEF IInv
  <1> HIDE DEF list
  <1>6. /\ allocated' \in 0 .. MaxSessions + MaxOrphans
        /\ allocated' = used_count + Len(list)
        /\ Len(list) - n \in 0 .. MaxOrphans
    BY <1>1, <1>2, <1>3, <1>4, <1>5, PoolAssumption
  <1> QED BY <1>2, <1>3, <1>5, <1>6, TakeKeepsIInv

\* A fetch that fails may grow the list or count the address, no more.
LEMMA FetchFailsKeepsIInv ==
    ASSUME IInv, NEW ip \in Ip, FetchFails(ip)
    PROVE  IInv'
  <1>1. CASE FetchRefused(ip)
    BY <1>1 DEF FetchRefused, poolVars, listVars, treeVars, IInv, TypeOK, InUse,
       NothingLost, Listed, Accounting, Orphans, IpCovered, OpenFrom, IpCap,
       IpLimited, Session
  <1>2. CASE FetchLimited(ip)
    <2>1. CountIp(ip) /\ UNCHANGED <<listVars, used_count, treeVars, netaddr_ip>>
      BY <1>2 DEF FetchLimited
    <2>2. IpCovered'
      BY <2>1, CountIpCovers DEF IInv, treeVars
    <2>3. iplimits' \in [Ip -> Nat]
      BY <2>1, CountIpEffect DEF IInv
    <2> QED
      BY <2>1, <2>2, <2>3 DEF listVars, treeVars, IInv, TypeOK, InUse,
         NothingLost, Listed, Accounting, Orphans, Session
  <1>3. ASSUME NEW k \in 0 .. Increment - 1, FetchMallocFails(ip, k)
        PROVE  IInv'
    <2>1. /\ CountIp(ip)
          /\ unused_list' = unused_list \o Fresh(k)
          /\ allocated' = allocated + k
          /\ UNCHANGED <<unused_count, used_count, timeout_tree, elapse_tree, netaddr_ip>>
          /\ unused_count = 0
          /\ Len(unused_list) + k <= MaxOrphans
      BY <1>3 DEF FetchMallocFails, treeVars
    <2>2. /\ k \in Nat /\ used_count \in Nat /\ Len(unused_list) \in Nat
          /\ allocated = used_count + Len(unused_list)
          /\ used_count <= MaxSessions
          /\ used_count + unused_count <= MaxSessions
      BY <2>1, PoolAssumption DEF IInv, TypeOK, Accounting
    <2>3. allocated + k <= MaxSessions + MaxOrphans
      BY <2>1, <2>2, PoolAssumption
    <2>4. /\ unused_list' \in Seq(Session)
          /\ Len(unused_list') = Len(unused_list) + k
          /\ Distinct(unused_list')
          /\ Elems(unused_list') \cap InUse = {}
          /\ Elems(unused_list') \cup InUse = 1 .. allocated'
      BY <2>1, <2>2, <2>3, GrownList DEF IInv
    <2>5. IpCovered'
      BY <2>1, CountIpCovers DEF IInv
    <2>6. iplimits' \in [Ip -> Nat]
      BY <2>1, CountIpEffect DEF IInv
    <2>7. InUse' = InUse
      BY <2>1 DEF InUse
    <2>8. TypeOK'
      <3>1. allocated' \in 0 .. MaxSessions + MaxOrphans
        BY <2>1, <2>2, <2>3, PoolAssumption
      <3> QED BY <2>1, <2>4, <2>6, <2>7, <3>1 DEF IInv, TypeOK, Session
    <2>9. NothingLost'
      BY <2>4, <2>7 DEF NothingLost, Listed
    <2>10. Accounting'
      BY <2>1, <2>2, <2>4, <2>7 DEF IInv, Accounting, Orphans
    <2> QED BY <2>5, <2>8, <2>9, <2>10 DEF IInv
  <1> QED BY <1>1, <1>2, <1>3 DEF FetchFails

\* Releasing a session that is in use puts it back on the list, uncounts its
\* address, and keeps the whole invariant.
LEMMA CloseKeepsIInv ==
    ASSUME IInv, NEW s \in Session, Close(s)
    PROVE  IInv'
  <1> USE PoolAssumption
  <1>1. /\ s \in InUse
        /\ iplimits' = IF IpLimited THEN DecreaseIpLimitsHashNode(netaddr_ip[s])
                                    ELSE iplimits
        /\ timeout_tree' = RemoveNode(timeout_tree, s)
        /\ elapse_tree' = RemoveNode(elapse_tree, s)
        /\ unused_list' = Append(unused_list, s)
        /\ used_count' = used_count - 1
        /\ unused_count' = unused_count + 1
        /\ UNCHANGED <<netaddr_ip, allocated>>
    BY DEF Close, SetHttpSessionUnused
  <1>2. InUse' = InUse \ {s}
    BY <1>1 DEF InUse, RemoveNode
  <1>3. /\ unused_list \in Seq(Session) /\ Len(unused_list) \in Nat
        /\ Distinct(unused_list) /\ s \notin Elems(unused_list)
    BY <1>1 DEF IInv, TypeOK, NothingLost, Listed
  <1>4. /\ unused_list' \in Seq(Session)
        /\ Len(unused_list') = Len(unused_list) + 1
        /\ Elems(unused_list') = Elems(unused_list) \cup {s}
        /\ Distinct(unused_list')
    BY <1>1, <1>3, AppendElems
  <1>5. /\ Cardinality(InUse') = Cardinality(InUse) - 1
        /\ Cardinality(InUse) \in Nat \ {0}
    BY <1>1, <1>2, InUseFinite, FS_RemoveElement, FS_EmptySet DEF IInv
  <1>6. TypeOK'
    <2>1. timeout_tree' \in [InUse' -> 0 .. Timeout]
      BY <1>1, <1>2, TreeTypes DEF IInv, TypeOK
    <2>2. elapse_tree' \in [InUse' -> 0 .. Elapse]
      BY <1>1, <1>2, TreeTypes DEF IInv, TypeOK
    <2>3. iplimits' \in [Ip -> Nat]
      BY <1>1 DEF IInv, TypeOK, DecreaseIpLimitsHashNode
    <2>4. used_count' \in Nat /\ unused_count' \in Nat
      BY <1>1, <1>5 DEF IInv, TypeOK, Accounting
    <2> QED BY <1>1, <1>2, <1>4, <2>1, <2>2, <2>3, <2>4 DEF IInv, TypeOK, Session
  <1>7. NothingLost'
    BY <1>1, <1>2, <1>4 DEF IInv, NothingLost, Listed
  <1>8. Accounting'
    <2>1. /\ used_count = Cardinality(InUse)
          /\ Len(unused_list) - unused_count \in 0 .. MaxOrphans
          /\ used_count + unused_count <= MaxSessions
          /\ allocated = used_count + Len(unused_list)
          /\ unused_count \in Nat
      BY DEF IInv, Accounting, Orphans, TypeOK
    <2>2. Orphans' = Len(unused_list) - unused_count
      BY <1>1, <1>3, <1>4, <2>1 DEF Orphans
    <2>3. /\ used_count' = Cardinality(InUse')
          /\ used_count' + unused_count' <= MaxSessions
          /\ allocated' = used_count' + Len(unused_list')
      BY <1>1, <1>3, <1>4, <1>5, <2>1
    <2> QED BY <2>1, <2>2, <2>3 DEF Accounting
  <1>9. IpCovered'
    <2> SUFFICES ASSUME IpLimited, NEW o \in Ip
                 PROVE  /\ Cardinality(OpenFrom(o)') <= iplimits'[o]
                        /\ iplimits'[o] <= IpCap
      BY DEF IpCovered, IpLimited, IpCap
    <2>1. OpenFrom(o)' = OpenFrom(o) \ {s}
      BY <1>1, <1>2 DEF OpenFrom
    <2>2. /\ IsFiniteSet(OpenFrom(o)) /\ Cardinality(OpenFrom(o)) \in Nat
          /\ s \in OpenFrom(o) <=> netaddr_ip[s] = o
      BY <1>1, InUseFinite DEF IInv, OpenFrom
    <2>3. s \in OpenFrom(o) =>
             /\ Cardinality(OpenFrom(o) \ {s}) = Cardinality(OpenFrom(o)) - 1
             /\ Cardinality(OpenFrom(o)) # 0
      BY <2>2, FS_RemoveElement, FS_EmptySet
    <2>4. s \notin OpenFrom(o) => OpenFrom(o) \ {s} = OpenFrom(o)
      OBVIOUS
    <2>5. /\ iplimits[o] \in Nat
          /\ Cardinality(OpenFrom(o)) <= iplimits[o] /\ iplimits[o] <= IpCap
      BY DEF IInv, IpCovered, TypeOK
    <2>6. iplimits'[o] = IF netaddr_ip[s] # o THEN iplimits[o]
                         ELSE IF iplimits[o] = 0 THEN 0 ELSE iplimits[o] - 1
      BY <1>1 DEF IInv, TypeOK, DecreaseIpLimitsHashNode
    <2>7. IpCap \in Int
      BY IpLimitAssumption DEF IpCap
    <2> QED BY <2>1, <2>2, <2>3, <2>4, <2>5, <2>6, <2>7
  <1> QED BY <1>6, <1>7, <1>8, <1>9 DEF IInv

\* Steps that only move timestamps keep everything but the timestamps.
LEMMA TimestampsKeepIInv ==
    ASSUME IInv,
           timeout_tree' \in [InUse -> 0 .. Timeout],
           elapse_tree' \in [InUse -> 0 .. Elapse],
           UNCHANGED <<listVars, used_count, netaddr_ip, iplimits>>
    PROVE  IInv'
  <1>1. InUse' = InUse
    BY DEF InUse
  <1>2. TypeOK'
    BY <1>1 DEF IInv, TypeOK, listVars, Session
  <1>3. NothingLost' /\ Accounting'
    BY <1>1 DEF IInv, NothingLost, Accounting, Listed, Orphans, listVars
  <1>4. IpCovered'
    BY <1>1 DEF IInv, IpCovered, OpenFrom, IpLimited, IpCap
  <1> QED BY <1>2, <1>3, <1>4 DEF IInv

\* Refreshing a session's timestamps and the passing of a second are such.
LEMMA TimersKeepIInv ==
    ASSUME IInv, Second \/ \E s \in Session : Refresh(s)
    PROVE  IInv'
  <1>1. /\ timeout_tree \in [InUse -> 0 .. Timeout]
        /\ elapse_tree \in [InUse -> 0 .. Elapse]
        /\ Timeout \in Nat /\ Elapse \in Nat
    BY PoolAssumption DEF IInv, TypeOK
  <1>2. CASE Second
    <2>1. /\ timeout_tree' \in [InUse -> 0 .. Timeout]
          /\ elapse_tree' \in [InUse -> 0 .. Elapse]
      BY <1>1, <1>2, TreeTypes DEF Second
    <2> QED BY <1>2, <2>1, TimestampsKeepIInv DEF Second
  <1>3. ASSUME NEW s \in Session, Refresh(s)
        PROVE  IInv'
    <2>1. /\ s \in InUse
          /\ timeout_tree' = AddNode(RemoveNode(timeout_tree, s), s, Timeout)
          /\ \/ elapse_tree' = AddNode(RemoveNode(elapse_tree, s), s, Elapse)
             \/ elapse_tree' = elapse_tree
          /\ UNCHANGED <<listVars, used_count, netaddr_ip, iplimits>>
      BY <1>3 DEF Refresh, UpdateTimeout, UpdateElapse
    <2>2. (InUse \ {s}) \cup {s} = InUse
      BY <2>1
    <2>3. AddNode(RemoveNode(timeout_tree, s), s, Timeout) \in [InUse -> 0 .. Timeout]
      <3>1. RemoveNode(timeout_tree, s) \in [InUse \ {s} -> 0 .. Timeout]
        BY <1>1, TreeTypes
      <3>2. Timeout \in 0 .. Timeout
        BY <1>1
      <3>3. AddNode(RemoveNode(timeout_tree, s), s, Timeout)
               \in [(InUse \ {s}) \cup {s} -> 0 .. Timeout]
        BY <1>1, <3>1, <3>2, TreeTypes
      <3> QED BY <2>2, <3>3
    <2>4. AddNode(RemoveNode(elapse_tree, s), s, Elapse) \in [InUse -> 0 .. Elapse]
      <3>1. RemoveNode(elapse_tree, s) \in [InUse \ {s} -> 0 .. Elapse]
        BY <1>1, TreeTypes
      <3>2. Elapse \in 0 .. Elapse
        BY <1>1
      <3>3. AddNode(RemoveNode(elapse_tree, s), s, Elapse)
               \in [(InUse \ {s}) \cup {s} -> 0 .. Elapse]
        BY <1>1, <3>1, <3>2, TreeTypes
      <3> QED BY <2>2, <3>3
    <2> QED BY <1>1, <2>1, <2>3, <2>4, TimestampsKeepIInv
  <1> QED BY <1>2, <1>3

-----------------------------------------------------------------------------
(* The theorems.                                                           *)

\* The batch allocated at start-up satisfies the invariant.
LEMMA InitIInv == PoolInit => IInv
  <1> SUFFICES ASSUME PoolInit PROVE IInv
    OBVIOUS
  <1> DEFINE n == Clamp(InitSessions, 0)
  <1>1. n \in Nat \ {0} /\ n <= MaxSessions
    BY PoolAssumption DEF Clamp
  <1>2. /\ allocated = n /\ unused_list = [i \in 1 .. n |-> i]
        /\ unused_count = n /\ used_count = 0
        /\ timeout_tree = [s \in {} |-> s] /\ elapse_tree = [s \in {} |-> s]
        /\ netaddr_ip \in [Session -> Ip]
        /\ iplimits = [ip \in Ip |-> 0]
    BY DEF PoolInit, IpLimitsInit
  <1> HIDE DEF n
  <1>3. InUse = {}
    BY <1>2 DEF InUse
  <1>4. \A i \in 1 .. n : i \in Session
    BY <1>1, PoolAssumption DEF Session
  <1>5. unused_list \in [1 .. n -> Session]
    BY <1>2, <1>4
  <1>6. unused_list \in Seq(Session) /\ Len(unused_list) = n
    BY <1>1, <1>5
  <1>7. TypeOK
    BY <1>1, <1>2, <1>3, <1>6, PoolAssumption DEF TypeOK
  <1>8. NothingLost
    <2>1. Listed = 1 .. n
      BY <1>2 DEF Listed, Elems
    <2> QED BY <1>2, <1>3, <2>1 DEF NothingLost, Distinct
  <1>9. Accounting
    BY <1>1, <1>2, <1>3, <1>6, FS_EmptySet, PoolAssumption DEF Accounting, Orphans
  <1>10. IpCovered
    <2> SUFFICES ASSUME NEW ip \in Ip
                 PROVE  /\ Cardinality(OpenFrom(ip)) <= iplimits[ip]
                        /\ iplimits[ip] <= IpCap
      BY DEF IpCovered
    <2>1. OpenFrom(ip) = {}
      BY <1>3 DEF OpenFrom
    <2>2. Cardinality(OpenFrom(ip)) = 0
      BY <2>1, FS_EmptySet
    <2>3. iplimits[ip] = 0
      BY <1>2
    <2>4. IpCap \in Int /\ 0 <= IpCap
      BY IpLimitAssumption DEF IpCap
    <2> QED BY <2>2, <2>3, <2>4
  <1> QED BY <1>7, <1>8, <1>9, <1>10 DEF IInv

\* Every step of the pool keeps the invariant.
LEMMA NextIInv == IInv /\ [PoolNext]_poolVars => IInv'
  <1> SUFFICES ASSUME IInv, [PoolNext]_poolVars PROVE IInv'
    OBVIOUS
  <1>1. ASSUME NEW ip \in Ip, FetchHttpSessionUnused(ip) PROVE IInv'
    BY <1>1, FetchFromListKeepsIInv, FetchAfterIncreaseKeepsIInv
       DEF FetchHttpSessionUnused
  <1>2. ASSUME NEW ip \in Ip, FetchFails(ip) PROVE IInv'
    BY <1>2, FetchFailsKeepsIInv
  <1>3. ASSUME NEW s \in Session, Close(s) PROVE IInv'
    BY <1>3, CloseKeepsIInv
  <1>4. ASSUME NEW s \in Session, Refresh(s) PROVE IInv'
    BY <1>4, TimersKeepIInv
  <1>5. CASE Second
    BY <1>5, TimersKeepIInv
  <1>6. CASE UNCHANGED poolVars
    BY <1>6 DEF poolVars, listVars, treeVars, IInv, TypeOK, InUse, NothingLost,
       Listed, Accounting, Orphans, IpCovered, OpenFrom, IpCap, IpLimited, Session
  <1> QED BY <1>1, <1>2, <1>3, <1>4, <1>5, <1>6 DEF PoolNext

\* The inductive invariant holds throughout.
LEMMA PoolInvariant == PoolSpec => []IInv
  BY InitIInv, NextIInv, PTL DEF PoolSpec

\* The pool's variables keep their types; both trees always hold the same
\* sessions, and no more sessions are allocated than the limit and the
\* orphans of failed allocations.
THEOREM TypeCorrect == PoolSpec => []TypeOK
  BY PoolInvariant, PTL DEF IInv

\* FetchHttpSessionUnused and SetHttpSessionUnused never lose or duplicate a
\* session.
THEOREM NoSessionLost == PoolSpec => []NothingLost
  BY PoolInvariant, PTL DEF IInv

\* The counters agree with the list and the trees, and keep to the limit.
THEOREM CountersAgree == PoolSpec => []Accounting
  BY PoolInvariant, PTL DEF IInv

\* Every open connection is counted for its address, and no counter passes
\* the limit.
THEOREM ConnectionsCounted == PoolSpec => []IpCovered
  BY PoolInvariant, PTL DEF IInv

-----------------------------------------------------------------------------
(* The pool implements Admission.                                          *)

Open == [s \in InUse |-> netaddr_ip[s]]

\* The instance's copy of Cardinality is Cardinality.
LEMMA SameCardinality == \A S : AdmissionLimits!Cardinality(S) = Cardinality(S)
  BY Zenon DEF AdmissionLimits!Cardinality, Cardinality

\* Taking the head of a list opens a connection that both limits allow.
LEMMA TakeOpens ==
    ASSUME IInv, NEW ip \in Ip, NEW list \in Seq(Session), Len(list) # 0,
           Distinct(list), Elems(list) \cap InUse = {},
           used_count < MaxSessions, NEW unused,
           CountIp(ip), Take(ip, list, unused)
    PROVE  AdmissionLimits!Open(Head(list), ip) /\ Head(list) \in Session
  <1> DEFINE s == Head(list)
  <1>1. s \in Session /\ s \notin InUse
    BY TailElems
  <1> HIDE DEF s
  <1>2. /\ timeout_tree' = AddNode(timeout_tree, s, Timeout)
        /\ netaddr_ip' = [netaddr_ip EXCEPT ![s] = ip]
    BY DEF Take, s
  <1>3. DOMAIN Open = InUse
    BY DEF Open
  <1>4. InUse' = InUse \cup {s}
    BY <1>2 DEF InUse, AddNode
  <1>5. Cardinality(DOMAIN Open) < MaxSessions
    BY <1>3 DEF IInv, Accounting
  <1>6. ~IpLimited \/ Cardinality(AdmissionLimits!From(ip)) < IpCap
    <2> SUFFICES ASSUME IpLimited
                 PROVE  Cardinality(AdmissionLimits!From(ip)) < IpCap
      OBVIOUS
    <2>1. AdmissionLimits!From(ip) = OpenFrom(ip)
      BY DEF AdmissionLimits!From, OpenFrom
    <2>2. iplimits[ip] + 1 <= IpCap /\ iplimits[ip] \in Nat /\ IpCap \in Int
      BY CountIpEffect, IpLimitAssumption DEF IInv, TypeOK, IpCap
    <2>3. /\ Cardinality(OpenFrom(ip)) \in Nat
          /\ Cardinality(OpenFrom(ip)) <= iplimits[ip]
      BY InUseFinite DEF IInv, IpCovered
    <2> QED BY <2>1, <2>2, <2>3
  <1>7. Open' = [d \in DOMAIN Open \cup {s} |-> IF d = s THEN ip ELSE Open[d]]
    <2>1. \A d \in InUse \cup {s} :
             netaddr_ip'[d] = IF d = s THEN ip ELSE Open[d]
      BY <1>1, <1>2 DEF Open, IInv, TypeOK
    <2> QED BY <1>3, <1>4, <2>1 DEF Open
  <1>8. AdmissionLimits!Open(s, ip)
    <2>1. s \notin DOMAIN Open
      BY <1>1, <1>3
    <2> QED
      BY <2>1, <1>5, <1>6, <1>7, SameCardinality
         DEF AdmissionLimits!Open, Open
  <1> QED BY <1>1, <1>8 DEF s

\* A step that keeps the sessions in use and their addresses is a stutter.
LEMMA SameOpen ==
    ASSUME DOMAIN timeout_tree' = InUse, UNCHANGED netaddr_ip
    PROVE  UNCHANGED Open
  BY DEF Open, InUse

\* The initial pool has nothing open, and every step opens one connection
\* within the limits, closes one, or changes nothing that is open: the pool
\* implements limits.max_http_session_count and max_connections_per_ip.
THEOREM PoolImplementsAdmission == PoolSpec => AdmissionSpec
  <1>1. PoolInit => AdmissionLimits!Init
    BY DEF PoolInit, AdmissionLimits!Init, InUse
  <1>2. IInv /\ [PoolNext]_poolVars => [AdmissionLimits!Next]_Open
    <2> SUFFICES ASSUME IInv, [PoolNext]_poolVars
                 PROVE  [AdmissionLimits!Next]_Open
      OBVIOUS
    <2>1. ASSUME NEW ip \in Ip, FetchFromList(ip) PROVE AdmissionLimits!Next
      <3>1. /\ unused_list \in Seq(Session) /\ Len(unused_list) # 0
            /\ used_count < MaxSessions
            /\ Distinct(unused_list) /\ Elems(unused_list) \cap InUse = {}
        <4>1. /\ unused_count \in Nat \ {0} /\ used_count \in Nat
              /\ Len(unused_list) - unused_count \in 0 .. MaxOrphans
              /\ used_count + unused_count <= MaxSessions
              /\ unused_list \in Seq(Session)
          BY <2>1 DEF FetchFromList, IInv, TypeOK, Accounting, Orphans
        <4>2. Len(unused_list) # 0 /\ used_count < MaxSessions
          BY <4>1, PoolAssumption
        <4> QED BY <4>1, <4>2 DEF IInv, NothingLost, Listed
      <3> QED
        BY <2>1, <3>1, TakeOpens DEF FetchFromList, AdmissionLimits!Next
    <2>2. ASSUME NEW ip \in Ip, FetchAfterIncrease(ip) PROVE AdmissionLimits!Next
      <3> DEFINE n == Clamp(Increment, used_count)
      <3>1. /\ CountIp(ip) /\ Take(ip, unused_list \o Fresh(n), n)
            /\ used_count < MaxSessions /\ used_count \in Nat
        BY <2>2 DEF FetchAfterIncrease, IInv, TypeOK
      <3>2. n \in Nat \ {0} /\ used_count + n <= MaxSessions
        BY <3>1, ClampBounds, PoolAssumption
      <3> HIDE DEF n
      <3>3. /\ allocated = used_count + Len(unused_list)
            /\ Len(unused_list) \in 0 .. MaxOrphans
        BY <2>2 DEF FetchAfterIncrease, IInv, Accounting, Orphans, TypeOK
      <3>4. allocated + n <= MaxSessions + MaxOrphans
        BY <3>1, <3>2, <3>3, PoolAssumption
      <3>5. /\ unused_list \o Fresh(n) \in Seq(Session)
            /\ Len(unused_list \o Fresh(n)) # 0
            /\ Distinct(unused_list \o Fresh(n))
            /\ Elems(unused_list \o Fresh(n)) \cap InUse = {}
        BY <3>2, <3>3, <3>4, GrownList DEF IInv
      <3> QED BY <3>1, <3>5, TakeOpens DEF AdmissionLimits!Next
    <2>3. ASSUME NEW ip \in Ip, FetchFails(ip) PROVE UNCHANGED Open
      BY <2>3, SameOpen DEF FetchFails, FetchRefused, FetchLimited,
         FetchMallocFails, poolVars, treeVars, InUse
    <2>4. ASSUME NEW s \in Session, Close(s) PROVE AdmissionLimits!Next
      <3>1. InUse' = InUse \ {s} /\ s \in InUse /\ UNCHANGED netaddr_ip
        BY <2>4 DEF Close, SetHttpSessionUnused, InUse, RemoveNode
      <3>2. DOMAIN Open = InUse /\ Open' = [d \in InUse \ {s} |-> Open[d]]
        BY <3>1 DEF Open
      <3>3. AdmissionLimits!Close(s)
        BY <3>1, <3>2 DEF AdmissionLimits!Close, Open
      <3> QED BY <3>3 DEF AdmissionLimits!Next
    <2>5. ASSUME NEW s \in Session, Refresh(s) PROVE UNCHANGED Open
      <3>1. DOMAIN timeout_tree' = InUse
        BY <2>5 DEF Refresh, UpdateTimeout, AddNode, RemoveNode, InUse
      <3> QED BY <2>5, <3>1, SameOpen DEF Refresh
    <2>6. CASE Second
      <3>1. DOMAIN timeout_tree' = InUse
        BY <2>6 DEF Second, Tick, InUse
      <3> QED BY <2>6, <3>1, SameOpen DEF Second
    <2>7. CASE UNCHANGED poolVars
      BY <2>7, SameOpen DEF poolVars, treeVars, InUse
    <2> QED
      BY <2>1, <2>2, <2>3, <2>4, <2>5, <2>6, <2>7
         DEF PoolNext, FetchHttpSessionUnused
  <1> QED
    BY <1>1, <1>2, PoolInvariant, PTL
       DEF PoolSpec, AdmissionSpec, AdmissionLimits!Spec, Open
=============================================================================
