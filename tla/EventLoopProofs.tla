-------------------------- MODULE EventLoopProofs --------------------------
(***************************************************************************)
(* Proofs about EventLoop for any number of clients: the walk of the       *)
(* poller's array from its end survives what the handlers do to it.        *)
(***************************************************************************)
EXTENDS EventLoop, FiniteSetTheorems, TLAPS

Events == {"none", "io", "hup"}
Entries == [sock : Socks, revents : Events]
Running == {"poll", "walk", "check", "tell", "telling"}

Distinct(p) == \A i, j \in 1..Len(p) : p[i].sock = p[j].sock => i = j
SocksOf(p) == {p[i].sock : i \in 1..Len(p)}

(* The listening socket is the first entry for good.  While there are      *)
(* clients the second is a client and the third the multicast socket, so   *)
(* what is removed with the last client lies behind the walk.              *)
ArrayInv ==
    /\ poller \in Seq(Entries) /\ pos \in 0..Len(poller) /\ Distinct(poller)
    /\ open \in SUBSET Clients /\ IsFiniteSet(open) /\ client_count = Cardinality(open)
    /\ SocksOf(poller) = open \cup {Listen} \cup (IF open = {} THEN {} ELSE {Mcast})
    /\ Len(poller) >= 1 /\ poller[1].sock = Listen
    /\ open = {} => Len(poller) = 1
    /\ open # {} => Len(poller) >= 3 /\ poller[2].sock \in Clients /\ poller[3].sock = Mcast

(* What was reported is served or lies before the walk. *)
WalkInv ==
    /\ \A i \in 1..pos : poller[i].sock \notin served
    /\ \A s \in due : s \in served \/ \E i \in 1..pos : poller[i].sock = s
    /\ \A i \in 1..pos : poller[i].revents = "none" => poller[i].sock \notin due

(* A connection waits once and is not open yet. *)
BacklogInv ==
    /\ backlog \in Seq(Clients)
    /\ \A i, j \in 1..Len(backlog) : backlog[i] = backlog[j] => i = j
    /\ \A i \in 1..Len(backlog) : backlog[i] \notin open

LoopInv ==
    /\ BacklogInv
    /\ spc \in Running => ArrayInv
    /\ spc = "walk" => WalkInv

LEMMA IsSeq ==
    ASSUME NEW S, NEW n \in Nat, NEW f \in [1..n -> S] PROVE f \in Seq(S) /\ Len(f) = n
OBVIOUS

LEMMA InSeq ==
    ASSUME NEW S, NEW p \in Seq(S) PROVE Len(p) \in Nat /\ \A i \in 1..Len(p) : p[i] \in S
OBVIOUS

(* poller_remove takes one entry out and keeps all others. *)
LEMMA Removed ==
    ASSUME NEW p \in Seq(Entries), Distinct(p), NEW k \in 1..Len(p)
    PROVE  LET q == Remove(p, p[k].sock) IN
           /\ q \in Seq(Entries) /\ Len(q) = Len(p) - 1 /\ Distinct(q)
           /\ \A j \in 1..(Len(p) - 1) : q[j] = IF j = k THEN p[Len(p)] ELSE p[j]
           /\ SocksOf(q) = SocksOf(p) \ {p[k].sock}
<1> DEFINE s == p[k].sock  q == Remove(p, s)  n == Len(p) - 1
<1>1. Len(p) \in Nat /\ n \in Nat /\ Len(p) = n + 1 /\ \A i \in 1..Len(p) : p[i] \in Entries
  BY InSeq
<1>2. IndexOf(p, s) = k BY Zenon DEF IndexOf, Distinct
<1>3. q = [j \in 1..n |-> IF j = k THEN p[Len(p)] ELSE p[j]]
  BY <1>2, Zenon DEF Remove
<1>4. q \in [1..n -> Entries] BY <1>1, <1>3
<1>5. q \in Seq(Entries) /\ Len(q) = n BY <1>1, <1>4, IsSeq, Zenon
<1>6. \A j \in 1..n : q[j] = IF j = k THEN p[Len(p)] ELSE p[j] BY <1>3, Zenon
<1> HIDE DEF q, n
<1>7. Distinct(q) BY <1>1, <1>5, <1>6 DEF Distinct
<1>8. SocksOf(q) \subseteq SocksOf(p) \ {s} BY <1>1, <1>5, <1>6 DEF Distinct, SocksOf
<1>9. ASSUME NEW i \in 1..Len(p), i # k PROVE p[i].sock \in SocksOf(q)
  <2>1. CASE i = Len(p)
    <3>1. k \in 1..n /\ q[k] = p[i] BY <1>1, <1>6, <1>9, <2>1
    <3> QED BY <1>5, <3>1, Zenon DEF SocksOf
  <2>2. CASE i # Len(p)
    <3>1. i \in 1..n /\ q[i] = p[i] BY <1>1, <1>6, <1>9, <2>2
    <3> QED BY <1>5, <3>1, Zenon DEF SocksOf
  <2> QED BY <2>1, <2>2, Zenon
<1>10. SocksOf(p) \ {s} \subseteq SocksOf(q) BY <1>9, Zenon DEF SocksOf
<1> QED BY <1>5, <1>6, <1>7, <1>8, <1>10, Zenon DEF q, n

LEMMA RemovedSock ==
    ASSUME NEW p \in Seq(Entries), Distinct(p), NEW k \in 1..Len(p), NEW s, p[k].sock = s
    PROVE  /\ Remove(p, s) \in Seq(Entries) /\ Len(Remove(p, s)) = Len(p) - 1 /\ Distinct(Remove(p, s))
           /\ \A j \in 1..(Len(p) - 1) : Remove(p, s)[j] = IF j = k THEN p[Len(p)] ELSE p[j]
           /\ SocksOf(Remove(p, s)) = SocksOf(p) \ {s}
<1> DEFINE q == Remove(p, p[k].sock)
<1>1. /\ q \in Seq(Entries) /\ Len(q) = Len(p) - 1 /\ Distinct(q)
      /\ \A j \in 1..(Len(p) - 1) : q[j] = IF j = k THEN p[Len(p)] ELSE p[j]
      /\ SocksOf(q) = SocksOf(p) \ {p[k].sock}
  BY Removed, Zenon
<1>2. q = Remove(p, s)
  OBVIOUS
<1> HIDE DEF q
<1> QED BY <1>1, <1>2, Zenon

(* poller_add puts a new socket behind all others. *)
LEMMA Added ==
    ASSUME NEW p \in Seq(Entries), Distinct(p), NEW s \in Socks, s \notin SocksOf(p)
    PROVE  LET q == Add(p, s) IN
           /\ q \in Seq(Entries) /\ Len(q) = Len(p) + 1 /\ Distinct(q)
           /\ \A j \in 1..Len(p) : q[j] = p[j]
           /\ q[Len(q)].sock = s /\ SocksOf(q) = SocksOf(p) \cup {s}
<1> DEFINE e == Entry(s, "none")  q == Append(p, e)
<1>1. e \in Entries /\ e.sock = s BY Zenon DEF Entry, Entries, Events
<1>2. Len(p) \in Nat /\ \A i \in 1..Len(p) : p[i] \in Entries BY InSeq, Zenon
<1> HIDE DEF e
<1>3. q \in Seq(Entries) /\ Len(q) = Len(p) + 1 /\ q[Len(p) + 1] = e
      /\ \A j \in 1..Len(p) : q[j] = p[j]
  BY <1>1, <1>2
<1> HIDE DEF q
<1>4. \A j \in 1..Len(q) : j \in 1..Len(p) \/ j = Len(p) + 1 BY <1>2, <1>3
<1>5. Distinct(q) BY <1>1, <1>2, <1>3, <1>4, Zenon DEF Distinct, SocksOf
<1>6. SocksOf(q) = SocksOf(p) \cup {s}
  <2>1. SocksOf(q) \subseteq SocksOf(p) \cup {s} BY <1>1, <1>3, <1>4, Zenon DEF SocksOf
  <2>2. 1..Len(p) \subseteq 1..Len(q) /\ Len(p) + 1 \in 1..Len(q) BY <1>2, <1>3
  <2>3. SocksOf(p) \cup {s} \subseteq SocksOf(q) BY <1>1, <1>3, <2>2, Zenon DEF SocksOf
  <2> QED BY <2>1, <2>3, Zenon
<1> QED BY <1>1, <1>3, <1>5, <1>6, Zenon DEF q, e, Add

-----------------------------------------------------------------------------
(* The first client. *)
LEMMA FirstClient ==
    ASSUME ArrayInv, client_count = 0, NEW c \in Clients
    PROVE  LET q == Add(Add(poller, c), Mcast) IN
           /\ q \in Seq(Entries) /\ Len(q) = 3 /\ Distinct(q) /\ q[1] = poller[1]
           /\ q[2].sock = c /\ q[3].sock = Mcast /\ SocksOf(q) = {Listen, c, Mcast}
<1> DEFINE r == Add(poller, c)  q == Add(r, Mcast)
<1>1. open = {} BY FS_EmptySet, Zenon DEF ArrayInv
<1>2. Len(poller) = 1 /\ SocksOf(poller) = {Listen} /\ poller \in Seq(Entries) /\ Distinct(poller)
  BY <1>1, Zenon DEF ArrayInv
<1>3. c \in Socks /\ Mcast \in Socks /\ c # Listen /\ c # Mcast /\ Mcast # Listen
  BY SocksAssumption, Zenon DEF Socks
<1>4. /\ r \in Seq(Entries) /\ Len(r) = 2 /\ Distinct(r) /\ r[1] = poller[1] /\ r[2].sock = c
      /\ SocksOf(r) = {Listen, c}
  <2>1. /\ r \in Seq(Entries) /\ Len(r) = Len(poller) + 1 /\ Distinct(r)
        /\ \A j \in 1..Len(poller) : r[j] = poller[j]
        /\ r[Len(r)].sock = c /\ SocksOf(r) = SocksOf(poller) \cup {c}
    BY <1>2, <1>3, Added, Zenon
  <2> QED BY <1>2, <2>1
<1> HIDE DEF r
<1>5. /\ q \in Seq(Entries) /\ Len(q) = Len(r) + 1 /\ Distinct(q)
      /\ \A j \in 1..Len(r) : q[j] = r[j]
      /\ q[Len(q)].sock = Mcast /\ SocksOf(q) = SocksOf(r) \cup {Mcast}
  BY <1>3, <1>4, Added, Zenon
<1> QED BY <1>4, <1>5 DEF r

(* One more client. *)
LEMMA NextClient ==
    ASSUME ArrayInv, open # {}, NEW c \in Clients \ open
    PROVE  LET q == Add(poller, c) IN
           /\ q \in Seq(Entries) /\ Len(q) = Len(poller) + 1 /\ Distinct(q)
           /\ \A j \in 1..Len(poller) : q[j] = poller[j]
           /\ SocksOf(q) = SocksOf(poller) \cup {c}
<1>1. c \in Socks /\ c # Listen /\ c # Mcast BY SocksAssumption, Zenon DEF Socks
<1>2. c \notin SocksOf(poller) BY <1>1, Zenon DEF ArrayInv
<1> QED BY <1>1, <1>2, Added, Zenon DEF ArrayInv

(* The last client: it is the second of three entries. *)
LEMMA LastClient ==
    ASSUME ArrayInv, client_count = 1, pos > 0, At \in Clients
    PROVE  LET q == Remove(Remove(poller, At), Mcast) IN
           /\ open = {At} /\ pos = 2
           /\ q \in Seq(Entries) /\ Len(q) = 1 /\ Distinct(q)
           /\ q[1] = poller[1] /\ SocksOf(q) = {Listen}
<1> DEFINE c == At  r == Remove(poller, c)  q == Remove(r, Mcast)
<1>0. /\ poller \in Seq(Entries) /\ Distinct(poller) /\ Len(poller) \in Nat /\ pos \in 1..Len(poller)
      /\ c = poller[pos].sock /\ c \in Clients
  BY InSeq DEF ArrayInv, At
<1>1. c # Listen /\ c # Mcast /\ Listen # Mcast BY SocksAssumption, Zenon
<1>2. c \in open
  <2>1. c \in SocksOf(poller) BY <1>0, Zenon DEF SocksOf
  <2> QED BY <1>1, <2>1, Zenon DEF ArrayInv
<1>3. open = {c}
  <2>1. Cardinality(open \ {c}) = 0
    <3>1. IsFiniteSet(open) /\ Cardinality(open) = 1 BY Zenon DEF ArrayInv
    <3>2. Cardinality(open \ {c}) = Cardinality(open) - 1 BY <1>2, <3>1, FS_RemoveElement, Zenon
    <3> QED BY <3>1, <3>2
  <2>2. IsFiniteSet(open \ {c}) BY <1>2, FS_RemoveElement, Zenon DEF ArrayInv
  <2>3. open \ {c} = {} BY <2>1, <2>2, FS_EmptySet, Zenon
  <2> QED BY <1>2, <2>3, Zenon
<1>4. /\ Len(poller) >= 3 /\ poller[1].sock = Listen /\ poller[2].sock \in Clients
      /\ poller[3].sock = Mcast /\ SocksOf(poller) = {c, Listen, Mcast}
  BY <1>3, Zenon DEF ArrayInv
<1> HIDE DEF c
<1>5. poller[2].sock = c
  <2>1. poller[2].sock \in SocksOf(poller) BY <1>0, <1>4 DEF SocksOf
  <2> QED BY <1>4, <2>1, SocksAssumption, Zenon
<1>6. Len(poller) = 3
  <2> SUFFICES ASSUME Len(poller) # 3 PROVE FALSE BY Zenon
  <2>0. Len(poller) >= 4
    <3>1. ASSUME NEW n \in Nat, n >= 3, n # 3 PROVE n >= 4 BY <3>1
    <3> QED BY <1>0, <1>4, <3>1, Zenon
  <2>1. 4 \in 1..Len(poller) /\ 1 \in 1..Len(poller) /\ 2 \in 1..Len(poller) /\ 3 \in 1..Len(poller)
    BY <1>0, <2>0
  <2>2. poller[4].sock \in {c, Listen, Mcast} BY <1>4, <2>1, Zenon DEF SocksOf
  <2> QED BY <1>0, <1>4, <1>5, <2>1, <2>2 DEF Distinct
<1>7. pos = 2
  BY <1>0, <1>5, <1>6 DEF Distinct
<1>8. /\ r \in Seq(Entries) /\ Len(r) = 2 /\ Distinct(r)
      /\ r[1] = poller[1] /\ r[2] = poller[3] /\ SocksOf(r) = {Listen, Mcast}
  <2>1. /\ r \in Seq(Entries) /\ Len(r) = Len(poller) - 1 /\ Distinct(r)
        /\ \A j \in 1..(Len(poller) - 1) : r[j] = IF j = 2 THEN poller[Len(poller)] ELSE poller[j]
        /\ SocksOf(r) = SocksOf(poller) \ {c}
    <3>1. 2 \in 1..Len(poller) BY <1>6
    <3> QED BY <1>0, <1>5, <3>1, RemovedSock
  <2> QED BY <1>1, <1>4, <1>5, <1>6, <2>1
<1> HIDE DEF r
<1>9. r[2].sock = Mcast /\ 2 \in 1..Len(r) BY <1>4, <1>8
<1>10. /\ q \in Seq(Entries) /\ Len(q) = Len(r) - 1 /\ Distinct(q)
       /\ \A j \in 1..(Len(r) - 1) : q[j] = IF j = 2 THEN r[Len(r)] ELSE r[j]
       /\ SocksOf(q) = SocksOf(r) \ {Mcast}
  <2>1. r \in Seq(Entries) /\ Distinct(r) BY <1>8, Zenon
  <2> QED BY <1>9, <2>1, RemovedSock
<1> QED BY <1>1, <1>3, <1>7, <1>8, <1>10 DEF r, c

(* A client that is not the last. *)
LEMMA OneClient ==
    ASSUME ArrayInv, client_count # 1, pos > 0, At \in Clients
    PROVE  LET q == Remove(poller, At) IN
           /\ At \in open /\ open \ {At} # {}
           /\ q \in Seq(Entries) /\ Len(q) = Len(poller) - 1 /\ Distinct(q) /\ Len(q) >= 3
           /\ \A j \in 1..(pos - 1) : q[j] = poller[j]
           /\ q[1].sock = Listen /\ q[2].sock \in Clients /\ q[3].sock = Mcast
           /\ SocksOf(q) = SocksOf(poller) \ {At}
<1> DEFINE c == At  q == Remove(poller, c)
<1>0. /\ poller \in Seq(Entries) /\ Distinct(poller) /\ Len(poller) \in Nat /\ pos \in 1..Len(poller)
      /\ c = poller[pos].sock /\ c \in Clients
  BY InSeq DEF ArrayInv, At
<1>1. c # Listen /\ c # Mcast /\ Listen # Mcast /\ Listen \notin Clients /\ Mcast \notin Clients
  BY SocksAssumption, Zenon
<1>2. c \in open
  <2>1. c \in SocksOf(poller) BY <1>0, Zenon DEF SocksOf
  <2> QED BY <1>1, <2>1, Zenon DEF ArrayInv
<1>3. open \ {c} # {}
  <2> SUFFICES ASSUME open = {c} PROVE FALSE BY <1>2, Zenon
  <2>1. Cardinality({c}) = 1 BY FS_Singleton, Zenon
  <2> QED BY <2>1, Zenon DEF ArrayInv
<1>4. /\ Len(poller) >= 3 /\ poller[1].sock = Listen /\ poller[2].sock \in Clients
      /\ poller[3].sock = Mcast /\ SocksOf(poller) = open \cup {Listen, Mcast} /\ open \subseteq Clients
  BY <1>2, Zenon DEF ArrayInv
<1> HIDE DEF c
<1>5. PICK d \in open : d # c BY <1>3, Zenon
<1>6. PICK k \in 1..Len(poller) : poller[k].sock = d
  BY <1>4, <1>5, Zenon DEF SocksOf
<1>7. k # 1 /\ k # 3 /\ pos # 1 /\ pos # 3 /\ k # pos BY <1>0, <1>1, <1>4, <1>5, <1>6, Zenon
<1>8. Len(poller) >= 4 BY <1>0, <1>4, <1>6, <1>7
<1>9. /\ q \in Seq(Entries) /\ Len(q) = Len(poller) - 1 /\ Distinct(q)
      /\ \A j \in 1..(Len(poller) - 1) : q[j] = IF j = pos THEN poller[Len(poller)] ELSE poller[j]
      /\ SocksOf(q) = SocksOf(poller) \ {c}
  BY <1>0, RemovedSock
<1> HIDE DEF q
<1>10. \A j \in 1..(pos - 1) : q[j] = poller[j] BY <1>0, <1>9
<1>11. q[1] = poller[1] /\ q[3] = poller[3] BY <1>0, <1>7, <1>8, <1>9
<1>12. q[2].sock \in Clients
  <2>1. poller[Len(poller)].sock \in Clients
    <3>1. poller[Len(poller)].sock \in SocksOf(poller) BY <1>0, <1>8 DEF SocksOf
    <3>2. poller[Len(poller)].sock # Listen /\ poller[Len(poller)].sock # Mcast
      BY <1>0, <1>4, <1>8 DEF Distinct
    <3> QED BY <1>4, <3>1, <3>2, Zenon
  <2> QED BY <1>0, <1>4, <1>8, <1>9, <2>1
<1> QED BY <1>0, <1>2, <1>3, <1>4, <1>8, <1>9, <1>10, <1>11, <1>12 DEF q, c


-----------------------------------------------------------------------------
LEMMA LoopInit == Init => LoopInv
<1> SUFFICES ASSUME Init PROVE LoopInv BY Zenon
<1>1. poller = <<Entry(Listen, "none")>> /\ Entry(Listen, "none") \in Entries
  BY Zenon DEF Init, Entry, Entries, Events, Socks
<1>2. poller \in Seq(Entries) /\ Len(poller) = 1 /\ poller[1].sock = Listen
  BY <1>1 DEF Entry
<1>3. SocksOf(poller) = {Listen} /\ Distinct(poller) BY <1>2 DEF SocksOf, Distinct
<1>4. IsFiniteSet({}) /\ Cardinality({}) = 0 BY FS_EmptySet, Zenon
<1>5. ArrayInv BY <1>2, <1>3, <1>4 DEF Init, ArrayInv
<1>6. BacklogInv BY DEF Init, BacklogInv
<1> QED BY <1>5, <1>6, Zenon DEF Init, LoopInv

(* What changes events and the place of the walk only. *)
LEMMA SameSocks ==
    ASSUME ArrayInv, poller' \in Seq(Entries), Len(poller') = Len(poller),
           \A i \in 1..Len(poller) : poller'[i].sock = poller[i].sock,
           pos' \in 0..Len(poller), UNCHANGED <<client_count, open>>
    PROVE  ArrayInv'
<1>1. SocksOf(poller)' = SocksOf(poller) BY Zenon DEF SocksOf
<1>2. Distinct(poller)' BY Zenon DEF ArrayInv, Distinct
<1>3. Len(poller) \in Nat BY InSeq, Zenon DEF ArrayInv
<1> QED BY <1>1, <1>2, <1>3 DEF ArrayInv

LEMMA SamePoller ==
    ASSUME ArrayInv, UNCHANGED <<poller, client_count, open>>, pos' \in 0..Len(poller)
    PROVE  ArrayInv'
BY SameSocks, Zenon DEF ArrayInv

(* The walk goes on by one entry: those before it are as they were, and    *)
(* the entry itself was served or had nothing to report.                   *)
LEMMA WalkOn ==
    ASSUME ArrayInv, WalkInv, pos > 0, pos' = pos - 1, due' = due,
           \A i \in 1..(pos - 1) : poller'[i] = poller[i],
           \/ served' = served \cup {At}
           \/ served' = served /\ poller[pos].revents = "none"
    PROVE  WalkInv'
<1>1. Len(poller) \in Nat /\ pos \in 1..Len(poller) /\ 1..(pos - 1) \subseteq 1..pos /\ pos \in 1..pos
  BY InSeq DEF ArrayInv
<1>2. \A i \in 1..(pos - 1) : poller[i].sock # At BY <1>1 DEF ArrayInv, Distinct, At
<1>3. \A i \in 1..pos' : poller'[i].sock \notin served' BY <1>1, <1>2, Zenon DEF WalkInv
<1>4. \A i \in 1..pos' : poller'[i].revents = "none" => poller'[i].sock \notin due'
  BY <1>1, Zenon DEF WalkInv
<1>5. ASSUME NEW s \in due PROVE s \in served' \/ \E i \in 1..pos' : poller'[i].sock = s
  <2> SUFFICES ASSUME s \notin served' PROVE \E i \in 1..pos' : poller'[i].sock = s BY Zenon
  <2>1. PICK i \in 1..pos : poller[i].sock = s BY Zenon DEF WalkInv
  <2>2. i # pos BY <1>1, <2>1, Zenon DEF WalkInv, At
  <2>3. i \in 1..(pos - 1) BY <1>1, <2>1, <2>2
  <2> QED BY <2>1, <2>3, Zenon
<1> QED BY <1>3, <1>4, <1>5, Zenon DEF WalkInv

LEMMA PollStep == LoopInv /\ Poll => LoopInv'
<1> SUFFICES ASSUME LoopInv, Poll PROVE LoopInv' BY Zenon
<1>1. PICK r \in PossibleReports : Reported(r) BY Zenon DEF Poll
<1>2. /\ r \in [Socks -> Events]
      /\ \A s \in Socks : r[s] # "none" => \E i \in 1..Len(poller) : poller[i].sock = s
  BY Zenon DEF PossibleReports, Events, Holds
<1>3. ArrayInv /\ Len(poller) \in Nat /\ \A i \in 1..Len(poller) : poller[i] \in Entries
  BY InSeq, Zenon DEF Poll, LoopInv, Running, ArrayInv
<1>4. poller' = [i \in 1..Len(poller) |-> Entry(poller[i].sock, r[poller[i].sock])]
  BY <1>1, Zenon DEF Reported
<1>5. \A i \in 1..Len(poller) :
         /\ poller'[i] \in Entries /\ poller'[i].sock = poller[i].sock
         /\ poller'[i].revents = r[poller[i].sock] /\ poller[i].sock \in Socks
  BY <1>2, <1>3, <1>4, Zenon DEF Entries, Entry
<1>6. poller' \in Seq(Entries) /\ Len(poller') = Len(poller)
  <2>1. poller' \in [1..Len(poller) -> Entries] BY <1>4, <1>5, Zenon
  <2> QED BY <1>3, <2>1, IsSeq, Zenon
<1>7. pos' = 0 \/ pos' = Len(poller) BY <1>1, Zenon DEF Reported
<1>8. UNCHANGED <<client_count, open, backlog>> BY <1>1, Zenon DEF Reported, clients
<1>9. ArrayInv'
  <2>1. pos' \in 0..Len(poller) BY <1>3, <1>7
  <2> QED BY <1>3, <1>5, <1>6, <1>8, <2>1, SameSocks, Zenon
<1>10. ASSUME spc' = "walk" PROVE WalkInv'
  <2>1. pos' = Len(poller) /\ served' = {} /\ due' = {s \in Socks : r[s] # "none"}
    BY <1>1, <1>10, Zenon DEF Reported
  <2> QED BY <1>2, <1>5, <2>1 DEF WalkInv
<1>11. BacklogInv' BY <1>8, Zenon DEF LoopInv, BacklogInv
<1> QED BY <1>9, <1>10, <1>11, Zenon DEF LoopInv

(* A handler that leaves the array as it is. *)
LEMMA QuietStep == LoopInv /\ (PassBy \/ McastOnWrite \/ ClientIO) => LoopInv'
<1> SUFFICES ASSUME LoopInv, PassBy \/ McastOnWrite \/ ClientIO PROVE LoopInv' BY Zenon
<1>1. /\ spc = "walk" /\ pos > 0 /\ UNCHANGED <<poller, client_count, open, backlog, due>>
      /\ \/ pos' = pos - 1 /\ spc' = spc
         \/ pos' = 0 /\ spc' = "tell"
      /\ \/ served' = served \cup {At}
         \/ served' = served /\ poller[pos].revents = "none"
  BY Zenon DEF PassBy, McastOnWrite, ClientIO, Serving, Serve, Onward, BreakOff, clients, history
<1>2. ArrayInv /\ WalkInv /\ Len(poller) \in Nat /\ pos \in 0..Len(poller)
  BY <1>1, InSeq, Zenon DEF LoopInv, Running, ArrayInv
<1>3. ArrayInv'
  <2>1. pos' \in 0..Len(poller) BY <1>1, <1>2
  <2> QED BY <1>1, <1>2, <2>1, SamePoller, Zenon
<1>4. ASSUME spc' = "walk" PROVE WalkInv' BY <1>1, <1>2, <1>4, WalkOn, Zenon
<1>5. BacklogInv' BY <1>1, Zenon DEF LoopInv, BacklogInv
<1> QED BY <1>3, <1>4, <1>5, Zenon DEF LoopInv


(* The connection that is accepted is a client that is not open. *)
LEMMA FirstInBacklog ==
    ASSUME BacklogInv, backlog # <<>>, backlog' = Tail(backlog),
           open' \in {open, open \cup {Head(backlog)}}
    PROVE  Head(backlog) \in Clients \ open /\ BacklogInv'
<1> DEFINE n == Len(backlog)
<1>1. n \in Nat /\ n >= 1 /\ Head(backlog) = backlog[1] /\ backlog[1] \in Clients
  BY DEF BacklogInv
<1>2. backlog' \in Seq(Clients) /\ Len(backlog') = n - 1
      /\ \A i \in 1..(n - 1) : backlog'[i] = backlog[i + 1]
  BY <1>1 DEF BacklogInv
<1>3. backlog[1] \notin open BY <1>1 DEF BacklogInv
<1>4. \A i \in 1..(n - 1) : i + 1 \in 1..n /\ i + 1 # 1 BY <1>1
<1>5. \A i \in 1..(n - 1) : backlog[i + 1] # backlog[1] /\ backlog[i + 1] \notin open
  BY <1>1, <1>4 DEF BacklogInv
<1>6. \A i, j \in 1..(n - 1) : backlog[i + 1] = backlog[j + 1] => i = j
  BY <1>1, <1>4 DEF BacklogInv
<1> QED BY <1>1, <1>2, <1>3, <1>5, <1>6 DEF BacklogInv

LEMMA AcceptStep == LoopInv /\ TcpOnAccept => LoopInv'
<1> SUFFICES ASSUME LoopInv, TcpOnAccept PROVE LoopInv' BY Zenon
<1> DEFINE c == Head(backlog)
<1>1. /\ spc = "walk" /\ pos > 0 /\ backlog # <<>> /\ backlog' = Tail(backlog)
      /\ due' = due /\ served' = served \cup {At}
  BY Zenon DEF TcpOnAccept, Serving, Serve
<1>2. ArrayInv /\ WalkInv /\ BacklogInv /\ Len(poller) \in Nat /\ pos \in 1..Len(poller)
  BY <1>1, InSeq DEF LoopInv, Running, ArrayInv
<1>3. CASE BreakOff /\ UNCHANGED <<poller, client_count, open>>
  <2>1. spc' = "tell" /\ pos' = 0 BY <1>3, Zenon DEF BreakOff
  <2>2. pos' \in 0..Len(poller) BY <1>2, <2>1
  <2>3. ArrayInv' BY <1>2, <1>3, <2>2, SamePoller, Zenon
  <2>4. BacklogInv' BY <1>1, <1>2, <1>3, FirstInBacklog, Zenon
  <2> QED BY <2>1, <2>3, <2>4, Zenon DEF LoopInv
<1>4. CASE /\ open' = open \cup {c} /\ client_count' = client_count + 1 /\ Onward
           /\ poller' = IF client_count = 0 THEN Add(Add(poller, c), Mcast) ELSE Add(poller, c)
  <2>1. c \in Clients \ open /\ BacklogInv' BY <1>1, <1>2, <1>4, FirstInBacklog, Zenon
  <2> HIDE DEF c
  <2>2. pos' = pos - 1 /\ spc' = "walk" BY <1>1, <1>4, Zenon DEF Onward
  <2>3. open' \in SUBSET Clients /\ IsFiniteSet(open') /\ client_count' = Cardinality(open')
    <3>1. IsFiniteSet(open) /\ c \notin open /\ client_count = Cardinality(open) BY <1>2, <2>1, Zenon DEF ArrayInv
    <3>2. IsFiniteSet(open \cup {c}) /\ Cardinality(open \cup {c}) = Cardinality(open) + 1
      BY <3>1, FS_AddElement, Zenon
    <3> QED BY <1>2, <1>4, <2>1, <3>1, <3>2, Zenon DEF ArrayInv
  <2>4. CASE client_count = 0
    <3>1. open = {} BY <1>2, <2>4, FS_EmptySet, Zenon DEF ArrayInv
    <3>2. /\ poller' \in Seq(Entries) /\ Len(poller') = 3 /\ Distinct(poller') /\ poller'[1] = poller[1]
          /\ poller'[2].sock = c /\ poller'[3].sock = Mcast /\ SocksOf(poller') = {Listen, c, Mcast}
      BY <1>2, <1>4, <2>1, <2>4, FirstClient, Zenon
    <3>3. Len(poller) = 1 /\ poller[1].sock = Listen /\ pos = 1
      <4>1. Len(poller) = 1 /\ poller[1].sock = Listen BY <1>2, <3>1, Zenon DEF ArrayInv
      <4> QED BY <1>2, <4>1
    <3>4. SocksOf(poller') = open' \cup {Listen} \cup {Mcast} /\ open' # {} BY <1>4, <3>1, <3>2, Zenon
    <3>5. ArrayInv' BY <1>2, <2>1, <2>2, <2>3, <3>2, <3>3, <3>4 DEF ArrayInv
    <3>6. \A i \in 1..(pos - 1) : poller'[i] = poller[i] BY <3>3
    <3>7. WalkInv' BY <1>1, <1>2, <2>2, <3>6, WalkOn, Zenon
    <3> QED BY <2>1, <3>5, <3>7, Zenon DEF LoopInv
  <2>5. CASE client_count # 0
    <3>1. open # {} BY <1>2, <2>5, FS_EmptySet, Zenon DEF ArrayInv
    <3>2. /\ poller' \in Seq(Entries) /\ Len(poller') = Len(poller) + 1 /\ Distinct(poller')
          /\ \A j \in 1..Len(poller) : poller'[j] = poller[j]
          /\ SocksOf(poller') = SocksOf(poller) \cup {c}
      BY <1>2, <1>4, <2>1, <2>5, <3>1, NextClient, Zenon
    <3>3. Len(poller) >= 3 /\ poller[1].sock = Listen /\ poller[2].sock \in Clients /\ poller[3].sock = Mcast
      BY <1>2, <3>1, Zenon DEF ArrayInv
    <3>4. poller'[1] = poller[1] /\ poller'[2] = poller[2] /\ poller'[3] = poller[3] BY <1>2, <3>2, <3>3
    <3>5. SocksOf(poller') = open' \cup {Listen} \cup {Mcast} /\ open' # {}
      BY <1>2, <1>4, <3>1, <3>2, Zenon DEF ArrayInv
    <3>6. pos' \in 0..Len(poller') /\ Len(poller') >= 3 BY <1>2, <2>2, <3>2, <3>3
    <3>7. ArrayInv' BY <2>3, <3>2, <3>3, <3>4, <3>5, <3>6 DEF ArrayInv
    <3>8. \A i \in 1..(pos - 1) : poller'[i] = poller[i] BY <1>2, <3>2
    <3>9. WalkInv' BY <1>1, <1>2, <2>2, <3>8, WalkOn, Zenon
    <3> QED BY <2>1, <3>7, <3>9, Zenon DEF LoopInv
  <2> QED BY <2>4, <2>5, Zenon
<1> QED BY <1>3, <1>4, Zenon DEF TcpOnAccept

LEMMA HupStep == LoopInv /\ TcpOnHup => LoopInv'
<1> SUFFICES ASSUME LoopInv, TcpOnHup PROVE LoopInv' BY Zenon
<1>1. /\ spc = "walk" /\ pos > 0 /\ At \in Clients /\ open' = open \ {At}
      /\ client_count' = client_count - 1 /\ backlog' = backlog
      /\ due' = due /\ served' = served \cup {At} /\ pos' = pos - 1 /\ spc' = "walk"
  BY Zenon DEF TcpOnHup, Serving, Serve, Onward
<1>2. ArrayInv /\ WalkInv /\ BacklogInv /\ Len(poller) \in Nat /\ pos \in 1..Len(poller)
  BY <1>1, InSeq DEF LoopInv, Running, ArrayInv
<1>3. At # Listen /\ At # Mcast BY <1>1, SocksAssumption, Zenon
<1>4. At \in open
  <2>1. At \in SocksOf(poller) BY <1>2, Zenon DEF SocksOf, At
  <2> QED BY <1>2, <1>3, <2>1 DEF ArrayInv
<1>5. open' \in SUBSET Clients /\ IsFiniteSet(open') /\ client_count' = Cardinality(open')
  <2>1. IsFiniteSet(open) /\ client_count = Cardinality(open) /\ open \in SUBSET Clients BY <1>2, Zenon DEF ArrayInv
  <2>2. IsFiniteSet(open \ {At}) /\ Cardinality(open \ {At}) = Cardinality(open) - 1
    BY <1>4, <2>1, FS_RemoveElement, Zenon
  <2> QED BY <1>1, <2>1, <2>2, Zenon
<1>6. BacklogInv' BY <1>1, <1>2, Zenon DEF BacklogInv
<1>7. CASE client_count = 1
  <2>1. poller' = Remove(Remove(poller, At), Mcast) BY <1>7, Zenon DEF TcpOnHup
  <2>2. /\ open = {At} /\ pos = 2 /\ poller' \in Seq(Entries) /\ Len(poller') = 1 /\ Distinct(poller')
        /\ poller'[1] = poller[1] /\ SocksOf(poller') = {Listen}
    BY <1>1, <1>2, <1>7, <2>1, LastClient, Zenon
  <2>3. open' = {} /\ poller[1].sock = Listen BY <1>1, <1>2, <2>2, Zenon DEF ArrayInv
  <2>4. ArrayInv' BY <1>1, <1>5, <2>2, <2>3 DEF ArrayInv
  <2>5. \A i \in 1..(pos - 1) : poller'[i] = poller[i] BY <2>2
  <2>6. WalkInv' BY <1>1, <1>2, <2>5, WalkOn, Zenon
  <2> QED BY <1>6, <2>4, <2>6, Zenon DEF LoopInv
<1>8. CASE client_count # 1
  <2>1. poller' = Remove(poller, At) BY <1>8, Zenon DEF TcpOnHup
  <2>2. /\ open \ {At} # {}
        /\ poller' \in Seq(Entries) /\ Len(poller') = Len(poller) - 1 /\ Distinct(poller') /\ Len(poller') >= 3
        /\ \A j \in 1..(pos - 1) : poller'[j] = poller[j]
        /\ poller'[1].sock = Listen /\ poller'[2].sock \in Clients /\ poller'[3].sock = Mcast
        /\ SocksOf(poller') = SocksOf(poller) \ {At}
    BY <1>1, <1>2, <1>8, <2>1, OneClient, Zenon
  <2>3. SocksOf(poller') = open' \cup {Listen} \cup {Mcast} /\ open' # {}
    BY <1>1, <1>2, <1>3, <1>4, <2>2, Zenon DEF ArrayInv
  <2>4. pos' \in 0..Len(poller') BY <1>1, <1>2, <2>2
  <2>5. ArrayInv' BY <1>5, <2>2, <2>3, <2>4 DEF ArrayInv
  <2>6. WalkInv' BY <1>1, <1>2, <2>2, WalkOn, Zenon
  <2> QED BY <1>6, <2>5, <2>6, Zenon DEF LoopInv
<1> QED BY <1>7, <1>8, Zenon


(* The end of a walk and what follows it. *)
LEMMA RestStep ==
    LoopInv /\ (WalkEnds \/ Killed \/ Check \/ LeaveLoop \/ Farewell \/ Stop) => LoopInv'
<1> SUFFICES ASSUME LoopInv, WalkEnds \/ Killed \/ Check \/ LeaveLoop \/ Farewell \/ Stop
             PROVE  LoopInv'
  BY Zenon
<1>1. CASE WalkEnds
  <2>1. spc = "walk" /\ spc' = "check" /\ UNCHANGED <<pos, client_count, open, backlog>>
        /\ poller' = [i \in 1..Len(poller) |-> Entry(poller[i].sock, "none")]
    BY <1>1, Zenon DEF WalkEnds, clients
  <2>2. ArrayInv /\ Len(poller) \in Nat /\ \A i \in 1..Len(poller) : poller[i] \in Entries
    BY <2>1, InSeq, Zenon DEF LoopInv, Running, ArrayInv
  <2>3. \A i \in 1..Len(poller) : poller'[i] \in Entries /\ poller'[i].sock = poller[i].sock
    BY <2>1, <2>2, Zenon DEF Entries, Entry, Events
  <2>4. poller' \in [1..Len(poller) -> Entries] BY <2>1, <2>3, Zenon
  <2>5. poller' \in Seq(Entries) /\ Len(poller') = Len(poller) BY <2>2, <2>4, IsSeq, Zenon
  <2>6. pos' \in 0..Len(poller) BY <2>1, <2>2, Zenon DEF ArrayInv
  <2>7. ArrayInv' BY <2>1, <2>2, <2>3, <2>5, <2>6, SameSocks, Zenon
  <2>8. BacklogInv' BY <2>1, Zenon DEF LoopInv, BacklogInv
  <2> QED BY <2>1, <2>7, <2>8, Zenon DEF LoopInv
<1>2. CASE Killed \/ CloseAll \/ SenderDestroy \/ NobodyToTell
  <2>1. spc' \in {"killed", "ended", "destroyed"}
    BY <1>2, Zenon DEF Killed, CloseAll, SenderDestroy, NobodyToTell
  <2>2. BacklogInv'
    <3>1. CASE Killed \/ NobodyToTell
      BY <3>1, Zenon DEF Killed, NobodyToTell, clients, LoopInv, BacklogInv
    <3>2. CASE CloseAll \/ SenderDestroy
      <4>1. backlog' = <<>> BY <3>2, Zenon DEF CloseAll, SenderDestroy
      <4> QED BY <4>1 DEF BacklogInv
    <3> QED BY <1>2, <3>1, <3>2, Zenon
  <2> QED BY <2>1, <2>2, Zenon DEF LoopInv, Running
<1>3. CASE Check \/ LeaveLoop \/ TellBegin \/ TellNext \/ TellClient \/ TellFails
  <2>1. /\ spc \in Running /\ spc' \in Running \ {"walk"}
        /\ UNCHANGED <<poller, client_count, open, backlog>>
        /\ \/ pos' \in {pos, 0, Len(poller)}
           \/ pos > 0 /\ pos' = pos - 1
    BY <1>3, Zenon DEF Check, LeaveLoop, TellBegin, TellNext, TellClient, TellFails, Telling, Running, clients, loop
  <2>2. ArrayInv /\ Len(poller) \in Nat /\ pos \in 0..Len(poller)
    BY <2>1, InSeq, Zenon DEF LoopInv, ArrayInv
  <2>3. pos' \in 0..Len(poller) BY <2>1, <2>2
  <2>4. ArrayInv' BY <2>1, <2>2, <2>3, SamePoller, Zenon
  <2>5. BacklogInv' BY <2>1, Zenon DEF LoopInv, BacklogInv
  <2> QED BY <2>1, <2>4, <2>5, Zenon DEF LoopInv
<1>4. CASE Stop
  BY <1>4, Zenon DEF Stop, loop, clients, history, LoopInv, ArrayInv, WalkInv, BacklogInv
<1> QED BY <1>1, <1>2, <1>3, <1>4, Zenon DEF Farewell

LEMMA EnvStep == LoopInv /\ (\E c \in Clients : Env(c)) => LoopInv'
<1> SUFFICES ASSUME LoopInv, NEW c \in Clients, Env(c) PROVE LoopInv' BY Zenon
<1>1. UNCHANGED <<poller, pos, client_count, spc, open, due, served>>
  BY Zenon DEF Env, Connect, Hang, Drain, loop, history
<1>2. BacklogInv'
  <2>1. CASE backlog' = backlog BY <1>1, <2>1, Zenon DEF LoopInv, BacklogInv
  <2>2. CASE backlog' = Append(backlog, c) /\ c \notin open /\ c \notin Waiting
    <3> DEFINE n == Len(backlog)
    <3>1. backlog \in Seq(Clients) /\ n \in Nat BY DEF LoopInv, BacklogInv
    <3>2. /\ backlog' \in Seq(Clients) /\ Len(backlog') = n + 1 /\ backlog'[n + 1] = c
          /\ \A i \in 1..n : backlog'[i] = backlog[i]
      BY <2>2, <3>1
    <3>3. \A i \in 1..n : backlog[i] # c BY <2>2, Zenon DEF Waiting
    <3>4. \A i \in 1..(n + 1) : i \in 1..n \/ i = n + 1 BY <3>1
    <3> QED BY <1>1, <2>2, <3>2, <3>3, <3>4 DEF LoopInv, BacklogInv
  <2>3. CASE Connect(c)
    BY <2>2, <2>3, Zenon DEF Connect
  <2>4. CASE Hang(c) \/ Drain(c) BY <2>1, <2>4, Zenon DEF Hang, Drain
  <2> QED BY <2>3, <2>4, Zenon DEF Env
<1> QED BY <1>1, <1>2, Zenon DEF LoopInv, ArrayInv, WalkInv

LEMMA LoopStep == LoopInv /\ [Next]_vars => LoopInv'
<1> SUFFICES ASSUME LoopInv, [Next]_vars PROVE LoopInv' BY Zenon
<1>1. CASE Next
  BY <1>1, PollStep, QuietStep, AcceptStep, HupStep, RestStep, EnvStep, Zenon DEF Next, Loop
<1>2. CASE UNCHANGED vars
  BY <1>2, Zenon DEF vars, loop, clients, history, LoopInv, ArrayInv, WalkInv, BacklogInv
<1> QED BY <1>1, <1>2, Zenon

LEMMA LoopAlways == Spec => []LoopInv
BY LoopInit, LoopStep, PTL DEF Spec

(* For any number of clients the poller's array, client_count and the open *)
(* connections stay in step, whatever tcp_on_accept and tcp_on_hup do to   *)
(* them inside the walk.                                                   *)
THEOREM PollerMatchesClientsTheorem == Spec => []PollerMatchesClients
<1>1. LoopInv => PollerMatchesClients
  BY Zenon DEF LoopInv, Running, ArrayInv, PollerMatchesClients, Distinct, SocksOf
<1> QED BY <1>1, LoopAlways, PTL

(* For any number of clients the walk of poller_process_events serves no   *)
(* socket twice, leaves out none that is ready and stays in the array,     *)
(* although poller_remove moves the last entry into the gap: what it moves *)
(* was passed already, and the multicast socket, which goes with the last  *)
(* client, lies behind that client.                                        *)
THEOREM ServedOnceTheorem == Spec => []ServedOnce
<1>1. LoopInv => ServedOnce
  <2> SUFFICES ASSUME LoopInv, spc = "walk"
               PROVE  /\ pos <= Len(poller)
                      /\ \A i \in 1..pos : poller[i].sock \notin served
                      /\ pos = 0 => due \subseteq served
    BY Zenon DEF ServedOnce
  <2>1. ArrayInv /\ WalkInv BY Zenon DEF LoopInv, Running
  <2>2. pos <= Len(poller) BY <2>1, InSeq DEF ArrayInv
  <2> QED BY <2>1, <2>2 DEF WalkInv
<1> QED BY <1>1, LoopAlways, PTL

-----------------------------------------------------------------------------
(* The farewell.  The clients behind the walk have been told, or those     *)
(* behind the one whose write failed; nobody connects or leaves meanwhile. *)
TellInv ==
    /\ spc \in Running \ {"telling"} => broken = Nobody
    /\ spc = "telling" =>
         \E b \in 0..Len(poller) :
            /\ \A i \in (b + 1)..Len(poller) : poller[i].sock \in Clients => poller[i].sock \in told
            /\ \/ b = pos /\ broken = Nobody
               \/ b > 0 /\ pos = 0 /\ poller[b].sock = broken /\ broken # Nobody

(* One step of the farewell: it ends the walk or goes to the next entry. *)
LEMMA TellOn ==
    ASSUME ArrayInv, TellInv, spc = "telling", pos > 0, spc' = "telling", UNCHANGED poller,
           \/ pos' = pos - 1 /\ broken' = broken
              /\ told' = IF At \in Clients THEN told \cup {At} ELSE told
           \/ pos' = 0 /\ broken' = At /\ At \in Clients /\ told' = told
    PROVE  TellInv'
<1>1. pos \in 1..Len(poller) /\ pos \in Nat /\ Len(poller) \in Nat
  BY InSeq DEF ArrayInv
<1>2. /\ broken = Nobody
      /\ \A i \in (pos + 1)..Len(poller) : poller[i].sock \in Clients => poller[i].sock \in told
  BY <1>1 DEF TellInv
<1>3. CASE /\ pos' = pos - 1 /\ broken' = broken
           /\ told' = IF At \in Clients THEN told \cup {At} ELSE told
  <2>1. \A i \in (pos' + 1)..Len(poller) : i = pos \/ i \in (pos + 1)..Len(poller)
    BY <1>1, <1>3
  <2>2. pos' \in 0..Len(poller)
    BY <1>1, <1>3
  <2>3. \A i \in (pos' + 1)..Len(poller) : poller[i].sock \in Clients => poller[i].sock \in told'
    BY <1>2, <1>3, <2>1, Zenon DEF At
  <2> QED BY <1>2, <1>3, <2>2, <2>3, Zenon DEF TellInv, Running, Nobody
<1>4. CASE pos' = 0 /\ broken' = At /\ At \in Clients /\ told' = told
  <2>1. pos \in 0..Len(poller) /\ pos > 0 /\ poller[pos].sock = broken' /\ broken' # Nobody
    BY <1>1, <1>4, SocksAssumption DEF At, Nobody
  <2> QED BY <1>2, <1>4, <2>1, Zenon DEF TellInv, Running, Nobody
<1> QED BY <1>3, <1>4, Zenon

LEMMA TellStep == LoopInv /\ TellInv /\ [Next]_vars => TellInv'
<1> SUFFICES ASSUME LoopInv, TellInv, [Next]_vars PROVE TellInv' BY Zenon
<1>1. CASE spc' \in Running \ {"telling"} /\ UNCHANGED broken /\ spc \in Running \ {"telling"}
  BY <1>1, Zenon DEF TellInv, Running, Nobody
<1>2. CASE spc' \notin Running
  BY <1>2, Zenon DEF TellInv, Running
<1>3. CASE TellBegin
  <2>1. spc = "tell" /\ spc' = "telling" /\ pos' = Len(poller) /\ UNCHANGED <<poller, broken>>
    BY <1>3, Zenon DEF TellBegin, history
  <2>2. ArrayInv /\ broken = Nobody
    BY <2>1, Zenon DEF LoopInv, TellInv, Running
  <2>3. Len(poller) \in Nat
    BY <2>2, InSeq, Zenon DEF ArrayInv
  <2>4. pos' \in 0..Len(poller') /\ \A i \in (pos' + 1)..Len(poller') : FALSE
    BY <2>1, <2>3
  <2> QED BY <2>1, <2>2, <2>4, Zenon DEF TellInv, Running, Nobody
<1>4. CASE TellNext \/ TellClient \/ TellFails
  <2>1. /\ spc = "telling" /\ pos > 0 /\ spc' = "telling" /\ UNCHANGED poller
        /\ \/ pos' = pos - 1 /\ broken' = broken
              /\ told' = IF At \in Clients THEN told \cup {At} ELSE told
           \/ pos' = 0 /\ broken' = At /\ At \in Clients /\ told' = told
    BY <1>4, Zenon DEF TellNext, TellClient, TellFails, Telling, history
  <2>2. ArrayInv
    BY <2>1, Zenon DEF LoopInv, Running
  <2> QED BY <2>1, <2>2, TellOn, Zenon
<1>5. CASE UNCHANGED <<spc, poller, pos, told, broken>>
  BY <1>5, Zenon DEF TellInv, Nobody
<1>6. ASSUME Next
      PROVE  \/ spc' \in Running \ {"telling"} /\ UNCHANGED broken /\ spc \in Running \ {"telling"}
             \/ spc' \notin Running
             \/ TellBegin \/ TellNext \/ TellClient \/ TellFails
             \/ UNCHANGED <<spc, poller, pos, told, broken>>
  <2>1. CASE Poll
    BY <2>1, Zenon DEF Poll, Reported, Running
  <2>2. CASE PassBy \/ McastOnWrite \/ ClientIO \/ TcpOnHup \/ TcpOnAccept
    BY <2>2, Zenon DEF PassBy, McastOnWrite, ClientIO, TcpOnHup, TcpOnAccept, Serving, Serve, Onward, BreakOff,
                history, Running
  <2>3. CASE Killed \/ WalkEnds \/ Check \/ LeaveLoop
    BY <2>3, Zenon DEF Killed, WalkEnds, Check, LeaveLoop, history, Running
  <2>4. CASE NobodyToTell \/ CloseAll \/ SenderDestroy
    BY <2>4, Zenon DEF NobodyToTell, CloseAll, SenderDestroy, Running
  <2>5. CASE Stop \/ \E c \in Clients : Env(c)
    BY <2>5, Zenon DEF Stop, Env, Connect, Hang, Drain, loop, history
  <2> QED BY <1>6, <2>1, <2>2, <2>3, <2>4, <2>5, Zenon DEF Next, Loop, Farewell
<1>7. CASE UNCHANGED vars
  BY <1>5, <1>7, Zenon DEF vars, loop, history
<1> QED BY <1>1, <1>2, <1>3, <1>4, <1>5, <1>6, <1>7, Zenon

(* For any number of clients, tcp_will_quit_func reaches every open client *)
(* unless a write to one fails, and then it has reached all those behind   *)
(* that one in the poller's array.                                         *)
THEOREM EveryoneToldTheorem == Spec => []EveryoneTold
<1>1. Init => TellInv
  BY Zenon DEF Init, TellInv, Running
<1>2. LoopInv /\ TellInv => EveryoneTold
  <2> SUFFICES ASSUME LoopInv, TellInv, spc = "telling", pos = 0, NEW c \in open, c \notin told
               PROVE  broken # Nobody /\ IndexOf(poller, c) <= IndexOf(poller, broken)
    BY Zenon DEF EveryoneTold
  <2>1. ArrayInv BY Zenon DEF LoopInv, Running
  <2>2. PICK j \in 1..Len(poller) : poller[j].sock = c BY <2>1, Zenon DEF ArrayInv, SocksOf
  <2>3. c \in Clients /\ Len(poller) \in Nat BY <2>1, InSeq, Zenon DEF ArrayInv
  <2>4. PICK b \in 0..Len(poller) :
           /\ \A i \in (b + 1)..Len(poller) : poller[i].sock \in Clients => poller[i].sock \in told
           /\ \/ b = pos /\ broken = Nobody
              \/ b > 0 /\ pos = 0 /\ poller[b].sock = broken /\ broken # Nobody
    BY Zenon DEF TellInv
  <2>5. j <= b
    <3>1. ~(j \in (b + 1)..Len(poller)) BY <2>2, <2>3, <2>4, Zenon
    <3> QED BY <2>3, <3>1
  <2>6. b \in 1..Len(poller) /\ poller[b].sock = broken /\ broken # Nobody BY <2>3, <2>4, <2>5
  <2>7. IndexOf(poller, c) = j /\ IndexOf(poller, broken) = b
    BY <2>1, <2>2, <2>6, Zenon DEF IndexOf, ArrayInv, Distinct
  <2> QED BY <2>5, <2>6, <2>7, Zenon
<1> QED BY <1>1, <1>2, TellStep, LoopAlways, PTL DEF Spec
=============================================================================
