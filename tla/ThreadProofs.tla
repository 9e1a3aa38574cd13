---------------------------- MODULE ThreadProofs ----------------------------
(***************************************************************************)
(* Proofs about what runs beside the main loops: the watchdogs over the    *)
(* other side of a connection (Heartbeat) and over the writer of a storage *)
(* (Orphan), for any periods, time-outs and delays that the slack of the   *)
(* time-outs covers, and the threads and goroutines of MCThreads (the      *)
(* statistics thread, the toucher, the advert, and a goroutine that stops  *)
(* a command), for any numbers of storages, senders, commands and packets. *)
(***************************************************************************)
EXTENDS MCThreads, MCWatchdogs, TLAPS

(* A step of the two watchdogs is one of either, or leaves both alone. *)
LEMMA WatchdogStep ==
    ASSUME [WatchdogNext]_watchdogs PROVE [O!Next]_orphan /\ [Next]_vars
BY Zenon DEF WatchdogNext, watchdogs, orphan, heartbeat, vars, sender, network, receiver

-----------------------------------------------------------------------------
(* The longest time between two packets of a living sender, and between    *)
(* two received ones.                                                      *)
Interval == heartbeat_usec + FillDelay + SendDelay
LongestGap == max_missed_hb * Interval + Interval

TypeInv ==
    /\ alive \in BOOLEAN /\ running \in BOOLEAN /\ staged \in BOOLEAN /\ heard \in BOOLEAN
    /\ mcast_in \in BOOLEAN /\ tcp_in \in BOOLEAN
    /\ silent \in Nat /\ mcast_send \in Nat /\ tcp_send \in Nat /\ lost \in 0..max_missed_hb
    /\ mcast_recv \in Nat /\ tcp_recv \in Nat /\ sround \in Nat /\ rround \in Nat
    /\ mcast_way \in SUBSET (0..NetDelay) /\ tcp_way \in SUBSET (0..NetDelay)

(* While the sender lives its rounds keep its own times young, and what    *)
(* the receiver has not heard of is younger than what is on its way, or    *)
(* than the packets lost since.                                            *)
LivingInv ==
    alive =>
      /\ running
      /\ sround <= SendDelay
      /\ mcast_send <= heartbeat_usec + FillDelay + sround
      /\ tcp_send <= heartbeat_usec + sround + (IF staged THEN SendDelay ELSE 0)
      /\ \/ mcast_in
         \/ \E a \in mcast_way : mcast_recv <= LongestGap + a
         \/ mcast_way = {} /\ mcast_recv <= lost * Interval + mcast_send
      /\ \/ tcp_in
         \/ \E a \in tcp_way : tcp_recv <= heartbeat_usec + 2 * SendDelay + a
         \/ tcp_way = {} /\ tcp_recv <= tcp_send

(* What the constants amount to, without products. *)
LEMMA Numbers ==
    ASSUME HeartbeatAssumption
    PROVE  /\ Interval \in Nat /\ LongestGap \in Nat /\ timeout_usec \in Nat /\ Longest \in Nat
           /\ LongestGap + NetDelay < timeout_usec
           /\ heartbeat_usec + 2 * SendDelay + NetDelay < timeout_usec
           /\ timeout_usec <= Longest /\ INITIAL_MC_HB_USEC <= Longest
           /\ Longest + NetDelay + 2 * RecvDelay < Cap
           /\ SendDelay \in Nat /\ NetDelay \in Nat /\ RecvDelay \in Nat /\ Cap \in Nat
           /\ FillDelay \in Nat /\ Interval < Cap
           /\ heartbeat_usec \in Nat /\ max_missed_hb \in Nat /\ timeout_usec > 0
           /\ INITIAL_MC_HB_USEC \in Nat
<1> DEFINE h == heartbeat_usec  m == max_missed_hb  e == SendDelay  d == FillDelay + e
<1>0. FillDelay \in Nat /\ e \in Nat
  BY Zenon DEF HeartbeatAssumption
<1>1. h \in Nat /\ m \in Nat /\ d \in Nat /\ NetDelay \in Nat /\ RecvDelay \in Nat /\ Slack \in Nat
      /\ Cap \in Nat /\ INITIAL_MC_HB_USEC \in Nat /\ h > 0
  <2>1. d \in Nat
    BY <1>0
  <2> QED BY <2>1, Zenon DEF HeartbeatAssumption
<1>2. (m + 1) * d + NetDelay + RecvDelay < Slack /\ 2 * e + NetDelay + RecvDelay < Slack
  BY Zenon DEF HeartbeatAssumption
<1>3. Longest + NetDelay + 2 * RecvDelay < Cap
  BY Zenon DEF HeartbeatAssumption
<1>4. h * (m + 1) \in Nat /\ h * (m + 1) >= h
  <2>1. h * m \in Nat BY <1>1
  <2>2. h * (m + 1) = h * m + h BY <1>1
  <2> QED BY <1>1, <2>1, <2>2
<1>5. m * (h + d) + (h + d) = h * (m + 1) + (m + 1) * d
  BY <1>1
<1>6. m * (h + d) \in Nat /\ (m + 1) * d \in Nat
  BY <1>1
<1> HIDE DEF h, m, d, e
<1>7. timeout_usec = h * (m + 1) + Slack /\ Interval = h + d /\ LongestGap = m * (h + d) + (h + d)
  <2>1. Interval = h + d
    BY <1>0, <1>1 DEF Interval, h, d, e
  <2> QED BY <2>1, Zenon DEF timeout_usec, LongestGap, h, m
<1>8. timeout_usec \in Nat /\ Interval \in Nat /\ LongestGap \in Nat
  BY <1>1, <1>4, <1>6, <1>7
<1>9. LongestGap + NetDelay < timeout_usec
  BY <1>1, <1>2, <1>4, <1>5, <1>6, <1>7
<1>10. h + 2 * e + NetDelay < timeout_usec
  BY <1>0, <1>1, <1>2, <1>4, <1>7
<1>11. Longest \in Nat /\ timeout_usec <= Longest /\ INITIAL_MC_HB_USEC <= Longest
  BY <1>1, <1>8 DEF Longest
<1>12. Interval < Cap
  <2>1. Interval <= LongestGap
    BY <1>1, <1>6, <1>7
  <2> QED BY <1>1, <1>3, <1>8, <1>9, <1>11, <2>1
<1> QED BY <1>0, <1>1, <1>3, <1>8, <1>9, <1>10, <1>11, <1>12 DEF h, m, e

(* One more loss is one more interval. *)
LEMMA Losses ==
    ASSUME HeartbeatAssumption
    PROVE  \A n \in 0..max_missed_hb :
             /\ n * Interval \in Nat /\ (n + 1) * Interval = n * Interval + Interval
             /\ n * Interval + Interval <= LongestGap
<1> TAKE n \in 0..max_missed_hb
<1>1. Interval \in Nat /\ max_missed_hb \in Nat BY Numbers, Zenon
<1>2. n * Interval \in Nat /\ (n + 1) * Interval = n * Interval + Interval
  BY <1>1
<1>3. PICK k \in Nat : max_missed_hb = n + k
  <2>1. max_missed_hb - n \in Nat /\ max_missed_hb = n + (max_missed_hb - n) BY <1>1
  <2> QED BY <2>1, Zenon
<1>4. max_missed_hb * Interval = n * Interval + k * Interval /\ k * Interval \in Nat
  BY <1>1, <1>3
<1> QED BY <1>1, <1>2, <1>4 DEF LongestGap

(* An age grows by one up to the cap. *)
LEMMA OneOlder ==
    ASSUME HeartbeatAssumption
    PROVE  \A a \in Nat : Older(a) <= a + 1 /\ Older(a) \in Nat /\ (a < Cap => Older(a) = a + 1)
<1> TAKE a \in Nat
<1>1. Cap \in Nat BY Numbers, Zenon
<1>2. CASE a < Cap BY <1>1, <1>2 DEF Older
<1>3. CASE ~(a < Cap) BY <1>1, <1>3 DEF Older
<1> QED BY <1>2, <1>3, Zenon

LEMMA TypeInit == ASSUME HeartbeatAssumption, Init PROVE TypeInv
<1>1. max_missed_hb \in Nat /\ heartbeat_usec \in Nat BY Numbers, Zenon
<1>2. lost \in 0..max_missed_hb BY <1>1 DEF Init
<1>3. mcast_send \in Nat BY <1>1 DEF Init
<1>4. mcast_way \in SUBSET (0..NetDelay) /\ tcp_way \in SUBSET (0..NetDelay) BY Zenon DEF Init
<1> QED BY <1>2, <1>3, <1>4, Zenon DEF Init, TypeInv

LEMMA LivingInit == ASSUME HeartbeatAssumption, Init PROVE LivingInv
<1>1. 0 * Interval = 0 BY Numbers
<1> QED BY <1>1, Numbers DEF Init, LivingInv

LEMMA TypeStep == ASSUME HeartbeatAssumption, TypeInv, [Next]_vars PROVE TypeInv'
<1> USE Numbers
<1>1. CASE SenderRound
  <2>1. lost' \in 0..max_missed_hb /\ mcast_send' \in Nat
    BY <1>1 DEF SenderRound, McastOnWrite, Multicast, TypeInv
  <2>2. 0 \in 0..NetDelay OBVIOUS
  <2>3. mcast_way' \in SUBSET (0..NetDelay)
    BY <1>1, <2>2, Zenon DEF SenderRound, McastOnWrite, Multicast, TypeInv
  <2>4. tcp_send' \in Nat
    BY <1>1 DEF SenderRound, TcpOnWrite, TypeInv
  <2>5. staged' \in BOOLEAN
    <3>1. CASE staged BY <1>1, <3>1, Zenon DEF SenderRound, TcpOnWrite
    <3>2. CASE ~staged
      <4>1. CASE tcp_send >= heartbeat_usec
        <5>1. staged' = TRUE BY <1>1, <3>2, <4>1, Zenon DEF SenderRound, TcpOnWrite
        <5> QED BY <5>1, Zenon
      <4>2. CASE ~(tcp_send >= heartbeat_usec)
        <5>1. (tcp_send >= heartbeat_usec) = FALSE BY <4>2, SMT
        <5>2. staged' = (tcp_send >= heartbeat_usec) BY <1>1, <3>2, Zenon DEF SenderRound, TcpOnWrite
        <5>3. staged' = FALSE BY <5>1, <5>2, Zenon
        <5> QED BY <5>3, Zenon
      <4> QED BY <4>1, <4>2, Zenon
    <3> QED BY <3>1, <3>2, Zenon
  <2>6. tcp_way' \in SUBSET (0..NetDelay)
    BY <1>1, <2>2, Zenon DEF SenderRound, TcpOnWrite, TypeInv
  <2> QED BY <1>1, <2>1, <2>3, <2>4, <2>5, <2>6, Zenon DEF SenderRound, TypeInv, receiver
<1>2. CASE Fail
  BY <1>2, Zenon DEF Fail, TypeInv, network, receiver
<1>3. CASE ReceiverRound
  <2>1. running' \in BOOLEAN /\ heard' \in BOOLEAN BY <1>3, Zenon DEF ReceiverRound, TypeInv
  <2> QED BY <1>3, <2>1, Zenon DEF ReceiverRound, TypeInv, sender
<1>4. CASE Tick
  <2>1. \A a \in Nat : Older(a) \in Nat BY DEF Older
  <2>2. \A S \in SUBSET (0..NetDelay) : NetDelay \notin S => OlderAll(S) \in SUBSET (0..NetDelay)
    BY DEF OlderAll
  <2>3. mcast_way' \in SUBSET (0..NetDelay) /\ tcp_way' \in SUBSET (0..NetDelay)
    BY <1>4, <2>2, Zenon DEF Tick, InTime, TypeInv
  <2> QED BY <1>4, <2>1, <2>3, Zenon DEF Tick, TypeInv
<1>5. ASSUME NEW a \in 0..NetDelay, ArriveMcast(a) \/ ArriveTcp(a) PROVE TypeInv'
  BY <1>5, Zenon DEF ArriveMcast, ArriveTcp, TypeInv, sender, receiver
<1>6. CASE UNCHANGED vars
  BY <1>6, Zenon DEF vars, sender, network, receiver, TypeInv
<1> QED BY <1>1, <1>2, <1>3, <1>4, <1>5, <1>6, Zenon DEF Next
(* The sender's own times stay young. *)
LEMMA LivingStep ==
    ASSUME HeartbeatAssumption, TypeInv, LivingInv, [Next]_vars PROVE LivingInv'
<1> SUFFICES ASSUME alive' PROVE LivingInv'
  BY Zenon DEF LivingInv
<1>0. alive
  BY Zenon DEF Next, SenderRound, Fail, ReceiverRound, Tick, ArriveMcast, ArriveTcp, vars, sender
<1> DEFINE HeardMcast == \/ mcast_in
                         \/ \E a \in mcast_way : mcast_recv <= LongestGap + a
                         \/ mcast_way = {} /\ mcast_recv <= lost * Interval + mcast_send
           HeardTcp == \/ tcp_in
                       \/ \E a \in tcp_way : tcp_recv <= heartbeat_usec + 2 * SendDelay + a
                       \/ tcp_way = {} /\ tcp_recv <= tcp_send
           Young == /\ sround <= SendDelay
                    /\ mcast_send <= heartbeat_usec + FillDelay + sround
                    /\ tcp_send <= heartbeat_usec + sround + (IF staged THEN SendDelay ELSE 0)
<1>1. running /\ Young /\ HeardMcast /\ HeardTcp
  BY <1>0, Zenon DEF LivingInv
<1> SUFFICES running' /\ Young' /\ HeardMcast' /\ HeardTcp'
  BY Zenon DEF LivingInv
<1> HIDE DEF Young, HeardMcast, HeardTcp
<1> USE Numbers
<1>2. CASE SenderRound
  <2>1. running' BY <1>1, <1>2, Zenon DEF SenderRound, receiver
  <2>2. Young'
    <3>1. sround' = 0 BY <1>2, Zenon DEF SenderRound
    <3>2. mcast_send' <= heartbeat_usec + FillDelay
      BY <1>2 DEF SenderRound, McastOnWrite, Multicast, TypeInv
    <3>3. CASE staged
      <4>1. tcp_send' = 0 /\ ~staged' BY <1>2, <3>3, Zenon DEF SenderRound, TcpOnWrite
      <4> QED BY <3>1, <3>2, <4>1 DEF Young
    <3>4. CASE ~staged
      <4>1. tcp_send' = tcp_send /\ (staged' <=> tcp_send >= heartbeat_usec)
        BY <1>2, <3>4, Zenon DEF SenderRound, TcpOnWrite
      <4>2. tcp_send <= heartbeat_usec + SendDelay
        BY <1>1, <3>4 DEF Young, TypeInv
      <4> QED BY <3>1, <3>2, <4>1, <4>2 DEF Young, TypeInv
    <3> QED BY <3>3, <3>4, Zenon
  <2>3. HeardMcast'
    <3>0. mcast_in' = mcast_in /\ mcast_recv' = mcast_recv BY <1>2, Zenon DEF SenderRound, receiver
    <3>1. CASE mcast_in BY <3>0, <3>1, Zenon DEF HeardMcast
    <3>2. CASE ~mcast_in /\ mcast_way # {}
      <4>1. mcast_way \subseteq mcast_way'
        BY <1>2, Zenon DEF SenderRound, McastOnWrite, Multicast
      <4> QED BY <1>1, <3>0, <3>2, <4>1, Zenon DEF HeardMcast
    <3>3. CASE ~mcast_in /\ mcast_way = {}
      <4>1. mcast_recv <= lost * Interval + mcast_send /\ mcast_send <= Interval
        BY <1>1, <3>3 DEF HeardMcast, Young, Interval, TypeInv
      <4>2. lost * Interval \in Nat /\ (lost + 1) * Interval = lost * Interval + Interval
            /\ lost * Interval + Interval <= LongestGap
        BY Losses, Zenon DEF TypeInv
      <4>3. mcast_recv <= lost * Interval + Interval
        BY <4>1, <4>2 DEF TypeInv
      <4>4. CASE mcast_way' = mcast_way \cup {0}
        <5>1. mcast_recv' <= LongestGap + 0 BY <3>0, <4>2, <4>3 DEF TypeInv
        <5> QED BY <4>4, <5>1, Zenon DEF HeardMcast
      <4>5. CASE lost' = lost + 1 /\ mcast_send' = 0 /\ mcast_way' = mcast_way
        <5>1. mcast_recv' <= lost' * Interval + mcast_send'
          <6>1. mcast_recv' <= (lost + 1) * Interval + 0 BY <3>0, <4>2, <4>3 DEF TypeInv
          <6> QED BY <4>5, <6>1, Zenon
        <5> QED BY <3>3, <4>5, <5>1, Zenon DEF HeardMcast
      <4>6. CASE UNCHANGED <<mcast_send, mcast_way, lost>>
        BY <3>0, <3>3, <4>1, <4>6, Zenon DEF HeardMcast
      <4> QED BY <1>2, <4>4, <4>5, <4>6, Zenon DEF SenderRound, McastOnWrite, Multicast
    <3> QED BY <3>1, <3>2, <3>3, Zenon DEF TypeInv
  <2>4. HeardTcp'
    <3>0. tcp_in' = tcp_in /\ tcp_recv' = tcp_recv BY <1>2, Zenon DEF SenderRound, receiver
    <3>1. CASE tcp_in BY <3>0, <3>1, Zenon DEF HeardTcp
    <3>2. CASE ~tcp_in /\ tcp_way # {}
      <4>1. tcp_way \subseteq tcp_way' BY <1>2, Zenon DEF SenderRound, TcpOnWrite
      <4> QED BY <1>1, <3>0, <3>2, <4>1, Zenon DEF HeardTcp
    <3>3. CASE ~tcp_in /\ tcp_way = {}
      <4>1. tcp_recv <= tcp_send /\ tcp_send <= heartbeat_usec + 2 * SendDelay
        BY <1>1, <3>3 DEF HeardTcp, Young, TypeInv
      <4>2. CASE staged
        <5>1. 0 \in tcp_way' BY <1>2, <4>2, Zenon DEF SenderRound, TcpOnWrite
        <5>2. tcp_recv' <= heartbeat_usec + 2 * SendDelay + 0 BY <3>0, <4>1 DEF TypeInv
        <5> QED BY <5>1, <5>2, Zenon DEF HeardTcp
      <4>3. CASE ~staged
        BY <1>2, <3>0, <3>3, <4>1, <4>3, Zenon DEF SenderRound, TcpOnWrite, HeardTcp
      <4> QED BY <4>2, <4>3, Zenon
    <3> QED BY <3>1, <3>2, <3>3, Zenon DEF TypeInv
  <2> QED BY <2>1, <2>2, <2>3, <2>4, Zenon
<1>3. CASE ReceiverRound
  <2>1. UNCHANGED <<mcast_send, tcp_send, staged, lost, sround, mcast_way, tcp_way>>
    BY <1>3, Zenon DEF ReceiverRound, sender
  <2>2. Young' BY <1>1, <2>1, Zenon DEF Young
  <2>3. mcast_recv' \in Nat /\ mcast_recv' < timeout_usec /\ HeardMcast'
    <3>1. CASE mcast_in
      <4>1. mcast_recv' = 0 BY <1>3, <3>1, Zenon DEF ReceiverRound
      <4>2. mcast_way' # {} => \E a \in mcast_way' : mcast_recv' <= LongestGap + a
        <5> SUFFICES ASSUME NEW a \in mcast_way PROVE 0 <= LongestGap + a
          BY <2>1, <4>1, Zenon
        <5>1. a \in Nat BY DEF TypeInv
        <5> QED BY <5>1
      <4>3. mcast_recv' <= lost' * Interval + mcast_send'
        BY <2>1, <4>1, Losses DEF TypeInv
      <4> QED BY <4>1, <4>2, <4>3, Zenon DEF HeardMcast
    <3>2. CASE ~mcast_in
      <4>1. mcast_recv' = mcast_recv BY <1>3, <3>2, Zenon DEF ReceiverRound
      <4>2. HeardMcast' BY <1>1, <2>1, <3>2, <4>1, Zenon DEF HeardMcast
      <4>3. mcast_recv <= LongestGap + NetDelay
        <5>1. CASE \E a \in mcast_way : mcast_recv <= LongestGap + a
          BY <5>1 DEF TypeInv
        <5>2. CASE mcast_recv <= lost * Interval + mcast_send
          <6>1. mcast_send <= Interval BY <1>1 DEF Young, Interval, TypeInv
          <6>2. lost * Interval \in Nat /\ lost * Interval + Interval <= LongestGap
            BY Losses, Zenon DEF TypeInv
          <6> QED BY <5>2, <6>1, <6>2 DEF TypeInv
        <5> QED BY <1>1, <3>2, <5>1, <5>2, Zenon DEF HeardMcast
      <4> QED BY <4>1, <4>2, <4>3 DEF TypeInv
    <3> QED BY <3>1, <3>2, Zenon DEF TypeInv
  <2>4. tcp_recv' \in Nat /\ tcp_recv' < timeout_usec /\ HeardTcp'
    <3>1. CASE tcp_in
      <4>1. tcp_recv' = 0 BY <1>3, <3>1, Zenon DEF ReceiverRound
      <4>2. tcp_way' # {} => \E a \in tcp_way' : tcp_recv' <= heartbeat_usec + 2 * SendDelay + a
        <5> SUFFICES ASSUME NEW a \in tcp_way PROVE 0 <= heartbeat_usec + 2 * SendDelay + a
          BY <2>1, <4>1, Zenon
        <5>1. a \in Nat BY DEF TypeInv
        <5> QED BY <5>1
      <4>3. tcp_recv' <= tcp_send' BY <2>1, <4>1 DEF TypeInv
      <4> QED BY <4>1, <4>2, <4>3, Zenon DEF HeardTcp
    <3>2. CASE ~tcp_in
      <4>1. tcp_recv' = tcp_recv BY <1>3, <3>2, Zenon DEF ReceiverRound
      <4>2. HeardTcp' BY <1>1, <2>1, <3>2, <4>1, Zenon DEF HeardTcp
      <4>3. tcp_recv <= heartbeat_usec + 2 * SendDelay + NetDelay
        BY <1>1, <3>2 DEF HeardTcp, Young, TypeInv
      <4> QED BY <4>1, <4>2, <4>3 DEF TypeInv
    <3> QED BY <3>1, <3>2, Zenon DEF TypeInv
  <2>5. running'
    <3>1. McastTimeout' \in {timeout_usec, INITIAL_MC_HB_USEC} /\ Timeout = timeout_usec
          /\ (McastTimeout' = timeout_usec \/ timeout_usec < McastTimeout')
      BY Zenon DEF McastTimeout, Timeout
    <3>2. mcast_recv' < McastTimeout'
      BY <2>3, <3>1 DEF HeartbeatAssumption
    <3> QED BY <1>3, <2>4, <3>1, <3>2, Zenon DEF ReceiverRound
  <2> QED BY <2>2, <2>3, <2>4, <2>5, Zenon
<1>4. CASE Tick
  <2>0. alive /\ running BY <1>0, <1>1, Zenon
  <2>1. running' /\ sround < SendDelay BY <1>4, <2>0, Zenon DEF Tick, InTime
  <2>2. \A a \in Nat : Older(a) <= a + 1 /\ Older(a) \in Nat /\ (a < Cap => Older(a) = a + 1)
    BY OneOlder, Zenon
  <2>3. sround < Cap /\ mcast_send < Cap /\ tcp_send < Cap
    BY <1>1, <2>1 DEF Young, TypeInv, Interval
  <2>4. sround' = sround + 1 /\ mcast_send' = mcast_send + 1 /\ tcp_send' = tcp_send + 1
    BY <1>4, <2>0, <2>2, <2>3, Zenon DEF Tick, TypeInv
  <2>5. mcast_recv' <= mcast_recv + 1 /\ tcp_recv' <= tcp_recv + 1
        /\ mcast_recv' \in Nat /\ tcp_recv' \in Nat
    BY <1>4, <2>0, <2>2, Zenon DEF Tick, TypeInv
  <2>6. UNCHANGED <<staged, lost, mcast_in, tcp_in>>
        /\ mcast_way' = OlderAll(mcast_way) /\ tcp_way' = OlderAll(tcp_way)
    BY <1>4, Zenon DEF Tick
  <2>7. Young' BY <1>1, <2>1, <2>4, <2>6 DEF Young, TypeInv
  <2>8. HeardMcast'
    <3>1. CASE mcast_in BY <2>6, <3>1, Zenon DEF HeardMcast
    <3>2. CASE \E a \in mcast_way : mcast_recv <= LongestGap + a
      <4>1. PICK a \in mcast_way : mcast_recv <= LongestGap + a BY <3>2, Zenon
      <4>2. a \in Nat BY DEF TypeInv
      <4>3. a + 1 \in mcast_way' BY <2>6, Zenon DEF OlderAll
      <4>4. mcast_recv' <= LongestGap + (a + 1) BY <2>5, <4>1, <4>2 DEF TypeInv
      <4> QED BY <4>3, <4>4, Zenon DEF HeardMcast
    <3>3. CASE mcast_way = {} /\ mcast_recv <= lost * Interval + mcast_send
      <4>1. mcast_way' = {} BY <2>6, <3>3, Zenon DEF OlderAll
      <4>2. lost * Interval \in Nat BY Losses, Zenon DEF TypeInv
      <4>3. mcast_recv' <= lost * Interval + mcast_send' BY <2>4, <2>5, <3>3, <4>2 DEF TypeInv
      <4> QED BY <2>6, <4>1, <4>3, Zenon DEF HeardMcast
    <3> QED BY <1>1, <3>1, <3>2, <3>3, Zenon DEF HeardMcast
  <2>9. HeardTcp'
    <3>1. CASE tcp_in BY <2>6, <3>1, Zenon DEF HeardTcp
    <3>2. CASE \E a \in tcp_way : tcp_recv <= heartbeat_usec + 2 * SendDelay + a
      <4>1. PICK a \in tcp_way : tcp_recv <= heartbeat_usec + 2 * SendDelay + a BY <3>2, Zenon
      <4>2. a \in Nat BY DEF TypeInv
      <4>3. a + 1 \in tcp_way' BY <2>6, Zenon DEF OlderAll
      <4>4. tcp_recv' <= heartbeat_usec + 2 * SendDelay + (a + 1) BY <2>5, <4>1, <4>2 DEF TypeInv
      <4> QED BY <4>3, <4>4, Zenon DEF HeardTcp
    <3>3. CASE tcp_way = {} /\ tcp_recv <= tcp_send
      <4>1. tcp_way' = {} BY <2>6, <3>3, Zenon DEF OlderAll
      <4> QED BY <2>4, <2>5, <3>3, <4>1 DEF HeardTcp, TypeInv
    <3> QED BY <1>1, <3>1, <3>2, <3>3, Zenon DEF HeardTcp
  <2> QED BY <2>1, <2>7, <2>8, <2>9, Zenon
<1>5. ASSUME NEW a \in 0..NetDelay, ArriveMcast(a) PROVE running' /\ Young' /\ HeardMcast' /\ HeardTcp'
  BY <1>1, <1>5, Zenon DEF ArriveMcast, sender, receiver, Young, HeardMcast, HeardTcp
<1>6. ASSUME NEW a \in 0..NetDelay, ArriveTcp(a) PROVE running' /\ Young' /\ HeardMcast' /\ HeardTcp'
  BY <1>1, <1>6, Zenon DEF ArriveTcp, sender, receiver, Young, HeardMcast, HeardTcp
<1>7. CASE UNCHANGED vars
  BY <1>1, <1>7, Zenon DEF vars, sender, network, receiver, Young, HeardMcast, HeardTcp
<1> QED BY <1>2, <1>3, <1>4, <1>5, <1>6, <1>7, <1>0, Zenon DEF Next, Fail

(* A living sender is never given up: with no more than max_missed_hb      *)
(* packets lost in a row and delays within the slack, the time-out of      *)
(* receiver_run is never met (receiver.c, sender.c).                       *)
THEOREM NoFalseTimeoutTheorem == WatchdogSpec => []NoFalseTimeout
<1> USE WatchdogAssumption
<1>1. WatchdogInit => TypeInv /\ LivingInv
  BY TypeInit, LivingInit, Zenon DEF WatchdogInit
<1>2. TypeInv /\ LivingInv /\ [WatchdogNext]_watchdogs => (TypeInv /\ LivingInv)'
  BY WatchdogStep, TypeStep, LivingStep, Zenon
<1>3. TypeInv /\ LivingInv => NoFalseTimeout BY Zenon DEF LivingInv, NoFalseTimeout
<1> QED BY <1>1, <1>2, <1>3, PTL DEF WatchdogSpec

(* What a receiver knows of a sender that has gone: nothing on its way is  *)
(* younger than the silence, and the time since the last packet lags       *)
(* behind the silence by no more than the delays.                          *)
SilentInv ==
    running =>
      /\ rround <= RecvDelay
      /\ mcast_recv < McastTimeout + rround
      /\ ~alive => /\ \A a \in mcast_way : silent <= a
                   /\ mcast_in => silent <= NetDelay + rround
                   /\ silent <= mcast_recv + NetDelay + RecvDelay

LEMMA SilentInit == ASSUME HeartbeatAssumption, Init PROVE SilentInv
<1>1. McastTimeout \in Nat /\ 0 < McastTimeout BY Numbers DEF McastTimeout, Timeout
<1>2. RecvDelay \in Nat BY Numbers, Zenon
<1> QED BY <1>1, <1>2 DEF Init, SilentInv

LEMMA SilentStep ==
    ASSUME HeartbeatAssumption, TypeInv, TypeInv', SilentInv, [Next]_vars PROVE SilentInv'
<1> SUFFICES ASSUME running' PROVE SilentInv'
  BY Zenon DEF SilentInv
<1>0. running
  BY Zenon DEF Next, SenderRound, Fail, ReceiverRound, Tick, ArriveMcast, ArriveTcp, vars, receiver
<1> USE Numbers
<1>1. McastTimeout \in Nat /\ McastTimeout <= Longest
      /\ (McastTimeout' = McastTimeout \/ heard' # heard)
      /\ McastTimeout' \in Nat
  BY DEF McastTimeout, Timeout, HeartbeatAssumption
<1>2. CASE SenderRound
  BY <1>0, <1>1, <1>2, Zenon DEF SenderRound, receiver, SilentInv
<1>3. CASE Fail
  <2>1. silent' = 0 /\ UNCHANGED <<mcast_way, mcast_in, mcast_recv, rround, heard>>
    BY <1>3, Zenon DEF Fail, network, receiver
  <2>2. \A a \in mcast_way : 0 <= a BY DEF TypeInv
  <2> QED BY <1>0, <1>1, <2>1, <2>2 DEF SilentInv, TypeInv
<1>4. CASE ReceiverRound
  <2>1. rround' = 0 /\ mcast_in' = FALSE /\ mcast_recv' < McastTimeout'
        /\ UNCHANGED <<alive, silent, mcast_way>>
    BY <1>4, Zenon DEF ReceiverRound, sender
  <2>2. ~alive => silent <= mcast_recv' + NetDelay + RecvDelay
    <3>1. CASE mcast_in
      <4>1. mcast_recv' = 0 BY <1>4, <3>1, Zenon DEF ReceiverRound
      <4> QED BY <1>0, <3>1, <4>1 DEF SilentInv, TypeInv
    <3>2. CASE ~mcast_in
      <4>1. mcast_recv' = mcast_recv BY <1>4, <3>2, Zenon DEF ReceiverRound
      <4> QED BY <1>0, <4>1, Zenon DEF SilentInv
    <3> QED BY <3>1, <3>2, Zenon
  <2>3. ~alive => \A a \in mcast_way : silent <= a BY <1>0, Zenon DEF SilentInv
  <2>4. rround' <= RecvDelay /\ mcast_recv' < McastTimeout' + rround'
    <3>1. mcast_recv' \in Nat BY Zenon DEF TypeInv
    <3>2. \A t \in Nat : t + 0 = t OBVIOUS
    <3>3. McastTimeout' + rround' = McastTimeout' BY <1>1, <2>1, <3>2, Zenon
    <3> QED BY <2>1, <3>1, <3>3
  <2> QED BY <2>1, <2>2, <2>3, <2>4, Zenon DEF SilentInv
<1>5. CASE Tick
  <2>1. \A a \in Nat : Older(a) <= a + 1 /\ Older(a) \in Nat /\ (a < Cap => Older(a) = a + 1)
    BY OneOlder, Zenon
  <2>2. rround < RecvDelay /\ rround < Cap /\ mcast_recv < Cap
    BY <1>0, <1>1, <1>5 DEF Tick, InTime, SilentInv, TypeInv
  <2>3. rround' = rround + 1 /\ mcast_recv' = mcast_recv + 1
    BY <1>0, <1>5, <2>1, <2>2, Zenon DEF Tick, TypeInv
  <2>4. UNCHANGED <<alive, heard, mcast_in>> /\ mcast_way' = OlderAll(mcast_way)
        /\ (~alive => silent' <= silent + 1)
    BY <1>5, <2>1, Zenon DEF Tick, TypeInv
  <2>5. ASSUME ~alive PROVE \A a \in mcast_way' : silent' <= a
    <3> TAKE b \in mcast_way'
    <3>1. PICK a \in mcast_way : b = a + 1 BY <2>4, Zenon DEF OlderAll
    <3>2. silent <= a /\ a \in Nat BY <1>0, <2>5 DEF SilentInv, TypeInv
    <3> QED BY <2>4, <2>5, <3>1, <3>2 DEF TypeInv
  <2> QED BY <1>0, <1>1, <2>2, <2>3, <2>4, <2>5 DEF SilentInv, TypeInv
<1>6. ASSUME NEW a \in 0..NetDelay, ArriveMcast(a) PROVE SilentInv'
  <2>1. a \in mcast_way /\ mcast_way' = mcast_way \ {a}
        /\ UNCHANGED <<alive, silent, mcast_recv, rround, heard>>
    BY <1>6, Zenon DEF ArriveMcast, sender, receiver
  <2>2. ~alive => silent <= NetDelay + rround
    BY <1>0, <2>1 DEF SilentInv, TypeInv
  <2> QED BY <1>0, <1>1, <2>1, <2>2, Zenon DEF SilentInv
<1>7. ASSUME NEW a \in 0..NetDelay, ArriveTcp(a) PROVE SilentInv'
  BY <1>0, <1>1, <1>7, Zenon DEF ArriveTcp, sender, receiver, SilentInv
<1>8. CASE UNCHANGED vars
  BY <1>0, <1>1, <1>8, Zenon DEF vars, sender, network, receiver, SilentInv
<1> QED BY <1>2, <1>3, <1>4, <1>5, <1>6, <1>7, <1>8, Zenon DEF Next

(* A receiver whose sender's host has failed ends: the silence it bears is *)
(* the time-out of receiver_run, the way of the last packet and two of its *)
(* own rounds (receiver.c).                                                *)
THEOREM SilenceNoticedTheorem == WatchdogSpec => []SilenceNoticed
<1> USE WatchdogAssumption
<1>1. WatchdogInit => TypeInv /\ SilentInv
  BY TypeInit, SilentInit, Zenon DEF WatchdogInit
<1>2. TypeInv /\ SilentInv /\ [WatchdogNext]_watchdogs => (TypeInv /\ SilentInv)'
  BY WatchdogStep, TypeStep, SilentStep, Zenon
<1>3. TypeInv /\ SilentInv => SilenceNoticed
  <2> SUFFICES ASSUME TypeInv, SilentInv, ~alive, running
               PROVE  silent <= (IF heard THEN timeout_usec ELSE Longest) + NetDelay + 2 * RecvDelay
    BY Numbers DEF SilenceNoticed, TypeInv
  <2>1. McastTimeout = IF heard THEN timeout_usec ELSE Longest
    BY Zenon DEF McastTimeout, Timeout, Longest
  <2>2. McastTimeout \in Nat BY <2>1, Numbers, Zenon
  <2>3. silent <= McastTimeout + NetDelay + 2 * RecvDelay
    BY <2>2, Numbers DEF SilentInv, TypeInv
  <2> QED BY <2>1, <2>3, Zenon
<1> QED BY <1>1, <1>2, <1>3, PTL DEF WatchdogSpec

-----------------------------------------------------------------------------
(* The watchdog over the writer of a storage.  The states and times its    *)
(* processes can be in, with the bounds that the delays put on the ages of *)
(* their last steps.                                                       *)
OrphanType ==
    /\ touched \in O!Age /\ cage \in O!Age /\ gone \in O!Age /\ tage \in O!Age
    /\ stamp \in O!Age /\ sage \in O!Age /\ swhen \in O!Age /\ rage \in O!Age /\ rnow \in O!Age
    /\ created \in Nat /\ screated \in Nat /\ rcreated \in Nat
    /\ tpc \in {"off", "clock", "store", "sleep"}
    /\ tpc = "sleep" => tage <= Period + TouchDelay
    /\ tpc \in {"clock", "store"} => tage <= TouchDelay
    /\ spc \in O!Watching => sage <= SenderDelay
    /\ rpc \in O!Watching => rage <= ReaderDelay

(* While the writer has been alive all the time, what it has touched once  *)
(* it touches again in time, and nobody watches what was never touched.    *)
TouchedInv ==
    ~lapsed =>
      /\ wpc # "dead" /\ (tpc # "off" => wpc = "touching")
      /\ tpc = "store" => stamp = tage
      /\ touched < OrphanCap =>
           /\ listed
           /\ \/ tpc = "sleep" /\ touched <= TouchDelay + tage
              \/ tpc = "store" /\ touched <= Period + 2 * TouchDelay + tage
      /\ spc # "closed" \/ rpc # "closed" => touched < OrphanCap
      /\ spc = "clock" => swhen <= Period + 3 * TouchDelay + sage
      /\ spc # "orphaned" /\ rpc # "orphaned"

(* How long a dead writer can go unnoticed, at each place in the loops. *)
DeathInv ==
    /\ rpc = "when" => rnow = rage
    /\ wpc = "dead" =>
         /\ tpc = "off" /\ gone <= touched
         /\ spc = "when" => gone <= OrphanTimeout + sage
         /\ spc = "clock" => gone <= OrphanTimeout + SenderDelay + sage /\ gone <= swhen
         /\ rpc = "clock" => gone <= OrphanTimeout + ReaderDelay + rage
         /\ rpc = "when" => gone <= OrphanTimeout + 2 * ReaderDelay + rage

(* How long a storage made anew can go unnoticed. *)
CreatedInv ==
    /\ screated # created => /\ spc = "when" => cage <= sage
                             /\ spc = "clock" => cage <= SenderDelay + sage
    /\ rcreated # created => /\ rpc = "when" => cage <= rage
                             /\ rpc = "clock" => cage <= ReaderDelay + rage

(* What the constants of the orphan watchdog amount to. *)
LEMMA OrphanNumbers ==
    /\ Period \in Nat /\ OrphanTimeout \in Nat /\ TouchDelay \in Nat /\ SenderDelay \in Nat
    /\ ReaderDelay \in Nat /\ OrphanCap \in Nat /\ MaxCreated \in Nat
    /\ Period + 3 * TouchDelay + SenderDelay < OrphanTimeout
    /\ OrphanTimeout + 3 * (SenderDelay + ReaderDelay) < OrphanCap
BY WatchdogAssumption, Zenon DEF O!OrphanAssumption

(* The age of a stored time grows by one a tick, up to the cap. *)
LEMMA OrphanOlder ==
    \A a \in O!Age : /\ O!Older(a) \in O!Age /\ a <= O!Older(a) /\ O!Older(a) <= a + 1
                     /\ a < OrphanCap => O!Older(a) = a + 1
                     /\ \A b \in O!Age : a <= b => O!Older(a) <= O!Older(b)
BY OrphanNumbers DEF O!Older, O!Age

LEMMA OrphanInit == O!Init => OrphanType /\ TouchedInv /\ DeathInv /\ CreatedInv
BY OrphanNumbers DEF O!Init, O!Age, O!Watching, OrphanType, TouchedInv, DeathInv, CreatedInv

LEMMA OrphanTypeStep == ASSUME OrphanType, [O!Next]_orphan PROVE OrphanType'
<1> USE OrphanNumbers DEF OrphanType, O!Age, O!Watching
<1>1. CASE O!Tick
  <2>1. \A a \in O!Age : O!Older(a) \in O!Age /\ O!Older(a) <= a + 1
    BY OrphanOlder, Zenon
  <2>2. /\ touched' \in O!Age /\ cage' \in O!Age /\ gone' \in O!Age /\ tage' \in O!Age
        /\ stamp' \in O!Age /\ sage' \in O!Age /\ swhen' \in O!Age /\ rage' \in O!Age /\ rnow' \in O!Age
    BY <1>1, <2>1 DEF O!Tick, O!OlderIf
  <2>3. /\ tpc' = "sleep" => tage' <= Period + TouchDelay
        /\ tpc' \in {"clock", "store"} => tage' <= TouchDelay
    BY <1>1, <2>1 DEF O!Tick, O!OlderIf, O!InTime
  <2>4. /\ spc' \in O!Watching => sage' <= SenderDelay
        /\ rpc' \in O!Watching => rage' <= ReaderDelay
    BY <1>1, <2>1 DEF O!Tick, O!OlderIf, O!InTime
  <2> QED BY <1>1, <2>2, <2>3, <2>4, Zenon DEF O!Tick
<1>2. CASE O!StorageCreate \/ O!ToucherCreate \/ O!AddStorage \/ O!Die
  BY <1>2 DEF O!StorageCreate, O!ToucherCreate, O!AddStorage, O!Die, O!writer, O!touch, O!sender, O!reader
<1>3. CASE O!TouchClock \/ O!TouchStore
  BY <1>3 DEF O!TouchClock, O!TouchStore, O!writer, O!sender, O!reader
<1>4. CASE O!SenderOpen \/ O!SenderWhen \/ O!SenderCheck
  BY <1>4 DEF O!SenderOpen, O!SenderWhen, O!SenderCheck, O!writer, O!touch, O!reader
<1>5. CASE O!ReaderOpen \/ O!ReaderClock \/ O!ReaderCheck
  BY <1>5 DEF O!ReaderOpen, O!ReaderClock, O!ReaderCheck, O!writer, O!touch, O!sender
<1>6. CASE UNCHANGED orphan
  BY <1>6, Zenon DEF orphan
<1> QED BY <1>1, <1>2, <1>3, <1>4, <1>5, <1>6, Zenon DEF O!Next, O!Writer, O!Users

LEMMA TouchedStep ==
    ASSUME ~Eager, OrphanType, TouchedInv, [O!Next]_orphan PROVE TouchedInv'
<1> SUFFICES ASSUME ~lapsed' PROVE TouchedInv'
  BY Zenon DEF TouchedInv
<1>0. ~lapsed
  <2>1. CASE O!Die BY <2>1, Zenon DEF O!Die
  <2>2. CASE O!StorageCreate \/ O!ToucherCreate \/ O!AddStorage \/ O!TouchClock \/ O!TouchStore
    BY <2>2, Zenon DEF O!StorageCreate, O!ToucherCreate, O!AddStorage, O!TouchClock, O!TouchStore, O!writer
  <2>3. CASE O!Users
    BY <2>3, Zenon DEF O!Users, O!SenderOpen, O!SenderWhen, O!SenderCheck, O!ReaderOpen, O!ReaderClock,
           O!ReaderCheck, O!writer
  <2>4. CASE O!Tick BY <2>4, Zenon DEF O!Tick
  <2>5. CASE UNCHANGED orphan BY <2>5, Zenon DEF orphan
  <2> QED BY <2>1, <2>2, <2>3, <2>4, <2>5, Zenon DEF O!Next, O!Writer
<1>1. /\ wpc # "dead" /\ (tpc # "off" => wpc = "touching") /\ (tpc = "store" => stamp = tage)
      /\ touched < OrphanCap =>
           /\ listed
           /\ \/ tpc = "sleep" /\ touched <= TouchDelay + tage
              \/ tpc = "store" /\ touched <= Period + 2 * TouchDelay + tage
      /\ spc # "closed" \/ rpc # "closed" => touched < OrphanCap
      /\ spc = "clock" => swhen <= Period + 3 * TouchDelay + sage
      /\ spc # "orphaned" /\ rpc # "orphaned"
  BY <1>0, Zenon DEF TouchedInv
<1>2. touched < OrphanCap => touched <= Period + 3 * TouchDelay
  BY <1>1, OrphanNumbers DEF OrphanType, O!Age
<1> USE OrphanNumbers DEF O!Age, O!Watching
<1>3. CASE O!StorageCreate \/ O!ToucherCreate \/ O!AddStorage
  BY <1>1, <1>3, Zenon DEF O!StorageCreate, O!ToucherCreate, O!AddStorage, O!writer, O!touch, O!sender, O!reader,
     OrphanType, TouchedInv
<1>4. CASE O!Die
  BY <1>4, Zenon DEF O!Die
<1>5. CASE O!TouchClock
  BY <1>1, <1>5 DEF O!TouchClock, O!writer, O!sender, O!reader, OrphanType, TouchedInv
<1>6. CASE O!TouchStore
  BY <1>1, <1>6 DEF O!TouchStore, O!writer, O!sender, O!reader, OrphanType, TouchedInv
<1>7. CASE O!SenderOpen \/ O!ReaderOpen
  BY <1>1, <1>7, Zenon DEF O!SenderOpen, O!ReaderOpen, O!MayOpen, O!writer, O!touch, O!sender, O!reader, TouchedInv
<1>8. CASE O!SenderWhen
  BY <1>1, <1>2, <1>8 DEF O!SenderWhen, O!writer, O!touch, O!reader, OrphanType, TouchedInv
<1>9. CASE O!SenderCheck
  <2>1. ~(swhen >= OrphanTimeout)
    BY <1>1, <1>9 DEF O!SenderCheck, OrphanType
  <2> QED BY <1>1, <1>9, <2>1, Zenon DEF O!SenderCheck, O!writer, O!touch, O!reader, TouchedInv
<1>10. CASE O!ReaderClock
  BY <1>1, <1>10, Zenon DEF O!ReaderClock, O!writer, O!touch, O!sender, TouchedInv
<1>11. CASE O!ReaderCheck
  <2>1. ~(touched - rnow >= OrphanTimeout)
    BY <1>1, <1>2, <1>11 DEF O!ReaderCheck, OrphanType
  <2> QED BY <1>1, <1>11, <2>1, Zenon DEF O!ReaderCheck, O!writer, O!touch, O!sender, TouchedInv
<1>12. CASE O!Tick
  <2>1. \A a \in O!Age : /\ O!Older(a) \in O!Age /\ a <= O!Older(a) /\ O!Older(a) <= a + 1
                         /\ (a < OrphanCap => O!Older(a) = a + 1)
    BY OrphanOlder, Zenon
  <2>2. touched' = O!Older(touched) /\ UNCHANGED <<wpc, lapsed, tpc, listed, spc, rpc>>
    BY <1>12, Zenon DEF O!Tick
  <2>3. tpc # "off" => tage' = tage + 1 /\ tage \in O!Age
    BY <1>1, <1>12, <2>1 DEF O!Tick, O!OlderIf, O!InTime, OrphanType
  <2>4. tpc = "store" => stamp' = tage'
    BY <1>1, <1>12, Zenon DEF O!Tick, O!OlderIf
  <2>5. spc = "clock" => swhen' <= swhen + 1 /\ sage' = sage + 1
    BY <1>12, <2>1 DEF O!Tick, O!OlderIf, O!InTime, OrphanType
  <2>6. touched < OrphanCap => touched' < OrphanCap
    BY <1>2, <2>1, <2>2 DEF OrphanType
  <2>7. touched' < OrphanCap => touched < OrphanCap /\ touched' <= touched + 1
    BY <2>1, <2>2 DEF OrphanType
  <2>8. touched' < OrphanCap =>
          /\ listed
          /\ \/ tpc = "sleep" /\ touched' <= TouchDelay + tage'
             \/ tpc = "store" /\ touched' <= Period + 2 * TouchDelay + tage'
    BY <1>1, <2>1, <2>2, <2>3, <2>7 DEF OrphanType
  <2>9. spc = "clock" => swhen' <= Period + 3 * TouchDelay + sage'
    <3>1. swhen' \in Nat
      BY <1>12, <2>1 DEF O!Tick, O!OlderIf, OrphanType
    <3> QED BY <1>1, <2>5, <3>1 DEF OrphanType
  <2> QED BY <1>1, <2>2, <2>4, <2>6, <2>8, <2>9, Zenon DEF TouchedInv
<1>13. CASE UNCHANGED orphan
  BY <1>1, <1>13, Zenon DEF orphan, TouchedInv
<1> QED BY <1>3, <1>4, <1>5, <1>6, <1>7, <1>8, <1>9, <1>10, <1>11, <1>12, <1>13, Zenon
        DEF O!Next, O!Writer, O!Users

LEMMA DeathStep ==
    ASSUME OrphanType, OrphanType', DeathInv, [O!Next]_orphan PROVE DeathInv'
<1> USE OrphanNumbers DEF O!Age, O!Watching
<1>1. CASE O!StorageCreate \/ O!ToucherCreate \/ O!AddStorage
  BY <1>1, Zenon DEF O!StorageCreate, O!ToucherCreate, O!AddStorage, O!writer, O!touch, O!sender, O!reader, DeathInv
<1>2. CASE O!Die
  BY <1>2 DEF O!Die, O!sender, O!reader, OrphanType, DeathInv
<1>3. CASE O!TouchClock \/ O!TouchStore
  BY <1>3, Zenon DEF O!TouchClock, O!TouchStore, O!writer, O!sender, O!reader, DeathInv
<1>4. CASE O!SenderOpen \/ O!ReaderOpen
  BY <1>4, Zenon DEF O!SenderOpen, O!ReaderOpen, O!MayOpen, O!writer, O!touch, O!sender, O!reader, DeathInv
<1>5. CASE O!SenderWhen
  BY <1>5 DEF O!SenderWhen, O!writer, O!touch, O!reader, OrphanType, DeathInv
<1>6. CASE O!SenderCheck
  BY <1>6 DEF O!SenderCheck, O!writer, O!touch, O!reader, OrphanType, DeathInv
<1>7. CASE O!ReaderClock
  BY <1>7 DEF O!ReaderClock, O!writer, O!touch, O!sender, OrphanType, DeathInv
<1>8. CASE O!ReaderCheck
  BY <1>8 DEF O!ReaderCheck, O!writer, O!touch, O!sender, OrphanType, DeathInv
<1>9. CASE O!Tick
  <2>1. \A a \in O!Age : /\ O!Older(a) <= a + 1 /\ (a < OrphanCap => O!Older(a) = a + 1)
                         /\ \A b \in O!Age : a <= b => O!Older(a) <= O!Older(b)
    BY OrphanOlder, Zenon
  <2>2. UNCHANGED <<wpc, tpc, spc, rpc>> /\ touched' = O!Older(touched)
    BY <1>9, Zenon DEF O!Tick
  <2>3. spc \in O!Watching => sage' = sage + 1
    BY <1>9, <2>1 DEF O!Tick, O!OlderIf, O!InTime, OrphanType
  <2>4. rpc \in O!Watching => rage' = rage + 1
    BY <1>9, <2>1 DEF O!Tick, O!OlderIf, O!InTime, OrphanType
  <2>5. rpc = "when" => rnow' = rage'
    BY <1>9, Zenon DEF O!Tick, O!OlderIf, DeathInv
  <2>6. spc = "clock" => swhen' = O!Older(swhen)
    BY <1>9, Zenon DEF O!Tick, O!OlderIf
  <2>7. wpc = "dead" => gone' = O!Older(gone) /\ gone' <= gone + 1
    BY <1>9, <2>1, Zenon DEF O!Tick, O!OlderIf, OrphanType
  <2>8. wpc = "dead" => gone' <= touched' /\ (spc = "clock" => gone' <= swhen')
    BY <2>1, <2>2, <2>6, <2>7, Zenon DEF OrphanType, DeathInv
  <2>9. wpc = "dead" => /\ spc = "when" => gone' <= OrphanTimeout + sage'
                        /\ spc = "clock" => gone' <= OrphanTimeout + SenderDelay + sage'
    BY <2>3, <2>7 DEF OrphanType, DeathInv
  <2>10. wpc = "dead" => /\ rpc = "clock" => gone' <= OrphanTimeout + ReaderDelay + rage'
                         /\ rpc = "when" => gone' <= OrphanTimeout + 2 * ReaderDelay + rage'
    BY <2>4, <2>7 DEF OrphanType, DeathInv
  <2> QED BY <2>2, <2>5, <2>8, <2>9, <2>10, Zenon DEF DeathInv
<1>10. CASE UNCHANGED orphan
  BY <1>10, Zenon DEF orphan, DeathInv
<1> QED BY <1>1, <1>2, <1>3, <1>4, <1>5, <1>6, <1>7, <1>8, <1>9, <1>10, Zenon DEF O!Next, O!Writer, O!Users

LEMMA CreatedStep ==
    ASSUME OrphanType, OrphanType', CreatedInv, [O!Next]_orphan PROVE CreatedInv'
<1> USE OrphanNumbers DEF O!Age, O!Watching
<1>1. CASE O!StorageCreate
  BY <1>1 DEF O!StorageCreate, O!touch, O!sender, O!reader, OrphanType, CreatedInv
<1>2. CASE O!ToucherCreate \/ O!AddStorage \/ O!Die \/ O!TouchClock \/ O!TouchStore
  BY <1>2, Zenon DEF O!ToucherCreate, O!AddStorage, O!Die, O!TouchClock, O!TouchStore, O!writer, O!touch,
     O!sender, O!reader, CreatedInv
<1>3. CASE O!SenderOpen \/ O!SenderWhen \/ O!SenderCheck
  <2>1. UNCHANGED <<created, cage, rpc, rage, rcreated>>
    BY <1>3, Zenon DEF O!SenderOpen, O!SenderWhen, O!SenderCheck, O!reader
  <2>2. CASE O!SenderOpen
    BY <2>1, <2>2, Zenon DEF O!SenderOpen, CreatedInv
  <2>3. CASE O!SenderWhen
    <3>1. spc = "when" /\ sage <= SenderDelay /\ sage' = 0 /\ spc' = "clock" /\ screated' = screated
      BY <2>3, Zenon DEF O!SenderWhen, OrphanType
    <3> QED BY <2>1, <3>1 DEF OrphanType, CreatedInv
  <2>4. CASE O!SenderCheck
    BY <2>1, <2>4, Zenon DEF O!SenderCheck, CreatedInv
  <2> QED BY <1>3, <2>2, <2>3, <2>4, Zenon
<1>4. CASE O!ReaderOpen \/ O!ReaderClock \/ O!ReaderCheck
  <2>1. UNCHANGED <<created, cage, spc, sage, screated>>
    BY <1>4, Zenon DEF O!ReaderOpen, O!ReaderClock, O!ReaderCheck, O!sender
  <2>2. CASE O!ReaderOpen
    BY <2>1, <2>2, Zenon DEF O!ReaderOpen, CreatedInv
  <2>3. CASE O!ReaderClock
    BY <2>1, <2>3, Zenon DEF O!ReaderClock, CreatedInv
  <2>4. CASE O!ReaderCheck
    <3>1. rpc = "when" /\ rage <= ReaderDelay /\ rage' = 0 /\ rpc' # "when" /\ rcreated' = rcreated
      BY <2>4, Zenon DEF O!ReaderCheck, OrphanType
    <3> QED BY <2>1, <3>1 DEF OrphanType, CreatedInv
  <2> QED BY <1>4, <2>2, <2>3, <2>4, Zenon
<1>5. CASE O!Tick
  <2>1. \A a \in O!Age : O!Older(a) <= a + 1 /\ (a < OrphanCap => O!Older(a) = a + 1)
    BY OrphanOlder, Zenon
  <2>2. UNCHANGED <<created, spc, screated, rpc, rcreated>>
    BY <1>5, Zenon DEF O!Tick
  <2>3. spc \in O!Watching => sage' = sage + 1
    BY <1>5, <2>1 DEF O!Tick, O!OlderIf, O!InTime, OrphanType
  <2>4. rpc \in O!Watching => rage' = rage + 1
    BY <1>5, <2>1 DEF O!Tick, O!OlderIf, O!InTime, OrphanType
  <2>5. cage' <= cage + 1
    BY <1>5, <2>1 DEF O!Tick, O!OlderIf, OrphanType
  <2>0. cage \in Nat /\ cage' \in Nat /\ sage \in Nat /\ rage \in Nat
    BY DEF OrphanType
  <2>6. screated' # created' => /\ spc' = "when" => cage' <= sage'
                                /\ spc' = "clock" => cage' <= SenderDelay + sage'
    BY <2>0, <2>2, <2>3, <2>5 DEF CreatedInv
  <2>7. rcreated' # created' => /\ rpc' = "when" => cage' <= rage'
                                /\ rpc' = "clock" => cage' <= ReaderDelay + rage'
    BY <2>0, <2>2, <2>4, <2>5 DEF CreatedInv
  <2> QED BY <2>6, <2>7, Zenon DEF CreatedInv
<1>6. CASE UNCHANGED orphan
  BY <1>6, Zenon DEF orphan, CreatedInv
<1> QED BY <1>1, <1>2, <1>3, <1>4, <1>5, <1>6, Zenon DEF O!Next, O!Writer, O!Users

(* With the touch period and the delays within ORPHAN-TIMEOUT, a writer    *)
(* that has lived all the time is never given up by a sender or a reader   *)
(* that found its storage touched (toucher.c, sender_run, reader.c).       *)
THEOREM NoFalseOrphanTheorem == ASSUME ~Eager PROVE WatchdogSpec => []NoFalseOrphan
<1>1. WatchdogInit => OrphanType /\ TouchedInv
  BY OrphanInit, Zenon DEF WatchdogInit
<1>2. OrphanType /\ TouchedInv /\ [WatchdogNext]_watchdogs => (OrphanType /\ TouchedInv)'
  BY WatchdogStep, OrphanTypeStep, TouchedStep, Zenon
<1>3. OrphanType /\ TouchedInv => NoFalseOrphan
  BY Zenon DEF TouchedInv, NoFalseOrphan, O!NoFalseOrphan
<1> QED BY <1>1, <1>2, <1>3, PTL DEF WatchdogSpec

(* A sender or a reader of a storage whose writer has died, or has made it *)
(* anew, does not go on with it for longer than ORPHAN-TIMEOUT and the     *)
(* delays of its loop, or than a round of its loop.                        *)
THEOREM WriterLossNoticedTheorem == WatchdogSpec => []WriterLossNoticed
<1>1. WatchdogInit => OrphanType /\ DeathInv /\ CreatedInv
  BY OrphanInit, Zenon DEF WatchdogInit
<1>2. OrphanType /\ DeathInv /\ CreatedInv /\ [WatchdogNext]_watchdogs
        => (OrphanType /\ DeathInv /\ CreatedInv)'
  BY WatchdogStep, OrphanTypeStep, DeathStep, CreatedStep, Zenon
<1>3. OrphanType /\ DeathInv /\ CreatedInv => WriterLossNoticed
  <2> SUFFICES ASSUME OrphanType, DeathInv, CreatedInv
               PROVE  O!DeathNoticed /\ O!RecreationNoticed
    BY Zenon DEF WriterLossNoticed
  <2>1. O!DeathNoticed
    BY OrphanNumbers DEF O!DeathNoticed, OrphanType, DeathInv, O!Age, O!Watching
  <2>2. O!RecreationNoticed
    BY OrphanNumbers DEF O!RecreationNoticed, OrphanType, CreatedInv, O!Age, O!Watching
  <2> QED BY <2>1, <2>2, Zenon
<1> QED BY <1>1, <1>2, <1>3, PTL DEF WatchdogSpec

-----------------------------------------------------------------------------
(* A step of the threads is one of a single part, or leaves them alone. *)
LEMMA ThreadsStep ==
    ASSUME [ThreadsNext]_threads
    PROVE  [D!Next]_d_vars /\ [T!Next]_t_vars /\ [A!Next]_a_vars /\ [C!Next]_c_vars
<1>1. CASE InDaemon /\ D!Next
  BY <1>1, Zenon DEF InDaemon
<1>2. CASE InToucher /\ T!Next
  BY <1>2, Zenon DEF InToucher
<1>3. CASE InAdvert /\ A!Next
  BY <1>3, Zenon DEF InAdvert
<1>4. CASE InCommander /\ C!Next
  BY <1>4, Zenon DEF InCommander
<1>5. CASE (InIndex /\ I!Next) \/ (InFiles /\ F!Next) \/ UNCHANGED threads
  BY <1>5, Zenon DEF InIndex, InFiles, threads
<1> QED BY <1>1, <1>2, <1>3, <1>4, <1>5, Zenon DEF ThreadsNext

-----------------------------------------------------------------------------
(* The statistics thread.  stats_lock keeps the two threads apart: a packet *)
(* is being counted or the buffers change places, never both.              *)
Counts == [bytes : Nat, packets : Nat]

DaemonType ==
    /\ d_stats \in [{0, 1} -> Counts] /\ d_next \in {0, 1}
    /\ d_sent \in Nat /\ d_shown \in Counts
    /\ d_tpc \in {"none", "test", "signal", "sleep", "show", "showPackets", "roll", "swap",
                 "zero", "flush", "quit", "unmark", "end", "killed"}
    /\ d_mpc = "create" => d_tpc = "none"
    /\ d_mpc \in {"bytes", "packets"} => d_lock = "main"
    /\ d_tpc \in {"swap", "zero"} => d_lock = "stats"
    /\ d_curr_is \in {"waiting", "printed"}
    /\ d_tpc \in {"roll", "swap"} => d_curr_is = "printed"
    /\ d_tpc \in {"none", "test", "signal", "sleep", "show", "showPackets", "zero", "flush"} =>
          d_curr_is = "waiting"

(* What the two buffers hold that has not been printed: while the printed  *)
(* buffer waits to be zeroed it counts no more, whichever of the two it is.*)
BytesHeld ==
    CASE d_tpc = "zero" -> d_stats[1 - d_next].bytes
      [] d_tpc = "showPackets" \/ d_curr_is = "printed" -> d_stats[d_next].bytes
      [] OTHER -> d_stats[1 - d_next].bytes + d_stats[d_next].bytes

PacketsHeld ==
    CASE d_tpc = "zero" -> d_stats[1 - d_next].packets
      [] d_curr_is = "printed" -> d_stats[d_next].packets
      [] OTHER -> d_stats[1 - d_next].packets + d_stats[d_next].packets

(* At every step of the two threads the counts add up, but for what the    *)
(* packet in hand has not added yet.                                       *)
SumInv ==
    d_tpc # "killed" =>
      /\ d_shown.bytes + BytesHeld + (IF d_mpc = "bytes" THEN 1 ELSE 0) = d_sent
      /\ d_shown.packets + PacketsHeld + (IF d_mpc \in {"bytes", "packets"} THEN 1 ELSE 0)
           = d_sent

(* The memory is given back only after the join. *)
MemoryInv ==
    /\ d_mpc = "destroy" => d_tpc = "end"
    /\ d_memory = "freed" => d_mpc = "exit" /\ d_tpc = "end"

LEMMA DaemonInit == D!Init => DaemonType /\ SumInv /\ MemoryInv
BY DEF D!Init, D!Zero, DaemonType, SumInv, MemoryInv, BytesHeld, PacketsHeld, Counts

LEMMA MemoryStep == ASSUME MemoryInv, [D!Next]_d_vars PROVE MemoryInv'
<1>1. CASE D!Main
  BY <1>1, Zenon DEF D!Main, D!ThreadCreate, D!MarkRunning, D!RunBegin, D!CountLock, D!CountBytes,
              D!CountPackets, D!ThreadStop, D!Join, D!ThreadDestroy, D!thread, D!counts, MemoryInv
<1>2. CASE D!ToldToQuit \/ D!RunFails \/ D!Signal
  BY <1>2, Zenon DEF D!ToldToQuit, D!RunFails, D!Signal, D!thread, MemoryInv
<1>3. CASE D!Stats
  BY <1>3, Zenon DEF D!Stats, D!TestStopping, D!AnyRaised, D!Sleep, D!ShowBytes, D!ShowPackets,
              D!RollLock, D!RollFails, D!RollSwap, D!RollZero, D!Flush, D!StopRun,
              D!MarkStopped, D!Goto, D!thread, MemoryInv
<1>4. CASE UNCHANGED d_vars
  BY <1>4, Zenon DEF d_vars, MemoryInv
<1> QED BY <1>1, <1>2, <1>3, <1>4, Zenon DEF D!Next

LEMMA DaemonTypeStep == ASSUME DaemonType, [D!Next]_d_vars PROVE DaemonType'
<1> USE DEF DaemonType
<1>0. CASE D!ThreadCreate \/ D!MarkRunning \/ D!RunBegin \/ D!CountLock
  BY <1>0 DEF D!ThreadCreate, D!MarkRunning, D!RunBegin, D!CountLock, D!counts
<1>1. CASE D!ThreadStop \/ D!Join \/ D!ThreadDestroy \/ D!ToldToQuit \/ D!RunFails \/ D!Signal
  BY <1>1 DEF D!ThreadStop, D!Join, D!ThreadDestroy, D!ToldToQuit, D!RunFails, D!Signal, D!counts
<1>2. CASE D!CountBytes
  BY <1>2 DEF D!CountBytes, Counts
<1>3. CASE D!CountPackets
  BY <1>3 DEF D!CountPackets, Counts
<1>4. CASE D!TestStopping \/ D!AnyRaised \/ D!Sleep \/ D!RollLock \/ D!RollFails \/ D!Flush
           \/ D!StopRun \/ D!MarkStopped
  BY <1>4, Zenon DEF D!TestStopping, D!AnyRaised, D!Sleep, D!RollLock, D!RollFails, D!Flush,
              D!StopRun, D!MarkStopped, D!Goto, D!counts
<1>5. CASE D!ShowBytes \/ D!ShowPackets
  BY <1>5 DEF D!ShowBytes, D!ShowPackets, D!Goto, D!curr, Counts
<1>6. CASE D!RollSwap \/ D!RollZero
  BY <1>6 DEF D!RollSwap, D!RollZero, D!Goto, D!curr, D!Zero, Counts
<1>7. CASE UNCHANGED d_vars
  BY <1>7, Zenon DEF d_vars
<1>8. CASE D!Main
  BY <1>0, <1>1, <1>2, <1>3, <1>8, Zenon DEF D!Main
<1>9. CASE D!Stats
  BY <1>4, <1>5, <1>6, <1>9, Zenon DEF D!Stats
<1> HIDE DEF DaemonType
<1> QED BY <1>0, <1>1, <1>7, <1>8, <1>9, Zenon DEF D!Next

(* Both buffers' counts are numbers. *)
LEMMA CountsRead ==
    ASSUME DaemonType
    PROVE  /\ d_shown.bytes \in Nat /\ d_shown.packets \in Nat /\ 1 - d_next \in {0, 1}
           /\ \A b \in {0, 1} : d_stats[b].bytes \in Nat /\ d_stats[b].packets \in Nat
BY DEF DaemonType, Counts

LEMMA SumStep == ASSUME DaemonType, SumInv, [D!Next]_d_vars PROVE SumInv'
<1> USE CountsRead DEF SumInv, BytesHeld, PacketsHeld
<1>0. d_next \in {0, 1} /\ d_sent \in Nat
  BY Zenon DEF DaemonType
<1>1. CASE D!ThreadCreate \/ D!MarkRunning \/ D!RunBegin \/ D!ThreadStop \/ D!Join
           \/ D!ThreadDestroy \/ D!ToldToQuit \/ D!RunFails \/ D!Signal
  BY <1>1, Zenon DEF D!ThreadCreate, D!MarkRunning, D!RunBegin, D!ThreadStop, D!Join,
              D!ThreadDestroy, D!ToldToQuit, D!RunFails, D!Signal, D!counts, DaemonType
<1>2. CASE D!CountLock
  BY <1>0, <1>2 DEF D!CountLock
<1>3. CASE D!CountBytes
  <2>1. /\ d_mpc = "bytes" /\ d_mpc' = "packets" /\ d_tpc # "zero"
        /\ UNCHANGED <<d_tpc, d_next, d_sent, d_shown, d_curr_is>>
    BY <1>3, Zenon DEF D!CountBytes, DaemonType
  <2>2. /\ d_stats'[d_next].bytes = d_stats[d_next].bytes + 1
        /\ d_stats'[d_next].packets = d_stats[d_next].packets
        /\ d_stats'[1 - d_next] = d_stats[1 - d_next]
    BY <1>0, <1>3 DEF D!CountBytes, DaemonType, Counts
  <2> QED BY <1>0, <2>1, <2>2
<1>4. CASE D!CountPackets
  <2>1. /\ d_mpc = "packets" /\ d_mpc' = "run" /\ d_tpc # "zero"
        /\ UNCHANGED <<d_tpc, d_next, d_sent, d_shown, d_curr_is>>
    BY <1>4, Zenon DEF D!CountPackets, DaemonType
  <2>2. /\ d_stats'[d_next].packets = d_stats[d_next].packets + 1
        /\ d_stats'[d_next].bytes = d_stats[d_next].bytes
        /\ d_stats'[1 - d_next] = d_stats[1 - d_next]
    BY <1>0, <1>4 DEF D!CountPackets, DaemonType, Counts
  <2> QED BY <1>0, <2>1, <2>2
<1>5. CASE D!TestStopping \/ D!AnyRaised \/ D!Sleep \/ D!RollLock \/ D!RollFails \/ D!Flush
           \/ D!StopRun \/ D!MarkStopped
  BY <1>5, Zenon DEF D!TestStopping, D!AnyRaised, D!Sleep, D!RollLock, D!RollFails, D!Flush,
              D!StopRun, D!MarkStopped, D!Goto, D!counts
<1>6. CASE D!ShowBytes
  <2>1. /\ d_shown'.bytes = d_shown.bytes + d_stats[1 - d_next].bytes
        /\ d_shown'.packets = d_shown.packets
    BY <1>6, Zenon DEF D!ShowBytes, D!curr, DaemonType, Counts
  <2>2. /\ d_tpc = "show" /\ d_tpc' = "showPackets" /\ d_curr_is = "waiting"
        /\ UNCHANGED <<d_mpc, d_stats, d_next, d_sent, d_curr_is>>
    BY <1>6, Zenon DEF D!ShowBytes, D!Goto, DaemonType
  <2> QED BY <1>0, <2>1, <2>2
<1>7. CASE D!ShowPackets
  <2>1. /\ d_shown'.packets = d_shown.packets + d_stats[1 - d_next].packets
        /\ d_shown'.bytes = d_shown.bytes
    BY <1>7, Zenon DEF D!ShowPackets, D!curr, DaemonType, Counts
  <2>2. /\ d_tpc = "showPackets" /\ d_tpc' = "roll" /\ d_curr_is = "waiting" /\ d_curr_is' = "printed"
        /\ UNCHANGED <<d_mpc, d_stats, d_next, d_sent>>
    BY <1>7, Zenon DEF D!ShowPackets, D!Goto, DaemonType
  <2> QED BY <1>0, <2>1, <2>2
<1>8. CASE D!RollSwap
  <2>1. 1 - d_next' = d_next
    BY <1>0, <1>8 DEF D!RollSwap, D!curr
  <2>2. /\ d_tpc = "swap" /\ d_tpc' = "zero" /\ d_curr_is = "printed" /\ d_curr_is' = "waiting"
        /\ UNCHANGED <<d_mpc, d_stats, d_sent, d_shown>>
    BY <1>8, Zenon DEF D!RollSwap, D!Goto, DaemonType
  <2> QED BY <1>0, <2>1, <2>2
<1>9. CASE D!RollZero
  <2>1. /\ d_stats'[d_next].bytes = 0 /\ d_stats'[d_next].packets = 0
        /\ d_stats'[1 - d_next] = d_stats[1 - d_next]
    BY <1>0, <1>9 DEF D!RollZero, D!Zero, DaemonType
  <2>2. /\ d_tpc = "zero" /\ d_tpc' = "flush" /\ d_curr_is = "waiting"
        /\ UNCHANGED <<d_mpc, d_next, d_sent, d_shown, d_curr_is>>
    BY <1>9, Zenon DEF D!RollZero, D!Goto, DaemonType
  <2> QED BY <1>0, <2>1, <2>2
<1>10. CASE UNCHANGED d_vars
  BY <1>10, Zenon DEF d_vars
<1> QED BY <1>1, <1>2, <1>3, <1>4, <1>5, <1>6, <1>7, <1>8, <1>9, <1>10, Zenon
        DEF D!Next, D!Main, D!Stats

(* The statistics are exact: whatever the interleaving, every packet is in *)
(* exactly one printed interval, one that waits or the running one         *)
(* (sender_roll_stats, mcast_send_pkt).                                    *)
THEOREM EachCountedOnceTheorem == ThreadsSpec => []EachCountedOnce
<1>1. ThreadsInit => DaemonType /\ SumInv
  BY DaemonInit, Zenon DEF ThreadsInit
<1>2. DaemonType /\ SumInv /\ [ThreadsNext]_threads => (DaemonType /\ SumInv)'
  BY ThreadsStep, DaemonTypeStep, SumStep, Zenon
<1>3. DaemonType /\ SumInv => EachCountedOnce
  <2> SUFFICES ASSUME DaemonType, SumInv PROVE D!EachCountedOnce
    BY Zenon DEF EachCountedOnce
  <2> QED BY CountsRead DEF D!EachCountedOnce, D!Waiting, D!curr, D!Zero, SumInv, BytesHeld,
                            PacketsHeld, DaemonType
<1> QED BY <1>1, <1>2, <1>3, PTL DEF ThreadsSpec

-----------------------------------------------------------------------------
(* The toucher.  Whoever holds its lock is alone with the list, and the    *)
(* thread's walk is over storages of the list, which are all open.         *)
ToucherInv ==
    /\ t_targets \in Seq(Stores) /\ t_rest \in Seq(Stores)
    /\ t_opc \in {"add", "remove"} => t_lock = "owner" /\ t_job \in t_open \cap Stores
    /\ t_tpc = "touch" => /\ t_lock = "thread"
                          /\ \A j \in 1..Len(t_rest) : T!Listed(t_rest[j])
    /\ \A j \in 1..Len(t_targets) : t_targets[j] \in t_open

(* What is left of a list when one element is taken out was in the list. *)
LEMMA OneRemoved ==
    ASSUME NEW S, NEW s \in Seq(S), NEW k \in 1..Len(s)
    PROVE  LET t == SubSeq(s, 1, k - 1) \o SubSeq(s, k + 1, Len(s))
           IN  t \in Seq(S) /\ \A j \in 1..Len(t) : \E i \in 1..Len(s) : s[i] = t[j]
<1> DEFINE a == SubSeq(s, 1, k - 1)
           b == SubSeq(s, k + 1, Len(s))
<1>1. a \in Seq(S) /\ Len(a) = k - 1 /\ \A j \in 1..Len(a) : a[j] = s[j]
  OBVIOUS
<1>2. b \in Seq(S) /\ Len(b) = Len(s) - k /\ \A j \in 1..Len(b) : b[j] = s[k + j]
  OBVIOUS
<1> SUFFICES /\ a \o b \in Seq(S)
             /\ \A j \in 1..Len(a \o b) : \E i \in 1..Len(s) : s[i] = (a \o b)[j]
  BY Zenon
<1> HIDE DEF a, b
<1>0. a \in Seq(S) /\ b \in Seq(S)
  BY <1>1, <1>2, Zenon
<1>4. a \o b \in Seq(S) /\ Len(a \o b) = Len(a) + Len(b)
  BY <1>0
<1>5. ASSUME NEW j \in 1..Len(a \o b) PROVE \E i \in 1..Len(s) : s[i] = (a \o b)[j]
  <2>1. CASE j <= Len(a)
    <3>1. (a \o b)[j] = a[j] /\ j \in 1..Len(a)
      BY <1>0, <2>1
    <3>2. a[j] = s[j] /\ j \in 1..Len(s)
      BY <1>1, <3>1
    <3> QED BY <3>1, <3>2, Zenon
  <2>2. CASE j > Len(a)
    <3>1. (a \o b)[j] = b[j - Len(a)] /\ j - Len(a) \in 1..Len(b)
      BY <1>1, <1>2, <1>4, <2>2
    <3>2. b[j - Len(a)] = s[k + (j - Len(a))] /\ k + (j - Len(a)) \in 1..Len(s)
      BY <1>1, <1>2, <3>1
    <3> QED BY <3>1, <3>2, Zenon
  <2> QED BY <1>1, <1>4, <2>1, <2>2
<1> QED BY <1>4, <1>5, Zenon

LEMMA ToucherStep == ASSUME ToucherInv, [T!Next]_t_vars PROVE ToucherInv'
<1> USE ThreadsAssumption
<1>1. ASSUME NEW s \in Stores, NEW op \in {"add", "remove"}, T!Call(op, s) PROVE ToucherInv'
  BY <1>1, Zenon DEF T!Call, T!thread, ToucherInv
<1>2. CASE T!AddStorage
  <2>1. t_targets' \in Seq(Stores)
    BY <1>2 DEF T!AddStorage, ToucherInv
  <2>2. \A j \in 1..Len(t_targets') : t_targets'[j] \in t_open
    BY <1>2 DEF T!AddStorage, ToucherInv
  <2> QED BY <1>2, <2>1, <2>2, Zenon DEF T!AddStorage, T!thread, ToucherInv
<1>3. CASE T!RemoveStorage
  <2>1. \/ t_targets' = t_targets
        \/ \E k \in 1..Len(t_targets) :
              t_targets' = SubSeq(t_targets, 1, k - 1) \o SubSeq(t_targets, k + 1, Len(t_targets))
    BY <1>3, Zenon DEF T!RemoveStorage
  <2>2. /\ t_targets' \in Seq(Stores)
        /\ \A j \in 1..Len(t_targets') : \E i \in 1..Len(t_targets) : t_targets[i] = t_targets'[j]
    <3>0. t_targets \in Seq(Stores)
      BY Zenon DEF ToucherInv
    <3>1. CASE t_targets' = t_targets
      BY <3>0, <3>1, Zenon
    <3>2. ASSUME NEW k \in 1..Len(t_targets),
                 t_targets' = SubSeq(t_targets, 1, k - 1)
                                \o SubSeq(t_targets, k + 1, Len(t_targets))
          PROVE  /\ t_targets' \in Seq(Stores)
                 /\ \A j \in 1..Len(t_targets') :
                       \E i \in 1..Len(t_targets) : t_targets[i] = t_targets'[j]
      BY <3>0, <3>2, OneRemoved, Zenon
    <3> QED BY <2>1, <3>1, <3>2, Zenon
  <2>3. \A j \in 1..Len(t_targets') : t_targets'[j] \in t_open
    BY <2>2, Zenon DEF T!Listed, ToucherInv
  <2> QED BY <1>3, <2>2, <2>3, Zenon DEF T!RemoveStorage, T!thread, ToucherInv
<1>4. ASSUME NEW s \in Stores, T!CloseStorage(s) \/ T!OpenStorage(s) PROVE ToucherInv'
  BY <1>4, Zenon DEF T!CloseStorage, T!OpenStorage, T!thread, T!owner, T!Listed, ToucherInv
<1>5. CASE T!Stop
  BY <1>5, Zenon DEF T!Stop, T!thread, T!Listed, ToucherInv
<1>6. CASE T!Destroy
  BY <1>6 DEF T!Destroy, T!thread, ToucherInv
<1>7. ASSUME NEW s \in Stores, T!Stick(s) PROVE ToucherInv'
  BY <1>7, Zenon DEF T!Stick, T!thread, T!owner, T!Listed, ToucherInv
<1>8. CASE T!Test \/ T!LockFails \/ T!Unlock
  BY <1>8, Zenon DEF T!Test, T!LockFails, T!Unlock, T!owner, ToucherInv
<1>9. CASE T!Lock
  BY <1>9, Zenon DEF T!Lock, T!owner, T!Listed, ToucherInv
<1>10. CASE T!Touch
  <2>1. CASE Head(t_rest) \in t_stuck
    BY <1>10, <2>1 DEF T!Touch, T!owner, ToucherInv
  <2>2. CASE Head(t_rest) \notin t_stuck
    <3>1. /\ t_rest' = Tail(t_rest) /\ t_rest # <<>> /\ t_tpc = "touch"
          /\ UNCHANGED <<t_tpc, t_lock, t_targets, t_open, t_opc, t_job>>
      BY <1>10, <2>2, Zenon DEF T!Touch, T!owner
    <3>2. t_rest' \in Seq(Stores) /\ \A j \in 1..Len(t_rest') : T!Listed(t_rest'[j])
      BY <3>1 DEF ToucherInv
    <3> QED BY <3>1, <3>2, Zenon DEF ToucherInv, T!Listed
  <2> QED BY <2>1, <2>2, Zenon
<1>11. CASE UNCHANGED t_vars
  BY <1>11, Zenon DEF t_vars, T!Listed, ToucherInv
<1> QED BY <1>1, <1>2, <1>3, <1>4, <1>5, <1>6, <1>7, <1>8, <1>9, <1>10, <1>11, Zenon
        DEF T!Next, T!Calling, T!Finishing, T!Thread

(* No thread uses what another has given up: thread_destroy frees nothing  *)
(* that the statistics thread still uses, and touch_func writes to no      *)
(* storage that its owner has closed after toucher_remove_storage.         *)
THEOREM NoUseAfterFreeTheorem == ThreadsSpec => []NoUseAfterFree
<1>1. ThreadsInit => MemoryInv /\ ToucherInv
  <2>1. T!Init => ToucherInv
    BY DEF T!Init, ToucherInv
  <2> QED BY <2>1, DaemonInit, Zenon DEF ThreadsInit
<1>2. MemoryInv /\ ToucherInv /\ [ThreadsNext]_threads => (MemoryInv /\ ToucherInv)'
  BY ThreadsStep, MemoryStep, ToucherStep, Zenon
<1>3. MemoryInv /\ ToucherInv => NoUseAfterFree
  BY Zenon DEF NoUseAfterFree, D!NoUseAfterFree, T!TouchesOnlyOpen, MemoryInv, ToucherInv, T!Listed
<1> QED BY <1>1, <1>2, <1>3, PTL DEF ThreadsSpec

-----------------------------------------------------------------------------
(* The advert.  The message is swapped under the lock only, and it is made *)
(* of the notices by the time a call returns without an error.             *)
Agrees(m) ==
    \A s \in Senders \ a_stale :
        a_opc \in {"idle", "join"} \/ s # a_job => (A!Names(m, s) <=> A!Names(a_notices, s))

AdvertInv ==
    /\ a_notices \in Seq(Senders)
    /\ a_tpc \in {"sending", "unlock"} => a_lock = "thread"
    /\ a_opc = "swap" => a_lock = "owner" /\ a_new_msg = a_notices
    /\ a_tpc = "sending" => a_sending \in a_json_msg
    /\ \A m \in a_json_msg : Agrees(m)

(* A list with one more sender in front names the same other senders. *)
LEMMA OneListed ==
    ASSUME NEW list \in Seq(Senders), NEW s \in Senders
    PROVE  /\ <<s>> \o list \in Seq(Senders)
           /\ \A x \in Senders : x # s => (A!Names(<<s>> \o list, x) <=> A!Names(list, x))
<1> DEFINE t == <<s>> \o list
<1>1. t \in Seq(Senders) /\ Len(t) = Len(list) + 1 /\ Len(list) \in Nat
  OBVIOUS
<1>2. t[1] = s /\ \A j \in 1..Len(list) : t[j + 1] = list[j] /\ j + 1 \in 1..Len(t)
  OBVIOUS
<1>3. \A i \in 1..Len(t) : t[i] = s \/ \E j \in 1..Len(list) : list[j] = t[i]
  OBVIOUS
<1> HIDE DEF t
<1>4. ASSUME NEW x \in Senders, x # s PROVE A!Names(t, x) <=> A!Names(list, x)
  BY <1>2, <1>3, <1>4, Zenon DEF A!Names
<1> QED BY <1>1, <1>4, Zenon DEF t

(* A list with one sender less names the same other senders. *)
LEMMA OneUnlisted ==
    ASSUME NEW list \in Seq(Senders), NEW k \in 1..Len(list)
    PROVE  LET t == SubSeq(list, 1, k - 1) \o SubSeq(list, k + 1, Len(list))
           IN  /\ t \in Seq(Senders)
               /\ \A x \in Senders : x # list[k] => (A!Names(t, x) <=> A!Names(list, x))
<1> DEFINE a == SubSeq(list, 1, k - 1)
           b == SubSeq(list, k + 1, Len(list))
           t == a \o b
<1>1. t \in Seq(Senders) /\ \A j \in 1..Len(t) : \E i \in 1..Len(list) : list[i] = t[j]
  BY OneRemoved, Zenon
<1>2. a \in Seq(Senders) /\ Len(a) = k - 1 /\ \A j \in 1..Len(a) : a[j] = list[j]
  OBVIOUS
<1>3. b \in Seq(Senders) /\ Len(b) = Len(list) - k /\ \A j \in 1..Len(b) : b[j] = list[k + j]
  OBVIOUS
<1> HIDE DEF a, b
<1>4. \A i \in 1..Len(list) : i < k => i \in 1..Len(t) /\ t[i] = list[i]
  BY <1>2, <1>3
<1>5. \A i \in 1..Len(list) : i > k => i - 1 \in 1..Len(t) /\ t[i - 1] = list[i]
  <2> TAKE i \in 1..Len(list)
  <2> HAVE i > k
  <2>1. i - k \in 1..Len(b) /\ k + (i - k) = i /\ i - 1 = Len(a) + (i - k)
    BY <1>2, <1>3
  <2>2. i - 1 \in 1..Len(t) /\ t[i - 1] = b[i - k]
    BY <1>2, <1>3, <2>1
  <2> QED BY <1>3, <2>1, <2>2, Zenon
<1>6. \A i \in 1..Len(list) : i = k \/ i < k \/ i > k
  OBVIOUS
<1> HIDE DEF t
<1>7. ASSUME NEW x \in Senders, x # list[k] PROVE A!Names(t, x) <=> A!Names(list, x)
  BY <1>1, <1>4, <1>5, <1>6, <1>7, Zenon DEF A!Names
<1> QED BY <1>1, <1>7, Zenon DEF t, a, b

LEMMA AdvertStep == ASSUME AdvertInv, [A!Next]_a_vars PROVE AdvertInv'
<1> USE ThreadsAssumption DEF AdvertInv
<1>1. ASSUME NEW s \in Senders, A!Publish(s) \/ A!Retract(s) PROVE AdvertInv'
  <2>1. /\ a_opc = "idle" /\ a_opc' = "make" /\ a_job' = s
        /\ UNCHANGED <<a_json_msg, a_lock, a_new_msg, a_tpc, a_sending, a_stale>>
    BY <1>1, Zenon DEF A!Publish, A!Retract, A!thread
  <2>2. /\ a_notices' \in Seq(Senders)
        /\ \A x \in Senders : x # s => (A!Names(a_notices', x) <=> A!Names(a_notices, x))
    <3>1. CASE A!Publish(s)
      BY <3>1, OneListed, Zenon DEF A!Publish
    <3>2. CASE A!Retract(s)
      <4>1. PICK k \in 1..Len(a_notices) :
               /\ a_notices[k] = s
               /\ a_notices' = SubSeq(a_notices, 1, k - 1)
                                  \o SubSeq(a_notices, k + 1, Len(a_notices))
        BY <3>2, Zenon DEF A!Retract, A!Unlisted
      <4> QED BY <4>1, OneUnlisted, Zenon
    <3> QED BY <1>1, <3>1, <3>2, Zenon
  <2>3. ASSUME NEW m, Agrees(m) PROVE Agrees(m)'
    BY <2>1, <2>2, <2>3, Zenon DEF Agrees, A!Names
  <2> QED BY <2>1, <2>2, <2>3, Zenon
<1>2. CASE A!MakeJsonMap \/ A!MakeFails
  <2>1. /\ a_opc = "make" /\ UNCHANGED <<a_notices, a_json_msg, a_job, a_tpc, a_sending>>
        /\ \/ a_opc' = "swap" /\ a_lock = Nobody /\ a_lock' = "owner" /\ a_new_msg' = a_notices
              /\ a_stale' = a_stale
           \/ a_opc' = "idle" /\ a_lock' = a_lock /\ a_stale' = a_stale \cup {a_job}
    BY <1>2, Zenon DEF A!MakeJsonMap, A!MakeFails, A!thread
  <2>2. ASSUME NEW m, Agrees(m) PROVE Agrees(m)'
    BY <2>1, <2>2, Zenon DEF Agrees, A!Names
  <2> QED BY <2>1, <2>2, Zenon
<1>3. CASE A!SwapMessage
  BY <1>3, Zenon DEF A!SwapMessage, A!thread, Agrees, A!Names
<1>4. CASE A!Stop \/ A!Join
  BY <1>4, ZenonT(30) DEF A!Stop, A!Join, A!thread, Agrees, A!Names
<1>5. CASE A!Destroy
  <2>1. a_notices' \in Seq(Senders)
    BY <1>5 DEF A!Destroy
  <2> QED BY <1>5, <2>1, Zenon DEF A!Destroy, A!thread
<1>a. ASSUME NEW m, Agrees(m), UNCHANGED <<a_notices, a_opc, a_job, a_stale>> PROVE Agrees(m)'
  BY <1>a, Zenon DEF Agrees, A!Names
<1>6. CASE A!TestStopping \/ A!Sleep \/ A!LockFails \/ A!Send \/ A!Unlock
  BY <1>6, <1>a, Zenon DEF A!TestStopping, A!Sleep, A!LockFails, A!Send, A!Unlock, A!Goto, A!End,
              A!owner
<1>7. CASE A!Lock
  BY <1>7, <1>a, Zenon DEF A!Lock, A!owner
<1>8. CASE UNCHANGED a_vars
  BY <1>8, <1>a, Zenon DEF a_vars
<1> QED BY <1>1, <1>2, <1>3, <1>4, <1>5, <1>6, <1>7, <1>8, Zenon
        DEF A!Next, A!Calling, A!Finishing, A!Thread

(* What mcast_func sends is the live message, and it names what is         *)
(* published: after advert_retract has returned OK its sender is           *)
(* advertised no more.  Only a call that returned an error leaves its      *)
(* sender as it was, until the message is made again.                      *)
THEOREM SendsTheCurrentTheorem == ThreadsSpec => []SendsTheCurrent
<1>1. ThreadsInit => AdvertInv
  <2>1. <<>> \in Seq(Senders)
    OBVIOUS
  <2> QED BY <2>1, Zenon DEF ThreadsInit, A!Init, AdvertInv
<1>2. AdvertInv /\ [ThreadsNext]_threads => AdvertInv'
  BY ThreadsStep, AdvertStep, Zenon
<1>3. AdvertInv => SendsTheCurrent
  BY Zenon DEF SendsTheCurrent, A!SendsTheCurrent, AdvertInv, Agrees
<1> QED BY <1>1, <1>2, <1>3, PTL DEF ThreadsSpec

-----------------------------------------------------------------------------
(* The goroutine that stops a command.  A process runs only between Start  *)
(* and Wait, and with AutoRestart cleared Run comes to one more launch at  *)
(* most: the one it has paused for, or its first.                          *)
Places == {"loop", "pause", "make", "start", "started", "wait", "stopped", "killed", "close",
           "done", "returned"}
StopPlaces == {"none", "test", "notRunning", "signal", "await", "crashed", "returned"}

StopType ==
    /\ c_pc \in [Commands -> Places] /\ c_spc \in [Commands -> StopPlaces]
    /\ c_AutoRestart \in [Commands -> BOOLEAN] /\ c_alive \in [Commands -> BOOLEAN]
    /\ c_LaunchCount \in [Commands -> Nat] /\ c_before \in [Commands -> Nat]

StopInv(c) ==
    /\ c_alive[c] => c_pc[c] \in {"started", "wait"}
    /\ c_spc[c] = "returned" => c_pc[c] = "done"
    /\ c_spc[c] # "none" =>
         /\ ~c_AutoRestart[c]
         /\ \/ c_LaunchCount[c] = c_before[c]
            \/ c_LaunchCount[c] = c_before[c] + 1 /\ c_pc[c] # "pause"

StopInvs == StopType /\ \A c \in Commands : StopInv(c)

LEMMA RunTypeStep ==
    ASSUME StopType, NEW c \in Commands, C!RunStep(c) \/ C!Ends(c)
    PROVE  StopType' /\ UNCHANGED <<c_spc, c_before, c_AutoRestart>>
<1> USE DEF C!stop, C!Goto, StopType, Places
<1>1. CASE C!Ends(c)
  BY <1>1, Zenon DEF C!Ends, C!Exit
<1>2. CASE C!RunClose(c)
  BY <1>2, Zenon DEF C!RunClose, C!Close
<1>3. CASE (C!Loop(c) \/ C!InitCmd(c) \/ C!Start(c) \/ C!StartFails(c) \/ C!Wait(c)) /\ UNCHANGED C!stop
  BY <1>3, Zenon DEF C!Loop, C!InitCmd, C!Start, C!StartFails, C!Wait
<1>4. ASSUME NEW ok \in BOOLEAN, C!Launch(c, ok) \/ C!AfterStart(c, ok) \/ C!AfterStop(c, ok),
             UNCHANGED C!stop
      PROVE  StopType' /\ UNCHANGED <<c_spc, c_before, c_AutoRestart>>
  <2>1. CASE C!Launch(c, ok)
    BY <1>4, <2>1 DEF C!Launch
  <2>2. CASE C!AfterStart(c, ok)
    BY <1>4, <2>2, Zenon DEF C!AfterStart
  <2>3. CASE C!AfterStop(c, ok)
    BY <1>4, <2>3, Zenon DEF C!AfterStop
  <2> QED BY <1>4, <2>1, <2>2, <2>3, Zenon
<1> QED BY <1>1, <1>2, <1>3, <1>4, Zenon DEF C!RunStep

(* What a step of Run, or the end of its process, does to its command. *)
LEMMA RunKept ==
    ASSUME StopInvs, NEW c \in Commands, C!RunStep(c) \/ C!Ends(c)
    PROVE  StopInv(c)'
<1>1. UNCHANGED <<c_spc, c_before, c_AutoRestart>>
  BY RunTypeStep, Zenon DEF StopInvs
<1>2. CASE C!Loop(c) \/ C!InitCmd(c) \/ C!Start(c) \/ C!StartFails(c) \/ C!Wait(c)
  BY <1>1, <1>2 DEF C!Loop, C!InitCmd, C!Start, C!StartFails, C!Wait, C!Goto, StopInvs, StopInv, StopType
<1>3. CASE \E ok \in BOOLEAN : C!Launch(c, ok) \/ C!AfterStart(c, ok) \/ C!AfterStop(c, ok)
  BY <1>1, <1>3, Zenon DEF C!Launch, C!AfterStart, C!AfterStop, C!Goto, StopInvs, StopInv, StopType
<1>4. CASE C!Close(c) \/ C!Exit(c)
  BY <1>1, <1>4, Zenon DEF C!Close, C!Exit, C!Goto, StopInvs, StopInv, StopType
<1> QED BY <1>2, <1>3, <1>4, Zenon DEF C!RunStep, C!RunClose, C!Ends

(* What a step of StopWithSignal does to it. *)
LEMMA StopKept ==
    ASSUME StopInvs, NEW c \in Commands, C!ClearAutoRestart(c) \/ C!StopStep(c)
    PROVE  StopType' /\ StopInv(c)'
<1>1. CASE C!ClearAutoRestart(c)
  BY <1>1, Zenon DEF C!ClearAutoRestart, C!StopGoto, StopInvs, StopInv, StopType, StopPlaces
<1>2. CASE C!TestRunning(c) \/ C!SendSignal(c) \/ C!AwaitStopped(c)
  BY <1>2, Zenon DEF C!TestRunning, C!SendSignal, C!AwaitStopped, C!StopGoto, C!run, StopInvs, StopInv, StopType, StopPlaces
<1> QED BY <1>1, <1>2, Zenon DEF C!StopStep

(* The steps of one command leave the others alone. *)
LEMMA OthersKept ==
    ASSUME StopInvs, NEW c \in Commands, NEW d \in Commands \ {c},
           C!RunStep(c) \/ C!Ends(c) \/ C!ClearAutoRestart(c) \/ C!StopStep(c)
    PROVE  StopInv(d)'
<1> SUFFICES /\ c_pc'[d] = c_pc[d] /\ c_spc'[d] = c_spc[d] /\ c_alive'[d] = c_alive[d]
             /\ c_AutoRestart'[d] = c_AutoRestart[d] /\ c_before'[d] = c_before[d]
             /\ c_LaunchCount'[d] = c_LaunchCount[d]
  BY Zenon DEF StopInvs, StopInv
<1> USE DEF StopInvs, StopType, C!Goto, C!StopGoto, C!run, C!stop
<1>1. CASE C!Ends(c) \/ C!RunClose(c)
  BY <1>1, Zenon DEF C!Ends, C!Exit, C!RunClose, C!Close
<1>2. CASE (C!Loop(c) \/ C!InitCmd(c) \/ C!Start(c) \/ C!StartFails(c) \/ C!Wait(c)) /\ UNCHANGED C!stop
  BY <1>2, Zenon DEF C!Loop, C!InitCmd, C!Start, C!StartFails, C!Wait
<1>3. CASE /\ \E ok \in BOOLEAN : C!Launch(c, ok) \/ C!AfterStart(c, ok) \/ C!AfterStop(c, ok)
           /\ UNCHANGED C!stop
  BY <1>3, Zenon DEF C!Launch, C!AfterStart, C!AfterStop
<1>4. CASE C!ClearAutoRestart(c) \/ C!StopStep(c)
  BY <1>4, Zenon DEF C!ClearAutoRestart, C!StopStep, C!TestRunning, C!SendSignal, C!AwaitStopped
<1> QED BY <1>1, <1>2, <1>3, <1>4, Zenon DEF C!RunStep

(* When StopWithSignal has returned without an error no process runs and   *)
(* none will, and after it was called at most one more launch happens,     *)
(* whatever it answers (Command.Run, Command.StopWithSignal).              *)
THEOREM StopIsFinalTheorem == ThreadsSpec => []StopIsFinal
<1>1. ThreadsInit => StopInvs
  BY DEF ThreadsInit, C!Init, StopInvs, StopInv, StopType, Places, StopPlaces
<1>2. StopInvs /\ [ThreadsNext]_threads => StopInvs'
  <2> SUFFICES ASSUME StopInvs, [C!Next]_c_vars PROVE StopInvs'
    BY ThreadsStep, Zenon
  <2>1. ASSUME NEW c \in Commands,
               C!RunStep(c) \/ C!Ends(c) \/ C!ClearAutoRestart(c) \/ C!StopStep(c)
        PROVE  StopInvs'
    <3>1. StopType' /\ StopInv(c)'
      BY <2>1, RunTypeStep, RunKept, StopKept, Zenon DEF StopInvs
    <3>2. \A d \in Commands \ {c} : StopInv(d)'
      BY <2>1, OthersKept, Zenon
    <3> QED BY <3>1, <3>2, Zenon DEF StopInvs
  <2>2. CASE UNCHANGED c_vars
    BY <2>2, Zenon DEF c_vars, StopInvs, StopInv, StopType
  <2> QED BY <2>1, <2>2, Zenon DEF C!Next
<1>3. StopInvs => StopIsFinal
  BY DEF StopIsFinal, C!StopIsFinal, C!OneMoreLaunch, StopInvs, StopInv, StopType
<1> QED BY <1>1, <1>2, <1>3, PTL DEF ThreadsSpec
=============================================================================
