------------------------- MODULE ReplicationProofs --------------------------
(***************************************************************************)
(* Proofs about Replication, for any subscribers and records, any packet   *)
(* size and capacities: the sender's numbers and its min_seq, the types,   *)
(* what lies staged in the sender, and what its steps leave of what a      *)
(* subscriber has been told (Sessions).                                    *)
(***************************************************************************)
EXTENDS Sessions, TLAPS

(* The order of the integers, for the steps that need nothing else of it. *)
LEMMA Orders ==
    /\ \A a \in Nat : a \in Int /\ a >= 0 /\ a + 1 \in Nat /\ a <= a + 1 /\ a <= a
    /\ \A a, b \in Int : /\ (a <= b <=> ~(a > b)) /\ (a < b <=> ~(a >= b))
                         /\ a <= b /\ (a # b \/ ~(a >= b)) => a < b
                         /\ a <= b /\ ~(b > a) => a = b
OBVIOUS

LEMMA Chain == \A a, b, c \in Int : a <= b /\ b <= c => a <= c
OBVIOUS

(* At the start no record has a number and nobody is served. *)
LEMMA MinInit == Init => MinInv
BY SenderAssumption, WireAssumption
   DEF Init, WireInit, SenderInit, SenderFresh, MinInv, SeqTypes, Served, Ids,
       IS_VALID_RANGE, Invalid, Range, Passed

(* MinInv speaks of the numbers only. *)
LEMMA NumbersUnchanged == MinInv /\ UNCHANGED numbers => MinInv'
BY Zenon DEF numbers, MinInv, SeqTypes, Served, Passed, IS_VALID_RANGE

(* Changes of connections that give the sender no client to serve, or only *)
(* turn an accepted client into a joined one.                              *)
LEMMA ConnectionStep ==
    ASSUME MinInv, Served' \subseteq Served, DOMAIN conn' = Receivers,
           UNCHANGED <<spc, next_seq, min_seq, record_seqs,
                       reply_range, reply_id, min_seq_found>>
    PROVE  MinInv'
BY Zenon DEF MinInv, SeqTypes, Passed, IS_VALID_RANGE

(* A sender that ends serves nobody. *)
LEMMA QuitStep ==
    ASSUME MinInv, spc' = "down", QuitWires, next_seq' \in Nat,
           UNCHANGED <<min_seq, record_seqs, reply_range, reply_id, min_seq_found>>
    PROVE  MinInv'
<1>1. Served' = {} /\ DOMAIN conn' = Receivers
  BY Zenon DEF QuitWires, Served
<1> QED BY <1>1, Zenon DEF MinInv, SeqTypes

(* Staging a record raises its number to at least next_seq. *)
LEMMA StageStep ==
    ASSUME MinInv, spc # "down", spc' # "down", NEW seq \in Nat, NEW before,
           Stage(before, seq), seq >= next_seq, next_seq' = seq,
           UNCHANGED <<conn, min_seq, reply_range, reply_id, min_seq_found>>
    PROVE  MinInv'
<1>1. record_seqs' \in [Ids -> Nat]
  BY Zenon DEF Stage, MinInv, SeqTypes
<1>2. \A i \in Ids : record_seqs[i] <= record_seqs'[i] /\ record_seqs'[i] <= seq
  BY DEF Stage, MinInv, SeqTypes
<1>3. Served' = Served
  BY Zenon DEF Served
<1>4. SeqTypes'
  BY <1>1, Zenon DEF MinInv, SeqTypes
<1>5. \A i \in Ids : min_seq' <= record_seqs'[i] /\ record_seqs'[i] <= next_seq'
  BY <1>1, <1>2 DEF MinInv, SeqTypes
<1>6. ASSUME NEW r \in Served', IS_VALID_RANGE(reply_range[r])
      PROVE  Passed(r, reply_id[r], min_seq_found[r])'
  <2> SUFFICES ASSUME NEW i \in Ids, i < reply_id[r]
               PROVE  min_seq_found[r] <= record_seqs'[i]
    BY Zenon DEF Passed
  <2>1. min_seq_found[r] <= record_seqs[i]
    BY <1>3, <1>6, Zenon DEF MinInv, Passed
  <2>2. r \in Receivers
    BY Zenon DEF Served
  <2> QED BY <1>1, <1>2, <2>1, <2>2 DEF MinInv, SeqTypes
<1> QED BY <1>4, <1>5, <1>6, Zenon DEF MinInv, IS_VALID_RANGE

(* One round for a client: what Write does with the answer it is given.    *)
LEMMA WriteStep ==
    ASSUME MinInv, spc # "down", NEW r \in Served,
           NEW re, NEW from \in Nat, NEW found \in Nat,
           IS_VALID_RANGE(re) => Passed(r, from, found),
           Write(r, re, from, found)
    PROVE  MinInv'
<1> USE DEF MinInv, SeqTypes
<1>0. /\ UNCHANGED <<spc, conn, next_seq, record_seqs>> /\ Served' = Served
      /\ r \in Receivers
  BY Zenon DEF Write, multi, Served
<1>1. CASE NoWrite(r, re, from, found)
  <2>1. SeqTypes'
    BY <1>0, <1>1, Zenon DEF NoWrite
  <2>2. \A q \in Served : q # r => /\ reply_range'[q] = reply_range[q]
                                   /\ reply_id'[q] = reply_id[q]
                                   /\ min_seq_found'[q] = min_seq_found[q]
    BY <1>1, Zenon DEF NoWrite, Served
  <2>3. reply_range'[r] = re /\ reply_id'[r] = from /\ min_seq_found'[r] = found
    BY <1>0, <1>1, Zenon DEF NoWrite
  <2> QED BY <1>0, <1>1, <2>1, <2>2, <2>3 DEF NoWrite, Passed
<1>2. CASE IS_VALID_RANGE(re) /\ NextReply(r, re, from, found)
  <2>1. PICK to \in from..(N + 1), least \in 0..SEQUENCE_MAX :
          /\ LeastSeq(least, found, from, to)
          /\ min_seq_found' = [min_seq_found EXCEPT ![r] = least]
          /\ IF to <= N
             THEN /\ reply_id' = [reply_id EXCEPT ![r] = to + 1]
                  /\ reply_range' = [reply_range EXCEPT ![r] = re]
                  /\ UNCHANGED min_seq
             ELSE /\ reply_id' = [reply_id EXCEPT ![r] = to]
                  /\ reply_range' = [reply_range EXCEPT ![r] = Invalid]
                  /\ min_seq' = least
    BY <1>2, Zenon DEF NextReply
  <2>2. least \in Nat /\ to \in Nat /\ N \in Nat
    BY WireAssumption, SenderAssumption
  <2>3. \A i \in Ids : i <= to => least <= record_seqs[i]
    <3> SUFFICES ASSUME NEW i \in Ids, i <= to PROVE least <= record_seqs[i]
      BY Zenon
    <3>1. CASE i < from
      <4>1. least <= found
        BY <2>1, Zenon DEF LeastSeq
      <4>2. found <= record_seqs[i]
        BY <1>2, <3>1, Zenon DEF Passed
      <4> QED BY <2>2, <4>1, <4>2
    <3>2. CASE i >= from
      <4>1. i \in from..to
        BY <2>2, <3>2 DEF Ids
      <4> QED BY <2>1, <4>1 DEF LeastSeq
    <3> QED BY <3>1, <3>2, <2>2 DEF Ids
  <2>4. \A q \in Served : q # r => /\ reply_range'[q] = reply_range[q]
                                   /\ reply_id'[q] = reply_id[q]
                                   /\ min_seq_found'[q] = min_seq_found[q]
    BY <2>1, Zenon DEF Served
  <2>5. CASE to <= N
    <3>1. SeqTypes' /\ min_seq' = min_seq
      BY <1>0, <2>1, <2>2, <2>5
    <3>2. reply_id'[r] = to + 1 /\ min_seq_found'[r] = least
      BY <1>0, <2>1, <2>5, Zenon
    <3>3. \A i \in Ids : i < to + 1 => i <= to
      BY <2>2 DEF Ids
    <3>4. Passed(r, reply_id'[r], min_seq_found'[r])
      BY <2>3, <3>2, <3>3, Zenon DEF Passed
    <3> QED BY <1>0, <2>4, <3>1, <3>4, Zenon DEF Passed
  <2>6. CASE ~(to <= N)
    <3>1. SeqTypes' /\ min_seq' = least
      BY <1>0, <2>1, <2>2, <2>6, Zenon
    <3>2. \A i \in Ids : min_seq' <= record_seqs[i]
      BY <2>2, <2>3, <2>6, <3>1 DEF Ids
    <3>3. ~IS_VALID_RANGE(reply_range'[r])
      BY <1>0, <2>1, <2>6, SenderAssumption DEF Invalid, Range, IS_VALID_RANGE
    <3> QED BY <1>0, <2>4, <3>1, <3>2, <3>3, Zenon DEF Passed
  <2> QED BY <2>5, <2>6, Zenon
<1>3. CASE UNCHANGED <<reply_range, reply_id, min_seq_found, min_seq>>
  BY <1>0, <1>3, Zenon DEF Passed
<1> QED BY <1>1, <1>2, <1>3, Zenon DEF Write, TcpOnWrite

(* tcp_on_read, tcp_on_read_blocked and tcp_on_hup for one client. *)
LEMMA ServingStep ==
    ASSUME MinInv, NEW r \in Receivers, Serving(r)
    PROVE  MinInv'
<1>1. CASE ClientRead(r)
  <2>1. r \in Served /\ spc # "down"
    BY <1>1, Zenon DEF ClientRead, Served
  <2>2. reply_id[r] \in Nat /\ min_seq_found[r] \in Nat
    BY Zenon DEF MinInv, SeqTypes
  <2>3. IS_VALID_RANGE(reply_range[r]) => Passed(r, reply_id[r], min_seq_found[r])
    BY <2>1, Zenon DEF MinInv
  <2> QED BY <1>1, <2>1, <2>2, <2>3, WriteStep, Zenon DEF ClientRead
<1>2. CASE ClientReadBlocked(r)
  <2>1. r \in Served /\ spc # "down"
    BY <1>2, Zenon DEF ClientReadBlocked, Served
  <2>2. reply_id[r] \in Nat /\ min_seq_found[r] \in Nat
    BY Zenon DEF MinInv, SeqTypes
  <2>3. IS_VALID_RANGE(reply_range[r]) => Passed(r, reply_id[r], min_seq_found[r])
    BY <2>1, Zenon DEF MinInv
  <2>4. Passed(r, 1, SEQUENCE_MAX) /\ SEQUENCE_MAX \in Nat
    BY SenderAssumption, WireAssumption DEF Passed, Ids
  <2>5. CASE Answer(r)
    <3>1. Write(r, union_range[r], 1, SEQUENCE_MAX)
      BY <1>2, <2>5, Zenon DEF ClientReadBlocked
    <3> QED BY <2>1, <2>4, <3>1, WriteStep, Zenon
  <2>6. CASE ~Answer(r)
    <3>1. Write(r, reply_range[r], reply_id[r], min_seq_found[r])
      BY <1>2, <2>6, Zenon DEF ClientReadBlocked
    <3> QED BY <2>1, <2>2, <2>3, <3>1, WriteStep, Zenon
  <2> QED BY <2>5, <2>6, Zenon
<1>3. CASE TcpOnHup(r)
  <2>1. Served' \subseteq Served /\ DOMAIN conn' = Receivers
    BY <1>3, Zenon DEF TcpOnHup, Served, MinInv, SeqTypes
  <2> QED BY <1>3, <2>1, ConnectionStep, Zenon DEF TcpOnHup, sender, multi, client
<1> QED BY <1>1, <1>2, <1>3, Zenon DEF Serving

(* tcp_on_accept resets the search for the least number. *)
LEMMA AcceptStep ==
    ASSUME MinInv, NEW r \in Receivers, TcpOnAccept(r)
    PROVE  MinInv'
<1> USE DEF TcpOnAccept, MinInv, SeqTypes
<1>1. SeqTypes' /\ spc # "down"
  BY Zenon
<1>2. ~IS_VALID_RANGE(reply_range'[r])
  BY DEF Range, IS_VALID_RANGE
<1>3. \A q \in Served' : q = r \/ q \in Served
  BY Zenon DEF Served
<1>4. \A q \in Receivers : q # r => /\ reply_range'[q] = reply_range[q]
                                    /\ reply_id'[q] = reply_id[q]
                                    /\ min_seq_found'[q] = min_seq_found[q]
  BY Zenon
<1>5. Served' \subseteq Receivers
  BY Zenon DEF Served
<1> QED BY <1>1, <1>2, <1>3, <1>4, <1>5, Zenon DEF Passed, IS_VALID_RANGE

(* The multicast side: numbers are only raised, to next_seq. *)
LEMMA MulticastStep ==
    ASSUME MinInv, Accumulate \/ Multicasting
    PROVE  MinInv'
<1> USE DEF multi, client, wires, sender
<1>1. CASE AccumSkip
  BY <1>1, NumbersUnchanged, Zenon DEF AccumSkip, Consumed, numbers, MinInv, SeqTypes,
     Served, Passed, IS_VALID_RANGE
<1>2. CASE AccumStage
  BY <1>2, StageStep DEF AccumStage, Consumed, MinInv, SeqTypes
<1>3. CASE AccumSend
  <2>1. next_seq + 1 \in Nat /\ next_seq + 1 >= next_seq
    BY DEF MinInv, SeqTypes
  <2>2. CASE next_seq + 1 = SEQUENCE_MAX
    BY <1>3, <2>1, <2>2, QuitStep, Zenon DEF AccumSend
  <2>3. CASE next_seq + 1 # SEQUENCE_MAX
    BY <1>3, <2>1, <2>3, StageStep, Zenon DEF AccumSend
  <2> QED BY <2>2, <2>3, Zenon
<1>4. CASE AccumBlocked
  BY <1>4, Zenon DEF AccumBlocked, MinInv, SeqTypes, Served, Passed, IS_VALID_RANGE
<1>5. CASE McastBegin
  <2>1. CASE Len(queue) - last_q_idx > QCap
    BY <1>5, <2>1, QuitStep, Zenon DEF McastBegin, MinInv, SeqTypes
  <2>2. CASE ~(Len(queue) - last_q_idx > QCap)
    BY <1>5, <2>2, Zenon DEF McastBegin, MinInv, SeqTypes, Served, Passed, IS_VALID_RANGE
  <2> QED BY <2>1, <2>2, Zenon
<1>6. CASE SendPending
  <2>1. next_seq' \in Nat /\ next_seq' >= next_seq
    BY <1>6 DEF SendPending, MinInv, SeqTypes
  <2>2. CASE next_seq + 1 = SEQUENCE_MAX
    BY <1>6, <2>1, <2>2, QuitStep, Zenon DEF SendPending
  <2>3. CASE next_seq + 1 # SEQUENCE_MAX
    BY <1>6, <2>1, <2>3
    DEF SendPending, MinInv, SeqTypes, Served, Passed, IS_VALID_RANGE
  <2> QED BY <2>2, <2>3, Zenon
<1>7. CASE SendHeartbeat
  BY <1>7, NumbersUnchanged, Zenon DEF SendHeartbeat, numbers
<1> QED BY <1>1, <1>2, <1>3, <1>4, <1>5, <1>6, <1>7, Zenon DEF Accumulate, Multicasting

(* A receiver changes no number of the sender. *)
LEMMA ReceiverStep ==
    ASSUME MinInv, NEW r \in Receivers, Open(r) \/ Close(r) \/ Receiving(r)
    PROVE  MinInv'
<1> USE DEF multi, client, wires, sender, MinInv, SeqTypes
<1>1. UNCHANGED sender
  BY Zenon DEF Open, Close, Receiving, Joining, Hearing
<1>2. Served' \subseteq Served /\ DOMAIN conn' = Receivers
  <2>1. CASE Open(r)
    BY <2>1, Zenon DEF Open, Connect, Served
  <2>2. CASE Close(r)
    BY <2>2, Zenon DEF Close, Leave, Disconnect, Served
  <2>3. CASE Join(r)
    BY <2>3, Zenon DEF Join, Served
  <2>4. CASE TcpReadHeader(r)
    BY <2>4, Zenon DEF TcpReadHeader, Disconnect, Served
  <2>5. CASE \/ \E p \in net[r] : McastRead(r, p) \/ McastHeartbeat(r, p)
             \/ TcpOnWriteR(r) \/ TcpReadBody(r)
    BY <2>5, Zenon DEF McastRead, McastHeartbeat, TcpOnWriteR, TcpReadBody, Served
  <2> QED BY <2>1, <2>2, <2>3, <2>4, <2>5, Zenon DEF Receiving, Joining, Hearing
<1> HIDE DEF MinInv, SeqTypes
<1> QED BY <1>1, <1>2, ConnectionStep, Zenon

(* MinInv is inductive. *)
LEMMA MinStep == MinInv /\ [Next]_vars => MinInv'
<1> SUFFICES ASSUME MinInv, [Next]_vars PROVE MinInv'
  BY Zenon
<1>1. CASE Writing
  BY <1>1, NumbersUnchanged, Zenon
  DEF Writing, WriteRecord, WriteQueue, wires, sender, multi, client, numbers
<1>2. CASE Quit
  BY <1>2, QuitStep, Zenon DEF Quit, SenderQuit, multi, client, MinInv, SeqTypes
<1>3. CASE Restart
  BY <1>3 DEF Restart, SenderStart, SenderFresh, client, wires, MinInv, SeqTypes,
              Served, Passed
<1>4. CASE UNCHANGED vars
  BY <1>4, NumbersUnchanged, Zenon DEF vars, sender, multi, client, wires, numbers
<1> QED BY <1>1, <1>2, <1>3, <1>4, MulticastStep, AcceptStep, ServingStep, ReceiverStep, Zenon
        DEF Next, Accept

(* A request that the sender drops because its numbers are no more than    *)
(* min_seq (tcp_on_read_blocked) concerns no record: every record has a    *)
(* later number, for any subscribers, records and schedule.                *)
THEOREM MinSeqBoundTheorem == Spec => []MinSeqBound
<1>1. MinInv => MinSeqBound
  BY Zenon DEF MinInv, MinSeqBound
<1> QED BY <1>1, MinInit, MinStep, PTL DEF Spec

-----------------------------------------------------------------------------
(* Types. *)

(* The initial state has the types of TypeInv. *)
LEMMA TypeInit == Init => TypeInv
<1> SUFFICES ASSUME Init PROVE TypeInv
  BY Zenon
<1> USE WireAssumption, SenderAssumption DEF Init
<1>1. SourceType /\ WireType /\ ScanType
  BY DEF WireInit, SourceType, WireType, ConnStates, ScanType, SenderInit
<1>2. SenderType /\ ClientType
  BY DEF SenderInit, SenderFresh, SenderType, ClientType, Invalid, Range, Numbers
<1>3. ReceiverType /\ HeaderType
  BY DEF ReceiverInit, ReceiverType, NoHeader, HeaderType, Listening
<1> QED BY <1>1, <1>2, <1>3, Zenon DEF TypeInv

(* The writer keeps the types. *)
LEMMA TypeWriting ==
    ASSUME TypeInv, Writing
    PROVE  TypeInv'
<1> USE DEF Writing, WriteRecord, WriteQueue, wires, sender, multi, client, receiver, history
<1>1. SourceType' /\ ScanType'
  <2>1. CASE \E i \in Ids : WriteRecord(i)
    BY <2>1 DEF TypeInv, SourceType, ScanType
  <2>2. CASE WriteQueue
    BY <2>2 DEF TypeInv, SourceType, SenderType, ScanType, Ids
  <2> QED BY <2>1, <2>2, Zenon
<1>2. WireType' /\ SenderType' /\ ClientType' /\ ReceiverType' /\ HeaderType'
  BY Zenon DEF TypeInv, WireType, SenderType, ClientType, ReceiverType, HeaderType, Listening
<1> QED BY <1>1, <1>2, Zenon DEF TypeInv

(* The farewell puts a message on each connection. *)
LEMMA TypeQuit ==
    ASSUME TypeInv, QuitWires, UNCHANGED rhdr, NEW p \in Packet,
           net' = net \/ Multicast(p)
    PROVE  WireType' /\ HeaderType'
<1> USE DEF TypeInv, WireType, QuitWires
<1>1. net' \in [Receivers -> SUBSET Packet]
  BY Zenon DEF Multicast
<1>2. conn' \in [Receivers -> ConnStates]
  BY Zenon DEF ConnStates
<1>0. [seq |-> WILL_QUIT_SEQ] \in Message
  BY Zenon DEF Message
<1>3. ASSUME NEW r \in Receivers
      PROVE  rep'[r] \in Seq(Message) /\ (rep[r] # <<>> => rep'[r] # <<>> /\ rep'[r][1] = rep[r][1])
  <2>1. rep[r] \in Seq(Message)
    BY Zenon
  <2>2. rep'[r] = rep[r] \/ rep'[r] = Append(rep[r], [seq |-> WILL_QUIT_SEQ])
    BY Zenon
  <2> HIDE DEF TypeInv, WireType, QuitWires
  <2>3. CASE rep'[r] = rep[r]
    BY <2>1, <2>3, Zenon
  <2>4. CASE rep'[r] = Append(rep[r], [seq |-> WILL_QUIT_SEQ])
    <3>1. PICK w \in Message : w = [seq |-> WILL_QUIT_SEQ]
      BY <1>0, Zenon
    <3>2. \A s \in Seq(Message) : /\ Append(s, w) \in Seq(Message)
                                  /\ s # <<>> => Append(s, w) # <<>> /\ Append(s, w)[1] = s[1]
      BY SMT
    <3> QED BY <2>1, <2>4, <3>1, <3>2, Zenon
  <2> QED BY <2>2, <2>3, <2>4, Zenon
<1>4. rep' \in [Receivers -> Seq(Message)]
  BY <1>3, Zenon
<1>5. \A r \in Receivers : r \in Listening' => r \in Listening
  BY Zenon DEF Listening
<1>6. HeaderType'
  BY <1>3, <1>5, Zenon DEF HeaderType, Listening
<1> QED BY <1>1, <1>2, <1>4, <1>6, Zenon

(* A multicast reaches the receivers or is lost. *)
LEMMA TypeHear ==
    ASSUME TypeInv, NEW p \in Packet, net' = net \/ Multicast(p), UNCHANGED <<conn, req, rep, rhdr>>
    PROVE  WireType' /\ HeaderType'
<1>1. net' \in [Receivers -> SUBSET Packet]
  BY Zenon DEF Multicast, TypeInv, WireType
<1> QED BY <1>1, Zenon DEF TypeInv, WireType, HeaderType, Listening

(* What send_pending and send_heartbeat multicast are packets. *)
LEMMA TypePackets ==
    ASSUME TypeInv, next_seq \in Nat
    PROVE  DataPacket \in Packet /\ Heartbeat \in Packet /\ <<>> \in Seq(Rec)
BY DEF TypeInv, SenderType, DataPacket, Heartbeat, Packet

(* Staging the record of the next queue entry. *)
LEMMA TypeStage ==
    ASSUME TypeInv, spc = "scan", NEW before \in Seq(Rec), NEW seq \in Nat, Stage(before, seq)
    PROVE  /\ pkt' \in Seq(Rec) /\ record_revs' \in [Ids -> Int] /\ record_seqs' \in [Ids -> Nat]
           /\ Id \in Ids
<1>1. Id \in Ids /\ val[Id] \in Nat
  BY DEF TypeInv, ScanType, SourceType, SenderType, Id
<1> QED BY <1>1 DEF Stage, TypeInv, SenderType, Rec

(* The four ways in which accum handles an entry of the queue. *)
LEMMA TypeAccumulate ==
    ASSUME TypeInv, Accumulate
    PROVE  TypeInv'
<1> USE DEF wires, sender, multi, client, receiver, history, source
<1>0. SourceType' /\ ClientType' /\ ReceiverType' /\ rhdr' = rhdr
  BY Zenon DEF Accumulate, AccumSkip, AccumStage, AccumSend, AccumBlocked,
         TypeInv, SourceType, ClientType, ReceiverType
<1>1. CASE AccumSkip
  <2>1. SenderType' /\ ScanType'
    <3>1. SenderType'
      BY <1>1 DEF AccumSkip, Consumed, TypeInv, SenderType, SourceType
    <3>2. ScanType'
      BY <1>1 DEF AccumSkip, Consumed, TypeInv, SenderType, ScanType
    <3> QED BY <3>1, <3>2
  <2>2. WireType' /\ HeaderType'
    BY <1>0, <1>1, Zenon DEF AccumSkip, TypeInv, WireType, HeaderType, Listening
  <2> QED BY <1>0, <2>1, <2>2, Zenon DEF TypeInv
<1>2. CASE AccumStage
  <2>0. ScanType' /\ last_q_idx' \in Nat
    BY <1>2 DEF AccumStage, Consumed, TypeInv, SenderType, ScanType, SourceType
  <2>1. SenderType' /\ ScanType'
    BY <1>2, <2>0, TypeStage, Zenon DEF AccumStage, TypeInv, SenderType
  <2>2. WireType' /\ HeaderType'
    BY <1>0, <1>2, Zenon DEF AccumStage, TypeInv, WireType, HeaderType, Listening
  <2> QED BY <1>0, <2>1, <2>2, Zenon DEF TypeInv
<1>3. CASE AccumSend
  <2>1. next_seq + 1 \in Nat /\ DataPacket \in Packet /\ <<>> \in Seq(Rec)
    BY TypePackets DEF TypeInv, SenderType
  <2>2. CASE next_seq + 1 = SEQUENCE_MAX
    <3>1. WireType' /\ HeaderType'
      BY <1>0, <1>3, <2>1, <2>2, TypeQuit, Zenon DEF AccumSend
    <3>2. SenderType' /\ ScanType'
      BY <1>3, <2>1, <2>2, Zenon DEF AccumSend, TypeInv, SenderType, ScanType
    <3> QED BY <1>0, <3>1, <3>2, Zenon DEF TypeInv
  <2>3. CASE next_seq + 1 # SEQUENCE_MAX
    <3>1. WireType' /\ HeaderType'
      BY <1>0, <1>3, <2>1, <2>3, TypeHear, Zenon DEF AccumSend
    <3>2. SenderType' /\ ScanType'
      BY <1>3, <2>1, <2>3, TypeStage, Zenon DEF AccumSend, TypeInv, SenderType, ScanType
    <3> QED BY <1>0, <3>1, <3>2, Zenon DEF TypeInv
  <2> QED BY <2>2, <2>3, Zenon
<1>4. CASE AccumBlocked
  BY <1>0, <1>4, Zenon DEF AccumBlocked, TypeInv, SenderType, ScanType, WireType, HeaderType, Listening
<1> QED BY <1>1, <1>2, <1>3, <1>4, Zenon DEF Accumulate

(* The beginning of mcast_on_write, a flush and a heartbeat. *)
LEMMA TypeMulticasting ==
    ASSUME TypeInv, Multicasting
    PROVE  TypeInv'
<1> USE DEF wires, sender, multi, client, receiver, history, source
<1>0. SourceType' /\ ClientType' /\ ReceiverType' /\ rhdr' = rhdr
  BY Zenon DEF Multicasting, McastBegin, SendPending, SendHeartbeat,
         TypeInv, SourceType, ClientType, ReceiverType
<1>1. /\ DataPacket \in Packet /\ Heartbeat \in Packet
      /\ <<>> \in Seq(Rec) /\ next_seq + 1 \in Nat
  BY TypePackets DEF TypeInv, SenderType
<1>2. SenderType' /\ ScanType'
  <2>1. CASE McastBegin
    <3>1. Len(queue) \in Nat
      BY DEF TypeInv, SourceType
    <3>2. new_q_idx' \in Nat
      BY <2>1, <3>1, Zenon DEF McastBegin, TypeInv, SenderType
    <3>3. last_q_idx < Len(queue) /\ Len(queue) <= Len(queue) /\ last_q_idx <= Len(queue)
      BY <2>1, <3>1 DEF McastBegin, TypeInv, SenderType
    <3> QED BY <2>1, <3>2, <3>3, Zenon DEF McastBegin, TypeInv, SenderType, ScanType
  <2>2. CASE SendPending
    BY <1>1, <2>2, Zenon DEF SendPending, TypeInv, SenderType, ScanType
  <2>3. CASE SendHeartbeat
    BY <2>3, Zenon DEF SendHeartbeat, TypeInv, SenderType, ScanType
  <2> QED BY <2>1, <2>2, <2>3, Zenon DEF Multicasting
<1>3. WireType' /\ HeaderType'
  <2>1. CASE QuitWires /\ (net' = net \/ Multicast(DataPacket))
    BY <1>0, <1>1, <2>1, TypeQuit, Zenon
  <2>2. CASE UNCHANGED <<conn, req, rep>> /\ (net' = net \/ Multicast(DataPacket))
    BY <1>0, <1>1, <2>2, TypeHear, Zenon
  <2>3. CASE SendHeartbeat
    BY <1>0, <1>1, <2>3, TypeHear, Zenon DEF SendHeartbeat
  <2> QED BY <2>1, <2>2, <2>3, Zenon DEF Multicasting, McastBegin, SendPending
<1> QED BY <1>0, <1>2, <1>3, Zenon DEF TypeInv

(* The sender ends and its next process starts. *)
LEMMA TypeSender ==
    ASSUME TypeInv, Quit \/ Restart
    PROVE  TypeInv'
<1> USE DEF wires, sender, multi, client, receiver, history, source
<1>0. SourceType' /\ ClientType' /\ ReceiverType' /\ rhdr' = rhdr
  BY Zenon DEF Quit, SenderQuit, Restart, SenderStart, TypeInv, SourceType, ClientType, ReceiverType
<1>2. CASE Quit
  <2>1. SenderType' /\ ScanType'
    BY <1>2, Zenon DEF Quit, SenderQuit, TypeInv, SenderType, ScanType
  <2> QED BY <1>0, <1>2, <2>1, TypePackets, TypeQuit, Zenon DEF Quit, SenderQuit, TypeInv, SenderType
<1>3. CASE Restart
  <2>1. WireType' /\ HeaderType'
    BY <1>0, <1>3, Zenon DEF Restart, SenderStart, TypeInv, WireType, HeaderType, Listening, ConnStates
  <2>2. SenderType' /\ ScanType'
    BY <1>3 DEF Restart, SenderStart, SenderFresh, TypeInv, SenderType, ScanType, SourceType
  <2> QED BY <1>0, <2>1, <2>2, Zenon DEF TypeInv
<1> QED BY <1>2, <1>3, Zenon

(* out_buf holds at most one message. *)
LEMMA OutType ==
    ASSUME TypeInv, NEW r \in Receivers, NEW m \in Seq(Message), Len(m) <= 1,
           out' = [out EXCEPT ![r] = m]
    PROVE  out' \in [Receivers -> Seq(Message)] /\ \A q \in Receivers : Len(out'[q]) <= 1
<1>1. \A q \in Receivers : out'[q] = IF q = r THEN m ELSE out[q]
  BY Zenon DEF TypeInv, ClientType
<1> QED BY <1>1, Zenon DEF TypeInv, ClientType

(* The head of a sequence is not changed by what is put behind it. *)
LEMMA Joined ==
    ASSUME NEW S, NEW s \in Seq(S), NEW t \in Seq(S)
    PROVE  s \o t \in Seq(S) /\ (s # <<>> => s \o t # <<>> /\ (s \o t)[1] = s[1])
<1>1. s \o t \in Seq(S) /\ Len(s \o t) = Len(s) + Len(t) /\ Len(s) \in Nat /\ Len(t) \in Nat
  OBVIOUS
<1>2. s # <<>> => Len(s) >= 1
  OBVIOUS
<1>3. Len(s) >= 1 => (s \o t)[1] = s[1]
  BY <1>1
<1> QED BY <1>1, <1>2, <1>3

LEMMA LenNat == ASSUME NEW S, NEW s \in Seq(S) PROVE Len(s) \in Nat
OBVIOUS

(* A client is accepted, or hangs up. *)
LEMMA TypeAccept ==
    ASSUME TypeInv, NEW r \in Receivers, Accept(r) \/ (TcpOnHup(r) /\ UNCHANGED <<receiver, history>>)
    PROVE  TypeInv'
<1> USE DEF wires, sender, multi, client, receiver, history, source, Accept, TcpOnAccept, TcpOnHup
<1>0. SourceType' /\ ReceiverType' /\ rhdr' = rhdr
  BY Zenon DEF TypeInv, SourceType, ReceiverType
<1>1. SenderType' /\ ScanType'
  <2>1. UNCHANGED <<pkt, next_seq, record_revs, record_seqs, new_q_idx, queue, spc>> /\ spc = "poll"
    BY Zenon
  <2>2. last_q_idx' \in {last_q_idx, Len(queue)}
    BY Zenon
  <2>3. Len(queue) \in Nat /\ Len(queue) <= Len(queue)
    <3>1. Len(queue) \in Nat
      BY LenNat, Zenon DEF TypeInv, SourceType
    <3> QED BY <3>1, Orders, Zenon
  <2> QED BY <2>1, <2>2, <2>3, Zenon DEF TypeInv, SenderType, ScanType
<1>2. ClientType'
  <2>1. Invalid \in Numbers /\ Range(0, 0) \in Numbers /\ <<>> \in Seq(Message)
    BY SenderAssumption DEF Invalid, Range, Numbers
  <2>2. CASE TcpOnHup(r)
    BY <2>2, Zenon DEF TypeInv, ClientType
  <2>3. CASE Accept(r)
    <3>1. out' \in [Receivers -> Seq(Message)] /\ \A q \in Receivers : Len(out'[q]) <= 1
      <4>1. Len(<<>>) <= 1 /\ out' = [out EXCEPT ![r] = <<>>]
        BY <2>3
      <4> QED BY <2>1, <4>1, OutType, Zenon
    <3>2. reply_id' \in [Receivers -> Nat \ {0}]
      BY <2>3 DEF TypeInv, ClientType
    <3> QED BY <2>1, <2>3, <3>1, <3>2, Zenon DEF TypeInv, ClientType
  <2> QED BY <2>2, <2>3, Zenon
<1>3. WireType' /\ HeaderType'
  BY <1>0, Zenon DEF TypeInv, WireType, HeaderType, Listening, ConnStates
<1> QED BY <1>0, <1>1, <1>2, <1>3, Zenon DEF TypeInv

(* One round for a client. *)
LEMMA TypeServing ==
    ASSUME TypeInv, NEW r \in Receivers, ClientRead(r) \/ ClientReadBlocked(r),
           UNCHANGED <<receiver, history>>
    PROVE  TypeInv'
<1> USE DEF wires, sender, multi, client, receiver, history, source
<1>0. UNCHANGED <<source, multi, conn, net, receiver, history, spc>>
  BY Zenon DEF ClientRead, ClientReadBlocked, Write
<1>1. SourceType' /\ SenderType' /\ ScanType' /\ ReceiverType'
  BY <1>0, Zenon DEF TypeInv, SourceType, ReceiverType, SenderType, ScanType
<1>2. union_range' \in [Receivers -> Numbers] /\ req' \in [Receivers -> Seq(Numbers)]
  <2>1. Invalid \in Numbers
    BY SenderAssumption, Zenon DEF Invalid, Range, Numbers
  <2>2. CASE ClientReadBlocked(r)
    BY <2>1, <2>2, Zenon DEF ClientReadBlocked, TypeInv, ClientType, WireType
  <2>3. CASE ClientRead(r)
    <3>1. Head(req[r]) \in Numbers /\ Tail(req[r]) \in Seq(Numbers) /\ union_range[r] \in Numbers
      BY <2>3 DEF ClientRead, TypeInv, WireType, ClientType
    <3>2. Unite(union_range[r], Head(req[r])) \in Numbers
      BY <3>1, Zenon DEF Unite, Range, Numbers
    <3> QED BY <2>3, <3>1, <3>2, Zenon DEF ClientRead, TypeInv, WireType, ClientType
  <2> QED BY <2>2, <2>3, Zenon
<1>3. PICK re, from, found : re \in Numbers /\ from \in Nat \ {0} /\ Write(r, re, from, found)
  <2>1. /\ union_range[r] \in Numbers /\ reply_range[r] \in Numbers
        /\ reply_id[r] \in Nat \ {0} /\ 1 \in Nat \ {0}
    <3>1. 1 \in Nat \ {0}
      BY SMT
    <3> QED BY <3>1, Zenon DEF TypeInv, ClientType
  <2>2. \/ Write(r, union_range[r], 1, SEQUENCE_MAX)
        \/ Write(r, reply_range[r], reply_id[r], min_seq_found[r])
    BY Zenon DEF ClientRead, ClientReadBlocked
  <2> QED BY <2>1, <2>2, Zenon
<1>4. CASE NoWrite(r, re, from, found)
  BY <1>0, <1>1, <1>2, <1>3, <1>4, Zenon DEF NoWrite, TypeInv, WireType, ClientType, HeaderType, Listening
<1>5. CASE TcpOnWrite(r, re, from, found)
  <2>1. rep[r] \in Seq(Message) /\ out[r] \in Seq(Message) /\ Len(out[r]) <= 1
    BY Zenon DEF TypeInv, WireType, ClientType
  <2>2. rep[r] \o out[r] \in Seq(Message)
        /\ (rep[r] # <<>> => rep[r] \o out[r] # <<>> /\ (rep[r] \o out[r])[1] = rep[r][1])
    BY <2>1, Joined, Zenon
  <2>3. WireType' /\ HeaderType'
    BY <1>0, <1>2, <1>5, <2>2, Zenon DEF TcpOnWrite, TypeInv, WireType, HeaderType, Listening
  <2>4. /\ reply_range' \in [Receivers -> Numbers] /\ reply_id' \in [Receivers -> Nat \ {0}]
        /\ \E m \in Message : out' = [out EXCEPT ![r] = <<m>>] \/ out' = [out EXCEPT ![r] = <<>>]
    <3>1. CASE ~IS_VALID_RANGE(re)
      <4>1. [seq |-> HEARTBEAT_SEQ] \in Message
        BY Zenon DEF Message
      <4> QED BY <1>5, <3>1, <4>1, Zenon DEF TcpOnWrite, TypeInv, ClientType
    <3>2. CASE NextReply(r, re, from, found)
      <4>1. Invalid \in Numbers
        BY SenderAssumption, Zenon DEF Invalid, Range, Numbers
      <4>2. PICK to \in from..(N + 1) :
              \/ /\ to \in Ids /\ out' = [out EXCEPT ![r] = <<Reply(to)>>]
                 /\ reply_id' = [reply_id EXCEPT ![r] = to + 1]
                 /\ reply_range' = [reply_range EXCEPT ![r] = re]
              \/ /\ out' = [out EXCEPT ![r] = <<>>]
                 /\ reply_id' = [reply_id EXCEPT ![r] = to]
                 /\ reply_range' = [reply_range EXCEPT ![r] = Invalid]
        BY <1>3, <3>2, WireAssumption DEF NextReply, Ids
      <4>3. to \in Nat \ {0} /\ to + 1 \in Nat \ {0}
        BY <1>3, WireAssumption
      <4>4. to \in Ids => Reply(to) \in Message
        BY Zenon DEF Reply, Message, TypeInv, SourceType, SenderType
      <4>5. Message # {}
        BY Zenon DEF Message
      <4> QED BY <1>3, <4>1, <4>2, <4>3, <4>4, <4>5, Zenon DEF TypeInv, ClientType
    <3> QED BY <1>5, <3>1, <3>2, Zenon DEF TcpOnWrite
  <2>5. out' \in [Receivers -> Seq(Message)] /\ \A q \in Receivers : Len(out'[q]) <= 1
    <3>1. \A m \in Message : <<m>> \in Seq(Message) /\ Len(<<m>>) <= 1
      OBVIOUS
    <3>2. <<>> \in Seq(Message) /\ Len(<<>>) <= 1
      OBVIOUS
    <3> QED BY <2>4, <3>1, <3>2, OutType, Zenon
  <2> QED BY <1>1, <1>2, <2>3, <2>4, <2>5, Zenon DEF TypeInv, ClientType
<1> QED BY <1>3, <1>4, <1>5, Zenon DEF Write

(* What a packet is made of. *)
LEMMA InPacket ==
    ASSUME NEW p \in Packet
    PROVE  /\ p.seq \in Int /\ Len(p.recs) \in Nat
           /\ \A k \in 1..Len(p.recs) : p.recs[k].id \in Ids /\ p.recs[k].val \in Nat
<1>1. p.seq \in Int /\ p.recs \in Seq(Rec)
  BY Zenon DEF Packet
<1>2. \A k \in 1..Len(p.recs) : p.recs[k] \in Rec
  BY <1>1
<1> QED BY <1>1, <1>2 DEF Rec

(* A message that is no heartbeat and no farewell is a reply. *)
LEMMA InMessage ==
    ASSUME NEW m \in Message
    PROVE  m.seq \in Int /\ (m.seq >= 0 => m.seq \in Nat /\ m.id \in Ids /\ m.val \in Nat)
BY DEF Message, HEARTBEAT_SEQ, WILL_QUIT_SEQ

(* What a packet does to the records of its receiver (update_record). *)
LEMMA Applied ==
    ASSUME TypeInv, NEW r \in Receivers, NEW p \in Packet, Apply(r, p)
    PROVE  /\ rval' \in [Receivers -> [Ids -> Nat]] /\ rseqs' \in [Receivers -> [Ids -> Int]]
           /\ \A q \in Receivers : q # r => rval'[q] = rval[q] /\ rseqs'[q] = rseqs[q]
           /\ \A i \in Ids :
                 \/ LastOf(p, i) = {} /\ rval'[r][i] = rval[r][i] /\ rseqs'[r][i] = rseqs[r][i]
                 \/ /\ rseqs'[r][i] = p.seq
                    /\ \E k \in LastOf(p, i) : rval'[r][i] = p.recs[k].val
<1> USE DEF TypeInv, ReceiverType
<1> DEFINE v(i) == IF LastOf(p, i) = {} THEN rval[r][i]
                   ELSE p.recs[CHOOSE k \in LastOf(p, i) : TRUE].val
           s(i) == IF LastOf(p, i) = {} THEN rseqs[r][i] ELSE p.seq
<1>1. ASSUME NEW i \in Ids
      PROVE  /\ v(i) \in Nat /\ s(i) \in Int
             /\ \/ LastOf(p, i) = {} /\ v(i) = rval[r][i] /\ s(i) = rseqs[r][i]
                \/ s(i) = p.seq /\ \E k \in LastOf(p, i) : v(i) = p.recs[k].val
  <2>1. CASE LastOf(p, i) = {}
    BY <2>1, Zenon
  <2>2. CASE LastOf(p, i) # {}
    <3>1. PICK k : k = CHOOSE x \in LastOf(p, i) : TRUE
      BY Zenon
    <3>2. k \in LastOf(p, i) /\ v(i) = p.recs[k].val /\ s(i) = p.seq
      BY <2>2, <3>1, Zenon
    <3>3. k \in 1..Len(p.recs)
      BY <3>2, Zenon DEF LastOf
    <3>4. p.seq \in Int /\ p.recs[k].val \in Nat
      BY <3>3, InPacket, Zenon
    <3> HIDE DEF v, s
    <3> QED BY <3>2, <3>4, Zenon
  <2> QED BY <2>1, <2>2, Zenon
<1>2. /\ rval' = [rval EXCEPT ![r] = [i \in Ids |-> v(i)]]
      /\ rseqs' = [rseqs EXCEPT ![r] = [i \in Ids |-> s(i)]]
  BY Zenon DEF Apply
<1> HIDE DEF v, s
<1> QED BY <1>1, <1>2, Zenon

(* The first of a sequence, and the rest. *)
LEMMA FirstRest ==
    ASSUME NEW S, NEW s \in Seq(S), s # <<>>
    PROVE  s[1] \in S /\ Head(s) = s[1] /\ Tail(s) \in Seq(S)
OBVIOUS

(* What a reply does to the records of its receiver: an older number is    *)
(* ignored.                                                                *)
LEMMA BodyRead ==
    ASSUME TypeInv, NEW r \in Receivers, TcpReadBody(r), NEW m, m = rep[r][1]
    PROVE  /\ rep[r] # <<>> /\ m \in Message /\ m.seq \in Nat /\ m.id \in Ids /\ m.val \in Nat
           /\ rval' \in [Receivers -> [Ids -> Nat]] /\ rseqs' \in [Receivers -> [Ids -> Int]]
           /\ \A q \in Receivers : q # r => rval'[q] = rval[q] /\ rseqs'[q] = rseqs[q]
           /\ \A i \in Ids : i # m.id => rval'[r][i] = rval[r][i] /\ rseqs'[r][i] = rseqs[r][i]
           /\ IF m.seq > rseqs[r][m.id]
              THEN rval'[r][m.id] = m.val /\ rseqs'[r][m.id] = m.seq
              ELSE rval'[r] = rval[r] /\ rseqs'[r] = rseqs[r]
<1> USE DEF TypeInv, ReceiverType
<1>1. m \in Message /\ m.seq >= 0 /\ rhdr[r] = m.seq /\ rep[r] # <<>>
  <2>1. r \in Listening /\ rhdr[r] # NoHeader
    BY Zenon DEF TcpReadBody
  <2>2. rep[r] # <<>> /\ rhdr[r] = m.seq /\ rhdr[r] >= 0 /\ rep[r] \in Seq(Message)
    BY <2>1, Zenon DEF WireType, HeaderType
  <2> QED BY <2>2, FirstRest, Zenon
<1>2. m.seq \in Nat /\ m.id \in Ids /\ m.val \in Nat
  BY <1>1, InMessage, Zenon
<1>3. CASE m.seq > rseqs[r][m.id]
  <2>1. rval' = [rval EXCEPT ![r] = [rval[r] EXCEPT ![m.id] = m.val]]
        /\ rseqs' = [rseqs EXCEPT ![r] = [rseqs[r] EXCEPT ![m.id] = m.seq]]
    BY <1>1, <1>3, Zenon DEF TcpReadBody
  <2>2. [rval[r] EXCEPT ![m.id] = m.val] \in [Ids -> Nat]
        /\ [rseqs[r] EXCEPT ![m.id] = m.seq] \in [Ids -> Int]
    BY <1>2
  <2> QED BY <1>1, <1>2, <1>3, <2>1, <2>2, Zenon
<1>4. CASE ~(m.seq > rseqs[r][m.id])
  <2>1. rval' = rval /\ rseqs' = rseqs
    BY <1>1, <1>4, Zenon DEF TcpReadBody
  <2> QED BY <1>1, <1>2, <1>4, <2>1, Zenon
<1> QED BY <1>3, <1>4, Zenon

LEMMA BodyElse ==
    ASSUME TypeInv, NEW r \in Receivers, TcpReadBody(r), NEW i \in Ids, rep[r][1].id # i
    PROVE  rval'[r][i] = rval[r][i] /\ rseqs'[r][i] = rseqs[r][i]
BY BodyRead

(* The handlers of a receiver keep the types. *)
LEMMA TypeReceiving ==
    ASSUME TypeInv, NEW r \in Receivers, Open(r) \/ Close(r) \/ Receiving(r)
    PROVE  TypeInv'
<1> USE DEF wires, sender, multi, client, receiver, history, source
<1>0. UNCHANGED <<sender, source>>
  BY Zenon DEF Open, Connect, Close, Leave, Receiving, Joining, Join, Hearing, McastRead,
         McastHeartbeat, TcpOnWriteR, TcpReadHeader, TcpReadBody
<1>1. SourceType' /\ SenderType' /\ ScanType' /\ ClientType'
  BY <1>0, Zenon DEF TypeInv, SourceType, ClientType, SenderType, ScanType
<1> SUFFICES WireType' /\ HeaderType' /\ ReceiverType'
  BY <1>1, Zenon DEF TypeInv
<1> USE DEF TypeInv, WireType, HeaderType, ReceiverType, Listening, ConnStates
<1>2. CASE Open(r)
  BY <1>2 DEF Open, Connect
<1>3. CASE Close(r)
  BY <1>3, Zenon DEF Close, Leave, Disconnect
<1>4. CASE Joining(r)
  <2>1. /\ -1 \in Int /\ 0 \in Nat /\ NoHeader \in Int
        /\ <<>> \in Seq(Numbers) /\ Len(<<>>) <= 1
    BY SMT DEF NoHeader
  <2> QED BY <1>4, <2>1, Zenon DEF Joining, Join
<1>5. CASE \E p \in net[r] : Hearing(r, p)
  <2>1. PICK p \in net[r] : Hearing(r, p)
    BY <1>5, Zenon
  <2>2. p \in Packet /\ UNCHANGED <<rhdr, wires>>
    BY <2>1, Zenon DEF Hearing, McastRead, McastHeartbeat
  <2>3. rval' \in [Receivers -> [Ids -> Nat]] /\ rseqs' \in [Receivers -> [Ids -> Int]]
    BY <2>1, <2>2, Applied, Zenon DEF Hearing, McastRead, McastHeartbeat
  <2>4. PICK seq \in Nat : RequestGap(r, seq) /\ rnext' \in [Receivers -> Nat]
    <3>0. p.seq \in Int /\ rnext[r] \in Nat
      BY <2>2, InPacket, Zenon
    <3>1. CASE McastRead(r, p)
      <4>1. p.seq \in Nat /\ p.seq + 1 \in Nat
        BY <3>0, <3>1 DEF McastRead
      <4> QED BY <3>1, <4>1, Zenon DEF McastRead
    <3>2. CASE McastHeartbeat(r, p)
      <4>1. -p.seq \in Nat
        BY <3>0, <3>2 DEF McastHeartbeat
      <4> QED BY <3>2, <4>1, Zenon DEF McastHeartbeat
    <3> QED BY <2>1, <3>1, <3>2, Zenon DEF Hearing
  <2>5. Range(rnext[r], seq) \in Numbers
    BY Zenon DEF Numbers, Range
  <2>6. rout' \in [Receivers -> Seq(Numbers)] /\ \A q \in Receivers : Len(rout'[q]) <= 1
    <3>1. <<Range(rnext[r], seq)>> \in Seq(Numbers) /\ Len(<<Range(rnext[r], seq)>>) <= 1
      BY <2>5
    <3>2. \A q \in Receivers : rout'[q] = rout[q] \/ rout'[q] = <<Range(rnext[r], seq)>>
      BY <2>4, Zenon DEF RequestGap
    <3> QED BY <2>4, <3>1, <3>2, Zenon DEF RequestGap
  <2>7. overwritten' \in [Receivers -> SUBSET Int]
    <3>1. Replaced(r) \subseteq Int
      BY DEF Replaced
    <3> QED BY <2>1, <3>1, Zenon DEF Hearing
  <2> QED BY <2>2, <2>3, <2>4, <2>6, <2>7, Zenon
<1>6. CASE TcpOnWriteR(r) /\ UNCHANGED <<sender, history>>
  <2>1. rout[r][1] \in Numbers /\ <<>> \in Seq(Numbers)
    BY <1>6 DEF TcpOnWriteR
  <2> QED BY <1>6, <2>1 DEF TcpOnWriteR
<1>7. CASE TcpReadHeader(r) /\ UNCHANGED <<sender, history>>
  <2>1. rep[r][1] \in Message /\ Tail(rep[r]) \in Seq(Message)
    <3>1. rep[r] # <<>> /\ rep[r] \in Seq(Message)
      BY <1>7, Zenon DEF TcpReadHeader
    <3> QED BY <3>1, FirstRest, Zenon
  <2>2. ReceiverType'
    <3>1. rep[r][1].seq \in Int
      BY <2>1, InMessage, Zenon
    <3> QED BY <1>7, <3>1, Zenon DEF TcpReadHeader
  <2>3. WireType'
    BY <1>7, <2>1, Zenon DEF TcpReadHeader, Disconnect
  <2>4. HeaderType'
    BY <1>7, <2>1, Zenon DEF TcpReadHeader, Disconnect, NoHeader
  <2> QED BY <2>2, <2>3, <2>4, Zenon
<1>8. CASE TcpReadBody(r) /\ UNCHANGED <<sender, history>>
  <2>1. rep[r][1] \in Message /\ rep[r][1].seq >= 0 /\ Tail(rep[r]) \in Seq(Message)
    <3>1. /\ rep[r] # <<>> /\ rhdr[r] = rep[r][1].seq /\ rhdr[r] >= 0
          /\ rep[r] \in Seq(Message)
      BY <1>8, Zenon DEF TcpReadBody
    <3> QED BY <3>1, FirstRest, Zenon
  <2>3. rval' \in [Receivers -> [Ids -> Nat]] /\ rseqs' \in [Receivers -> [Ids -> Int]]
    BY <1>8, BodyRead, Zenon
  <2>4. ReceiverType'
    <3>1. rhdr' = [rhdr EXCEPT ![r] = -3] /\ UNCHANGED <<rnext, rout, overwritten>>
      BY <1>8, Zenon DEF TcpReadBody, NoHeader
    <3> QED BY <2>3, <3>1
  <2>5. WireType' /\ HeaderType'
    BY <1>8, <2>1, Zenon DEF TcpReadBody, NoHeader
  <2> QED BY <2>4, <2>5, Zenon
<1> QED BY <1>2, <1>3, <1>4, <1>5, <1>6, <1>7, <1>8, Zenon DEF Receiving

(* TypeInv is inductive. *)
LEMMA TypeStep == TypeInv /\ [Next]_vars => TypeInv'
<1> SUFFICES ASSUME TypeInv, [Next]_vars PROVE TypeInv'
  BY Zenon
<1>1. CASE UNCHANGED vars
  BY <1>1, Zenon DEF vars, source, wires, sender, multi, client, receiver, history, TypeInv, SourceType, WireType,
     SenderType, ClientType, ReceiverType, ScanType, HeaderType, Listening
<1>2. ASSUME NEW r \in Receivers, Serving(r) PROVE TypeInv'
  BY <1>2, TypeServing, TypeAccept, Zenon DEF Serving
<1> QED BY <1>1, <1>2, TypeWriting, TypeAccumulate, TypeMulticasting, TypeSender, TypeAccept,
        TypeReceiving, Zenon DEF Next

-----------------------------------------------------------------------------
(* What is staged. *)

(* At the start nothing is staged. *)
LEMMA StagedInit == Init => StagedInv
BY SenderAssumption, WireAssumption
   DEF Init, WireInit, SenderInit, SenderFresh, StagedInv, Has

(* What StagedInv speaks of. *)
LEMMA StagedFrame ==
    ASSUME StagedInv, UNCHANGED staged, spc' = "down" \/ spc # "down"
    PROVE  StagedInv'
BY Zenon DEF StagedInv, staged, source, Has, Final, Settled, Unread

(* What a staged packet is made of. *)
LEMMA InRecs ==
    ASSUME NEW s \in Seq(Rec)
    PROVE  \A k \in 1..Len(s) : s[k].id \in Ids /\ s[k].val \in Nat
<1>1. \A k \in 1..Len(s) : s[k] \in Rec
  OBVIOUS
<1> QED BY <1>1, Zenon DEF Rec

(* A record staged again supersedes its earlier occurrences. *)
LEMMA Appended ==
    ASSUME NEW s \in Seq(Rec), NEW x \in Rec
    PROVE  /\ \A i \in Ids : Has(Append(s, x), i) <=> Has(s, i) \/ i = x.id
           /\ \A k \in 1..Len(Append(s, x)) :
                 \/ k = Len(s) + 1 /\ Append(s, x)[k] = x
                 \/ /\ k \in 1..Len(s) /\ Append(s, x)[k] = s[k]
                    /\ Final(Append(s, x), k) => Final(s, k) /\ s[k].id # x.id
<1>1. Append(s, x) \in Seq(Rec) /\ Len(Append(s, x)) = Len(s) + 1 /\ Len(s) \in Nat
  OBVIOUS
<1>2. Append(s, x)[Len(s) + 1] = x /\ \A k \in 1..Len(s) : Append(s, x)[k] = s[k]
  OBVIOUS
<1> DEFINE t == Append(s, x)
<1> HIDE DEF t
<1>3. /\ Len(t) = Len(s) + 1 /\ Len(s) \in Nat /\ t[Len(s) + 1] = x
      /\ \A k \in 1..Len(s) : t[k] = s[k]
  BY <1>1, <1>2, Zenon DEF t
<1>4. \A i \in Ids : Has(t, i) <=> Has(s, i) \/ i = x.id
  BY <1>3 DEF Has
<1>5. \A k \in 1..Len(t) :
         \/ k = Len(s) + 1 /\ t[k] = x
         \/ /\ k \in 1..Len(s) /\ t[k] = s[k]
            /\ Final(t, k) => Final(s, k) /\ s[k].id # x.id
  BY <1>3 DEF Final
<1> QED BY <1>4, <1>5, Zenon DEF t

(* A step that stages, writes and reads nothing is no setback. *)
LEMMA FrameProgress ==
    ASSUME TypeInv, UNCHANGED staged
    PROVE  Progress
BY DEF Progress, Advance, staged, source, Settled, Unread, TypeInv, SourceType, SenderType

(* A write unsettles its record until the sender has read the queue. *)
LEMMA WriteStaged ==
    ASSUME TypeInv, StagedInv, Writing
    PROVE  StagedInv' /\ Progress
<1>0. /\ val \in [Ids -> Nat] /\ queue \in Seq(Ids) /\ last_q_idx \in Nat /\ last_q_idx <= Len(queue)
      /\ record_revs \in [Ids -> Int] /\ next_seq \in Nat /\ pkt \in Seq(Rec)
  BY Zenon DEF TypeInv, SourceType, SenderType, ScanType
<1>a. record_seqs \in [Ids -> Nat]
  BY Zenon DEF TypeInv, SenderType
<1>1. UNCHANGED <<spc, pkt, next_seq, record_revs, record_seqs, last_q_idx, abandoned>>
  BY Zenon DEF Writing, sender, multi, history
<1>2. CASE WriteQueue
  <2>1. \A i \in Ids : Unread(i)' <=> Unread(i)
    BY <1>0, <1>1, <1>2 DEF WriteQueue, Unread, Ids
  <2>2. val' = val /\ \A i \in Ids : Settled(i)' <=> Settled(i)
    BY <1>1, <1>2, <2>1, Zenon DEF WriteQueue, Settled
  <2>3. Progress
    BY <1>a, <1>0, <1>1, <2>2 DEF Progress, Advance
  <2> QED BY <1>1, <2>2, <2>3, Zenon DEF StagedInv, Has, Final
<1>3. ASSUME NEW i \in Ids, WriteRecord(i)
      PROVE  StagedInv' /\ Progress
  <2>1. /\ val'[i] = val[i] + 1 /\ \A j \in Ids : j # i => val'[j] = val[j]
        /\ UNCHANGED queue /\ Unread(i)'
    BY <1>0, <1>3, Zenon DEF WriteRecord, Unread
  <2>2. \A j \in Ids : j # i => (Unread(j) => Unread(j)')
    BY <1>0, <1>1, <1>3, <2>1 DEF WriteRecord, Unread, Ids
  <2>3. record_revs[i] <= val[i]
    BY Zenon DEF StagedInv
  <2>4. \A j \in Ids : /\ Settled(j)' => Settled(j) /\ val'[j] = val[j]
                       /\ val[j] <= val'[j]
    BY <1>0, <1>1, <2>1, <2>2, <2>3 DEF Settled
  <2>5. Progress
    BY <1>a, <1>0, <1>1, <2>4 DEF Progress, Advance
  <2>6. \A k \in 1..Len(pkt) : pkt[k].id \in Ids /\ pkt[k].val \in Nat
    BY <1>0, InRecs, Zenon
  <2>7. \A j \in Ids : record_revs[j] <= val'[j]
    <3>1. \A j \in Ids : record_revs[j] \in Int /\ val[j] \in Int /\ val'[j] \in Int
      BY <1>0, <2>1, Orders, Zenon
    <3> QED BY <2>4, <3>1, Chain, Zenon DEF StagedInv
  <2>8. ASSUME spc # "down", NEW k \in 1..Len(pkt) PROVE pkt[k].val <= val'[pkt[k].id]
    <3>1. pkt[k].val <= val[pkt[k].id] /\ pkt[k].id \in Ids /\ pkt[k].val \in Nat
      BY <2>6, <2>8, Zenon DEF StagedInv
    <3>2. \A j \in Ids : val[j] \in Int /\ val'[j] \in Int
      BY <1>0, <2>1, Orders, Zenon
    <3>3. pkt[k].val \in Int /\ val[pkt[k].id] <= val'[pkt[k].id]
      BY <2>4, <3>1, Orders, Zenon
    <3> QED BY <3>1, <3>2, <3>3, Chain, Zenon
  <2> QED BY <1>1, <2>4, <2>5, <2>7, <2>8, Zenon DEF StagedInv, Has, Final
<1> QED BY <1>2, <1>3, Zenon DEF Writing

(* Reading an entry of the queue concerns its record only. *)
LEMMA UnreadStep ==
    ASSUME TypeInv, spc = "scan", last_q_idx' = last_q_idx + 1, UNCHANGED <<queue, wid>>
    PROVE  \A i \in Ids : (Unread(i)' => Unread(i)) /\ (i # Id /\ Unread(i) => Unread(i)')
<1>1. queue \in Seq(Ids) /\ last_q_idx \in Nat
  BY Zenon DEF TypeInv, SourceType, SenderType
<1> QED BY <1>1 DEF Unread, Id

(* Staging the current entry's record, at the end of a packet that only    *)
(* holds records with the number seq.                                      *)
LEMMA StageStaged ==
    ASSUME TypeInv, StagedInv, spc = "scan", spc' # "down",
           NEW before \in Seq(Rec), NEW seq \in Nat, Stage(before, seq),
           next_seq' = seq, seq >= next_seq, seq >= 1,
           last_q_idx' = last_q_idx \/ last_q_idx' = last_q_idx + 1,
           abandoned' = abandoned \/ abandoned' = abandoned \ {Id}, UNCHANGED source,
           (before = pkt /\ seq = next_seq) \/ (before = <<>> /\ seq = next_seq + 1),
           \A i \in Ids : record_seqs[i] <= next_seq
    PROVE  StagedInv' /\ Progress
<1>0. /\ val \in [Ids -> Nat] /\ queue \in Seq(Ids) /\ last_q_idx \in Nat /\ Id \in Ids
      /\ record_revs \in [Ids -> Int] /\ record_seqs \in [Ids -> Nat] /\ next_seq \in Nat
  BY TypeStage, Zenon DEF TypeInv, SourceType, SenderType
<1>1. /\ UNCHANGED <<val, queue, wid>>
      /\ record_revs'[Id] = val[Id] /\ record_seqs'[Id] = seq
      /\ \A i \in Ids : i # Id => record_revs'[i] = record_revs[i] /\ record_seqs'[i] = record_seqs[i]
  BY <1>0, Zenon DEF Stage, source
<1>2. \A i \in Ids : i # Id => (Unread(i)' <=> Unread(i)) /\ (i \in abandoned' <=> i \in abandoned)
  BY <1>0, <1>1, UnreadStep, Zenon DEF Unread
<1>3. \A i \in Ids : i # Id => (Settled(i)' <=> Settled(i))
  BY <1>1, <1>2, Zenon DEF Settled
<1>4. Progress
  <2>1. ASSUME NEW i \in Ids PROVE record_seqs[i] <= record_seqs'[i]
    <3>1. record_seqs[i] <= next_seq /\ record_seqs[i] \in Nat
      BY <1>0, Zenon
    <3>2. record_seqs'[i] = seq \/ record_seqs'[i] = record_seqs[i]
      BY <1>1, Zenon
    <3> QED BY <1>0, <3>1, <3>2
  <2>2. \A i \in Ids : val[i] <= val'[i]
    BY <1>0, <1>1
  <2> QED BY <1>1, <1>3, <2>1, <2>2, Zenon DEF Progress, Advance
<1> DEFINE x == [id |-> Id, val |-> val[Id]]
<1>5. pkt' = Append(before, x) /\ x \in Rec /\ x.id = Id /\ x.val = val[Id]
  BY <1>0, Zenon DEF Stage, Rec
<1> HIDE DEF x
<1>6. \A i \in Ids : Has(pkt', i) <=> Has(before, i) \/ i = Id
  BY <1>5, Appended
<1>7. \A i \in Ids : Has(before, i) => before = pkt /\ Has(pkt, i)
  BY DEF Has
<1>8. ASSUME NEW i \in Ids PROVE record_seqs'[i] = seq <=> Has(pkt', i)
  <2>1. CASE i = Id
    BY <1>1, <1>6, <2>1, Zenon
  <2>2. CASE i # Id /\ before = pkt /\ seq = next_seq
    <3>1. record_seqs[i] = next_seq <=> Has(pkt, i)
      BY Zenon DEF StagedInv
    <3> QED BY <1>1, <1>6, <2>2, <3>1, Zenon
  <2>3. CASE i # Id /\ before = <<>> /\ seq = next_seq + 1
    <3>1. ~Has(before, i)
      BY <2>3 DEF Has
    <3> QED BY <1>0, <1>1, <1>6, <2>3, <3>1
  <2> QED BY <2>1, <2>2, <2>3, Zenon
<1>9. ASSUME NEW k \in 1..Len(pkt')
      PROVE  pkt'[k].val <= val[pkt'[k].id] /\ (Final(pkt', k) => pkt'[k].val = record_revs'[pkt'[k].id])
  <2>1. CASE pkt'[k] = x
    BY <1>0, <1>1, <1>5, <2>1
  <2>2. CASE /\ k \in 1..Len(before) /\ pkt'[k] = before[k]
             /\ Final(pkt', k) => Final(before, k) /\ before[k].id # Id
    <3>1. before = pkt
      BY <2>2
    <3>2. pkt[k].id \in Ids
      BY <2>2, <3>1, InRecs, Zenon
    <3> QED BY <1>1, <2>2, <3>1, <3>2, Zenon DEF StagedInv
  <2> QED BY <1>5, <2>1, <2>2, Appended
<1>10. \A i \in Ids : Has(pkt', i) /\ Settled(i)' => val[i] = record_revs'[i]
  BY <1>1, <1>3, <1>6, <1>7, Zenon DEF StagedInv
<1>11. ASSUME NEW i \in Ids PROVE record_revs'[i] <= val[i]
  <2>1. record_revs[i] <= val[i] /\ val[i] \in Nat
    BY <1>0, Zenon DEF StagedInv
  <2> QED BY <1>1, <2>1
<1> QED BY <1>1, <1>4, <1>8, <1>9, <1>10, <1>11, Zenon DEF StagedInv, Has, Final

(* Reading an entry of the queue, in each of the four ways. *)
LEMMA AccumStaged ==
    ASSUME TypeInv, MinInv, StagedInv, Accumulate
    PROVE  StagedInv' /\ Progress
<1>0. /\ pkt \in Seq(Rec) /\ <<>> \in Seq(Rec) /\ next_seq \in Nat /\ record_seqs \in [Ids -> Nat]
      /\ val \in [Ids -> Nat] /\ record_revs \in [Ids -> Int] /\ last_q_idx \in Nat
  BY DEF TypeInv, SenderType, SourceType
<1>1. CASE AccumSkip
  <2>1. /\ UNCHANGED <<val, queue, wid, pkt, next_seq, record_revs, record_seqs, abandoned>>
        /\ spc = "scan" /\ last_q_idx' = last_q_idx + 1 /\ val[Id] = record_revs[Id] /\ spc' # "down"
    BY <1>1, Zenon DEF AccumSkip, Consumed, Accumulate, source
  <2>2. \A i \in Ids : Settled(i)' <=> Settled(i)
    <3>1. \A i \in Ids : (Unread(i)' => Unread(i)) /\ (i # Id /\ Unread(i) => Unread(i)')
      BY <2>1, UnreadStep, Zenon
    <3> QED BY <2>1, <3>1, Zenon DEF Settled
  <2>3. Progress
    BY <1>0, <2>1, <2>2 DEF Progress, Advance
  <2> QED BY <2>1, <2>2, <2>3, Zenon DEF StagedInv, Has, Final
<1>2. CASE AccumStage
  <2>1. /\ spc = "scan" /\ spc' # "down" /\ Stage(pkt, next_seq) /\ UNCHANGED source
        /\ next_seq' = next_seq
        /\ last_q_idx' = last_q_idx + 1
        /\ abandoned' = abandoned \/ abandoned' = abandoned \ {Id}
    BY <1>2, Zenon DEF AccumStage, Consumed, Accumulate
  <2>2. next_seq >= 1 /\ next_seq >= next_seq /\ \A i \in Ids : record_seqs[i] <= next_seq
    BY <1>0, <2>1 DEF StagedInv, MinInv
  <2>3. PICK before \in Seq(Rec), seq \in Nat : before = pkt /\ seq = next_seq
    BY <1>0, Zenon
  <2>4. Stage(before, seq) /\ next_seq' = seq /\ seq >= next_seq /\ seq >= 1
    BY <2>1, <2>2, <2>3, Zenon
  <2> QED BY <2>1, <2>2, <2>3, <2>4, StageStaged, Zenon
<1>3. CASE AccumSend /\ next_seq + 1 # SEQUENCE_MAX
  <2>1. /\ spc = "scan" /\ spc' # "down" /\ Stage(<<>>, next_seq + 1) /\ UNCHANGED <<source, last_q_idx>>
        /\ next_seq' = next_seq + 1
        /\ abandoned' = abandoned \/ abandoned' = abandoned \ {Id}
    BY <1>3, Zenon DEF AccumSend, Accumulate
  <2>2. \A i \in Ids : record_seqs[i] <= next_seq
    BY <2>1, Zenon DEF MinInv
  <2>3. next_seq + 1 \in Nat /\ next_seq + 1 >= next_seq /\ next_seq + 1 >= 1
    BY <1>0
  <2> QED BY <1>0, <2>1, <2>2, <2>3, StageStaged, Zenon
<1>4. CASE AccumSend /\ next_seq + 1 = SEQUENCE_MAX
  <2>1. /\ UNCHANGED <<val, queue, wid, record_revs, record_seqs, last_q_idx, abandoned>>
        /\ next_seq' = next_seq + 1 /\ spc' = "down"
    BY <1>4, Zenon DEF AccumSend, Accumulate, source
  <2>2. Progress
    BY <1>0, <2>1 DEF Progress, Advance, Settled, Unread
  <2> QED BY <2>1, <2>2, Zenon DEF StagedInv
<1>5. CASE AccumBlocked
  <2>1. UNCHANGED staged /\ spc # "down"
    BY <1>5, Zenon DEF AccumBlocked, Accumulate, staged, multi, source
  <2> QED BY <2>1, StagedFrame, FrameProgress, Zenon
<1> QED BY <1>1, <1>2, <1>3, <1>4, <1>5, Zenon DEF Accumulate

(* A flushed packet leaves nothing staged. *)
LEMMA MulticastStaged ==
    ASSUME TypeInv, MinInv, StagedInv, Multicasting
    PROVE  StagedInv' /\ Progress
<1>1. CASE McastBegin \/ SendHeartbeat
  <2>1. UNCHANGED staged /\ spc # "down"
    BY <1>1, Zenon DEF McastBegin, SendHeartbeat, Multicasting, staged, sender, multi, source, history
  <2> QED BY <2>1, StagedFrame, FrameProgress, Zenon
<1>2. CASE SendPending
  <2>0. next_seq \in Nat /\ record_seqs \in [Ids -> Nat] /\ val \in [Ids -> Nat]
    BY Zenon DEF TypeInv, SenderType, SourceType
  <2>1. /\ UNCHANGED <<val, queue, wid, record_revs, record_seqs, last_q_idx, abandoned>>
        /\ next_seq' = next_seq + 1 /\ spc # "down" /\ (spc' = "down" \/ pkt' = <<>>)
    BY <1>2, Zenon DEF SendPending, Multicasting, source, history
  <2>2. \A i \in Ids : Settled(i)' <=> Settled(i)
    BY <2>1, Zenon DEF Settled, Unread
  <2>3. Progress
    BY <2>0, <2>1, <2>2 DEF Progress, Advance
  <2>4. \A i \in Ids : record_revs[i] <= val[i]
    BY Zenon DEF StagedInv
  <2>5. CASE spc' = "down"
    BY <2>1, <2>3, <2>4, <2>5, Zenon DEF StagedInv
  <2>6. CASE pkt' = <<>>
    <3>1. \A i \in Ids : record_seqs[i] <= next_seq
      BY <2>1, Zenon DEF MinInv
    <3>2. next_seq' >= 1 /\ \A i \in Ids : record_seqs'[i] # next_seq'
      BY <2>0, <2>1, <3>1
    <3>3. Len(pkt') = 0 /\ \A i \in Ids : ~Has(pkt', i)
      BY <2>6 DEF Has
    <3> QED BY <2>1, <2>3, <2>4, <3>2, <3>3 DEF StagedInv
  <2> QED BY <2>1, <2>5, <2>6, Zenon
<1> QED BY <1>1, <1>2, Zenon DEF Multicasting

(* A new process has nothing staged. *)
LEMMA RestartStaged ==
    ASSUME TypeInv, MinInv, StagedInv, Restart
    PROVE  StagedInv' /\ Progress
<1>1. /\ UNCHANGED <<val, queue, wid>> /\ pkt' = <<>> /\ next_seq' = 1 /\ spc = "down"
      /\ record_revs' = [i \in Ids |-> -1] /\ record_seqs' = [i \in Ids |-> 0]
      /\ val \in [Ids -> Nat]
  BY Zenon DEF Restart, SenderStart, SenderFresh, source, TypeInv, SourceType
<1>2. ~Lasts
  <2>1. \A r \in Receivers : conn[r] # "joined" /\ conn'[r] # "dropped"
    BY <1>1, Zenon DEF MinInv, Served, Restart, SenderStart
  <2>2. \A r \in Receivers : conn'[r] = "joined" => conn[r] = "joined"
    BY Zenon DEF Restart, SenderStart
  <2> QED BY <2>1, <2>2, Zenon DEF Lasts, Session
<1>3. Progress
  BY <1>1, <1>2 DEF Progress
<1>4. Len(pkt') = 0 /\ \A i \in Ids : ~Has(pkt', i)
  BY <1>1 DEF Has
<1> QED BY <1>1, <1>3, <1>4 DEF StagedInv

(* The first client makes the sender skip what was queued: the records     *)
(* that lie staged with an older value are abandoned.                      *)
LEMMA AcceptStaged ==
    ASSUME TypeInv, MinInv, StagedInv, NEW r \in Receivers, Accept(r),
           \A q \in Receivers : conn[q] = "dropped" => spc = "down"
    PROVE  StagedInv' /\ Progress
<1>0. /\ UNCHANGED <<val, queue, wid, spc, pkt, next_seq, record_revs, record_seqs>>
      /\ spc # "down" /\ val \in [Ids -> Nat]
  BY Zenon DEF Accept, TcpOnAccept, source, TypeInv, SourceType
<1>1. CASE Clients # {}
  <2>1. UNCHANGED staged
    BY <1>0, <1>1, Zenon DEF Accept, TcpOnAccept, staged, source
  <2> QED BY <1>0, <2>1, StagedFrame, FrameProgress, Zenon
<1>2. CASE Clients = {}
  <2>1. Progress
    <3>1. ~Lasts
      BY <1>0, <1>2, Zenon DEF Lasts, Session, Clients
    <3> QED BY <1>0, <3>1 DEF Progress
  <2>2. abandoned' = {pkt[k].id : k \in 1..Len(pkt)} \cap {i \in Ids \ {wid} : record_revs[i] # val[i]}
    BY <1>2, Zenon DEF Accept
  <2>3. \A i \in Ids : Has(pkt, i) /\ Settled(i)' => val[i] = record_revs[i]
    <3> SUFFICES ASSUME NEW i \in Ids, Has(pkt, i), Settled(i)', val[i] # record_revs[i] PROVE FALSE
      BY Zenon
    <3>1. i # wid
      BY <1>0, Zenon DEF Settled, Unread
    <3>2. i \in abandoned'
      BY <2>2, <3>1, Zenon DEF Has
    <3> QED BY <3>2, Zenon DEF Settled
  <2> QED BY <1>0, <2>1, <2>3, Zenon DEF StagedInv, Has, Final
<1> QED BY <1>1, <1>2, Zenon

(* StagedInv is inductive, and every step is progress. *)
LEMMA StagedStep ==
    ASSUME TypeInv, MinInv, StagedInv, [Next]_vars,
           \A q \in Receivers : conn[q] = "dropped" => spc = "down"
    PROVE  StagedInv' /\ Progress
<1>1. ASSUME UNCHANGED staged, spc' = spc \/ spc' = "down" PROVE StagedInv' /\ Progress
  BY <1>1, StagedFrame, FrameProgress, Zenon
<1>2. CASE Quit
  BY <1>1, <1>2, Zenon DEF Quit, SenderQuit, staged, multi, source
<1>3. ASSUME NEW r \in Receivers, Serving(r) PROVE StagedInv' /\ Progress
  BY <1>1, <1>3, Zenon DEF Serving, ClientRead, ClientReadBlocked, TcpOnHup, Write, sender, multi, staged, history
<1>4. ASSUME NEW r \in Receivers, Open(r) \/ Close(r) \/ Receiving(r) PROVE StagedInv' /\ Progress
  BY <1>1, <1>4, Zenon DEF Open, Connect, Close, Leave, Receiving, Joining, Join, Hearing, McastRead,
     McastHeartbeat, TcpOnWriteR, TcpReadHeader, TcpReadBody, sender, multi, staged, history
<1>5. CASE UNCHANGED vars
  BY <1>1, <1>5, Zenon DEF vars, sender, multi, staged, history
<1> QED BY <1>2, <1>3, <1>4, <1>5, WriteStaged, AccumStaged, MulticastStaged, RestartStaged, AcceptStaged, Zenon
        DEF Next

-----------------------------------------------------------------------------
(* Subscribers and what they have been told. *)

(* The replies on their way to a receiver. *)
LEMMA InReplies ==
    ASSUME TypeInv, NEW r \in Receivers, NEW m \in Replies(r)
    PROVE  m.seq \in Nat /\ m.id \in Ids /\ m.val \in Nat
<1>1. m \in Message /\ m.seq >= 0
  BY DEF Replies, TypeInv, WireType, ClientType
<1> QED BY <1>1, InMessage, Zenon

(* The packets on their way to a receiver. *)
LEMMA InNet ==
    ASSUME TypeInv, NEW r \in Receivers, NEW p \in net[r]
    PROVE  /\ p \in Packet /\ p.seq \in Int /\ Len(p.recs) \in Nat
           /\ \A k \in 1..Len(p.recs) : p.recs[k].id \in Ids /\ p.recs[k].val \in Nat
<1>1. p \in Packet
  BY Zenon DEF TypeInv, WireType
<1> QED BY <1>1, InPacket, Zenon

(* The numbers a receiver has asked for. *)
LEMMA InAsks ==
    ASSUME TypeInv, NEW r \in Receivers, NEW g \in Asks(r)
    PROVE  g.low \in Nat /\ g.high \in Nat
<1>1. g \in Numbers
  BY DEF Asks, TypeInv, WireType, ClientType, ReceiverType
<1> QED BY <1>1, Zenon DEF Numbers

(* What a step does to the staged packet. *)
LEMMA PacketStep ==
    ASSUME TypeInv, [Next]_vars
    PROVE  \/ pkt' = pkt /\ (spc' # "down" => spc # "down")
           \/ pkt' = <<>>
           \/ /\ spc # "down" /\ Id \in Ids
              /\ \E before \in {pkt, <<>>} : pkt' = Append(before, [id |-> Id, val |-> val[Id]])
<1>1. CASE Accumulate
  <2>1. Id \in Ids /\ spc # "down"
    BY <1>1 DEF Accumulate, AccumSkip, AccumStage, AccumSend, AccumBlocked, TypeInv, ScanType,
       SourceType, SenderType, Id
  <2>2. \/ pkt' = pkt
        \/ \E before \in {pkt, <<>>} : pkt' = Append(before, [id |-> Id, val |-> val[Id]])
    BY <1>1, Zenon DEF Accumulate, AccumSkip, AccumStage, AccumSend, AccumBlocked, Stage, multi
  <2> QED BY <2>1, <2>2, Zenon
<1>2. CASE Multicasting
  BY <1>2, Zenon DEF Multicasting, McastBegin, SendPending, SendHeartbeat, sender, multi
<1>3. CASE Writing \/ UNCHANGED vars
  BY <1>3, Zenon DEF Writing, vars, sender, multi
<1>4. CASE Quit \/ Restart
  BY <1>4, Zenon DEF Quit, SenderQuit, Restart, SenderStart, SenderFresh, multi
<1>5. ASSUME NEW r \in Receivers, Accept(r) \/ Serving(r) \/ Open(r) \/ Close(r) \/ Receiving(r)
      PROVE  pkt' = pkt /\ spc' = spc
  BY <1>5, Zenon DEF Accept, TcpOnAccept, Serving, ClientRead, ClientReadBlocked, TcpOnHup, Write,
     Open, Close, Receiving, Joining, Hearing, sender, multi
<1> QED BY <1>1, <1>2, <1>3, <1>4, <1>5, Zenon DEF Next

(* Values only grow: what is behind v stays behind it. *)
LEMMA BehindStep ==
    ASSUME TypeInv, TypeInv', Progress, [Next]_vars, NEW i \in Ids, NEW v \in Nat, Behind(i, v)
    PROVE  v <= val'[i] /\ (spc' # "down" => Newer(pkt', i, v))
<1>0. pkt \in Seq(Rec) /\ pkt' \in Seq(Rec) /\ \A j \in Ids : val[j] \in Nat /\ val'[j] \in Nat
  BY Zenon DEF TypeInv, SenderType, SourceType
<1>1. v <= val'[i]
  BY <1>0 DEF Behind, Progress
<1>2. CASE pkt' = pkt /\ (spc' # "down" => spc # "down")
  BY <1>1, <1>2, Zenon DEF Behind, Newer
<1>3. CASE pkt' = <<>>
  BY <1>1, <1>3 DEF Behind, Newer
<1>4. CASE /\ spc # "down" /\ Id \in Ids
           /\ \E before \in {pkt, <<>>} : pkt' = Append(before, [id |-> Id, val |-> val[Id]])
  <2>1. PICK before \in {pkt, <<>>} : pkt' = Append(before, [id |-> Id, val |-> val[Id]])
    BY <1>4, Zenon
  <2>2. PICK x \in Rec : x = [id |-> Id, val |-> val[Id]]
    BY <1>0, <1>4, Zenon DEF Rec
  <2>3. x.id = Id /\ x.val = val[Id] /\ before \in Seq(Rec) /\ pkt' = Append(before, x)
    BY <1>0, <2>1, <2>2
  <2>4. Newer(pkt, i, v) /\ v <= val[i]
    BY <1>4, Zenon DEF Behind
  <2>5. \A k \in 1..Len(before) : before[k].id = i => v <= before[k].val
    BY <2>4 DEF Newer
  <2>6. \A k \in 1..Len(pkt') : pkt'[k] = x \/ (k \in 1..Len(before) /\ pkt'[k] = before[k])
    BY <2>3, Appended
  <2>7. Newer(pkt', i, v)
    BY <2>3, <2>4, <2>5, <2>6, Zenon DEF Newer
  <2> QED BY <1>1, <2>7, Zenon DEF Behind
<1> QED BY <1>2, <1>3, <1>4, PacketStep, Zenon

(* The functions over the receivers. *)
LEMMA Domains ==
    ASSUME TypeInv
    PROVE  /\ DOMAIN rval = Receivers /\ DOMAIN rseqs = Receivers /\ DOMAIN rnext = Receivers
           /\ DOMAIN rout = Receivers /\ DOMAIN overwritten = Receivers /\ DOMAIN req = Receivers
           /\ DOMAIN out = Receivers /\ DOMAIN union_range = Receivers
           /\ DOMAIN reply_range = Receivers /\ DOMAIN reply_id = Receivers
           /\ DOMAIN rep = Receivers /\ DOMAIN net = Receivers /\ DOMAIN conn = Receivers
BY Zenon DEF TypeInv, WireType, ClientType, ReceiverType

(* A step concerns receiver r as such, or only tells it something. *)
LEMMA ToldStep ==
    ASSUME TypeInv, [Next]_vars, NEW r \in Receivers
    PROVE  Told(r) \/ Accept(r) \/ Serving(r) \/ Open(r) \/ Close(r) \/ Receiving(r)
<1> USE DEF source, wires, sender, multi, client, receiver, history
<1>1. ASSUME UNCHANGED <<conn, req, rep, net, client, receiver, overwritten>>,
             spc' = "down" \/ spc # "down" \/ spc' = spc
      PROVE  Told(r)
  BY <1>1, Zenon DEF Told, Session
<1>2. ASSUME QuitWires, UNCHANGED <<client, receiver, overwritten>>, spc' = "down",
             \/ net' = net
             \/ Multicast(DataPacket) /\ next_seq' = next_seq + 1 /\ spc # "down"
      PROVE  Told(r)
  BY <1>2, Zenon DEF Told, Sent, Session, QuitWires, Multicast
<1>3. ASSUME UNCHANGED <<conn, req, rep, client, receiver, overwritten>>, spc # "down",
             \/ Multicast(DataPacket) /\ Sent
             \/ Multicast(Heartbeat)
      PROVE  Told(r)
  BY <1>3, Zenon DEF Told, Session, Multicast
<1>4. CASE Writing \/ UNCHANGED vars
  BY <1>1, <1>4, Zenon DEF Writing, WriteRecord, WriteQueue, vars
<1>5. CASE Accumulate
  <2>1. CASE AccumSkip \/ AccumStage \/ AccumBlocked
    BY <1>1, <1>5, <2>1, Zenon DEF Accumulate, AccumSkip, AccumStage, AccumBlocked
  <2>2. CASE AccumSend
    <3>1. CASE next_seq + 1 = SEQUENCE_MAX
      BY <1>2, <1>5, <2>2, <3>1, Zenon DEF Accumulate, AccumSend
    <3>2. CASE next_seq + 1 # SEQUENCE_MAX
      <4>1. pkt' = <<[id |-> Id, val |-> val[Id]]>> /\ next_seq' = next_seq + 1 /\ spc # "down"
        BY <2>2, <3>2 DEF AccumSend, Stage
      <4>2. Sent
        BY <4>1 DEF Sent
      <4> QED BY <1>3, <1>5, <2>2, <3>2, <4>2, Zenon DEF Accumulate, AccumSend
    <3> QED BY <3>1, <3>2, Zenon
  <2> QED BY <1>5, <2>1, <2>2, Zenon DEF Accumulate
<1>6. CASE Multicasting
  <2>1. CASE SendPending /\ next_seq + 1 # SEQUENCE_MAX
    <3>1. Sent
      BY <2>1 DEF SendPending, Sent
    <3> QED BY <1>3, <1>6, <2>1, <3>1, Zenon DEF Multicasting, SendPending
  <2>2. CASE SendPending /\ next_seq + 1 = SEQUENCE_MAX
    BY <1>2, <1>6, <2>2, Zenon DEF Multicasting, SendPending
  <2> QED BY <1>1, <1>2, <1>3, <1>6, <2>1, <2>2, Zenon DEF Multicasting, McastBegin, SendHeartbeat
<1>7. CASE Quit
  BY <1>2, <1>7, Zenon DEF Quit, SenderQuit
<1>8. CASE Restart
  BY <1>8, Zenon DEF Restart, SenderStart, Told, Session
<1>9. ASSUME NEW q \in Receivers, q # r,
             Accept(q) \/ Serving(q) \/ Open(q) \/ Close(q) \/ Receiving(q)
      PROVE  Told(r)
  <2>0. spc' = spc
    BY <1>9, Zenon DEF Accept, TcpOnAccept, Serving, ClientRead, ClientReadBlocked, TcpOnHup, Write,
       Open, Close, Receiving, Joining, Hearing
  <2> SUFFICES /\ rval'[r] = rval[r] /\ rseqs'[r] = rseqs[r] /\ rnext'[r] = rnext[r]
               /\ rout'[r] = rout[r] /\ overwritten'[r] = overwritten[r] /\ req'[r] = req[r]
               /\ out'[r] = out[r] /\ union_range'[r] = union_range[r]
               /\ reply_range'[r] = reply_range[r] /\ reply_id'[r] = reply_id[r]
               /\ rep'[r] = rep[r] /\ net'[r] = net[r] /\ conn'[r] = conn[r]
    BY <2>0, Zenon DEF Told, Session
  <2>1. CASE Accept(q)
    BY <1>9, <2>1, Domains, Zenon DEF Accept, TcpOnAccept
  <2>2. CASE Serving(q)
    <3>1. CASE TcpOnHup(q)
      BY <1>9, <2>2, <3>1, Domains, Zenon DEF Serving, TcpOnHup
    <3>2. CASE ClientRead(q) \/ ClientReadBlocked(q)
      <4>1. PICK re, from, found : Write(q, re, from, found)
        BY <3>2, Zenon DEF ClientRead, ClientReadBlocked
      <4>2. req'[r] = req[r] /\ union_range'[r] = union_range[r]
        BY <1>9, <3>2, Domains, Zenon DEF ClientRead, ClientReadBlocked
      <4>3. /\ out'[r] = out[r] /\ rep'[r] = rep[r]
            /\ reply_range'[r] = reply_range[r] /\ reply_id'[r] = reply_id[r]
        <5>1. CASE NoWrite(q, re, from, found)
          BY <1>9, <5>1, Domains, Zenon DEF NoWrite
        <5>2. CASE TcpOnWrite(q, re, from, found)
          <6>1. CASE NextReply(q, re, from, found)
            <7>1. rep'[r] = rep[r]
              BY <1>9, <5>2, Domains, Zenon DEF TcpOnWrite
            <7>2. PICK to :
                    \/ /\ out' = [out EXCEPT ![q] = <<Reply(to)>>]
                       /\ reply_id' = [reply_id EXCEPT ![q] = to + 1]
                       /\ reply_range' = [reply_range EXCEPT ![q] = re]
                    \/ /\ out' = [out EXCEPT ![q] = <<>>]
                       /\ reply_id' = [reply_id EXCEPT ![q] = to]
                       /\ reply_range' = [reply_range EXCEPT ![q] = Invalid]
              BY <6>1, Zenon DEF NextReply
            <7> QED BY <1>9, <7>1, <7>2, Domains, Zenon
          <6>2. CASE ~IS_VALID_RANGE(re)
            BY <1>9, <5>2, <6>2, Domains, Zenon DEF TcpOnWrite
          <6> QED BY <5>2, <6>1, <6>2, Zenon DEF TcpOnWrite
        <5> QED BY <4>1, <5>1, <5>2, Zenon DEF Write
      <4> QED BY <2>2, <4>1, <4>2, <4>3, Zenon DEF Serving, Write
    <3> QED BY <2>2, <3>1, <3>2, Zenon DEF Serving
  <2>3. CASE Open(q) \/ Close(q)
    BY <1>9, <2>3, Domains, Zenon DEF Open, Connect, Close, Leave, Disconnect
  <2>4. CASE Joining(q)
    BY <1>9, <2>4, Domains, Zenon DEF Joining, Join
  <2>5. CASE \E p \in net[q] : Hearing(q, p)
    BY <1>9, <2>5, Domains DEF Hearing, McastRead, McastHeartbeat, Apply, RequestGap
  <2>6. CASE (TcpOnWriteR(q) \/ TcpReadHeader(q)) /\ UNCHANGED <<sender, history>>
    BY <1>9, <2>6, Domains, Zenon DEF TcpOnWriteR, TcpReadHeader, Disconnect
  <2>7. CASE TcpReadBody(q) /\ UNCHANGED <<sender, history>>
    BY <1>9, <2>7, Domains, Zenon DEF TcpReadBody
  <2> QED BY <1>9, <2>1, <2>2, <2>3, <2>4, <2>5, <2>6, <2>7, Zenon DEF Receiving
<1> QED BY <1>4, <1>5, <1>6, <1>7, <1>8, <1>9, Zenon DEF Next

(* A receiver that is only told something has the same replies and         *)
(* requests.                                                               *)
LEMMA RepliesToldKept ==
    ASSUME TypeInv, NEW r \in Receivers, Told(r)
    PROVE  /\ Replies(r)' = Replies(r) /\ Asks(r)' = Asks(r)
           /\ Ordered(r) => Ordered(r)'
<1>1. rep[r] \in Seq(Message)
  BY Zenon DEF TypeInv, WireType
<1>2. Asks(r)' = Asks(r)
  BY Zenon DEF Asks, Told
<1>3. CASE rep'[r] = rep[r]
  BY <1>2, <1>3, Zenon DEF Replies, Ordered, Told
<1>4. CASE rep'[r] = Append(rep[r], [seq |-> WILL_QUIT_SEQ])
  <2>1. /\ Len(rep'[r]) = Len(rep[r]) + 1 /\ Len(rep[r]) \in Nat
        /\ \A k \in 1..Len(rep[r]) : rep'[r][k] = rep[r][k]
        /\ rep'[r][Len(rep[r]) + 1].seq = -2
    BY <1>1, <1>4 DEF WILL_QUIT_SEQ
  <2>2. \A k \in 1..Len(rep'[r]) : rep'[r][k].seq >= 0 => k \in 1..Len(rep[r]) /\ rep'[r][k] = rep[r][k]
    BY <2>1
  <2>3. out'[r] = out[r]
    BY Zenon DEF Told
  <2>4. Replies(r)' = Replies(r)
    <3>1. \A m : m \in Replies(r)' => m \in Replies(r)
      BY <2>2, <2>3, Zenon DEF Replies
    <3>2. \A m : m \in Replies(r) => m \in Replies(r)'
      BY <2>1, <2>3 DEF Replies
    <3> QED BY <3>1, <3>2, Zenon
  <2>5. Ordered(r) => Ordered(r)'
    BY <2>2, <2>3, Zenon DEF Ordered
  <2> QED BY <1>2, <2>4, <2>5, Zenon
<1> QED BY <1>3, <1>4, Zenon DEF Told

(* A packet, a farewell or a step of another receiver. *)
LEMMA ToldKept ==
    ASSUME TypeInv, TypeInv', StagedInv, Progress, [Next]_vars,
           NEW r \in Receivers, Told(r), SessionInv(r)
    PROVE  SessionInv(r)'
<1>0. /\ pkt \in Seq(Rec) /\ next_seq \in Nat /\ next_seq' \in Nat
      /\ \A i \in Ids : record_seqs[i] \in Nat /\ record_seqs'[i] \in Nat /\ rseqs[r][i] \in Int
      /\ rnext[r] \in Nat
      /\ \A i \in Ids : val[i] \in Nat /\ val'[i] \in Nat /\ rval[r][i] \in Nat
  BY Zenon DEF TypeInv, SenderType, SourceType, ReceiverType
<1>1. /\ Replies(r)' = Replies(r) /\ Asks(r)' = Asks(r) /\ (Ordered(r) => Ordered(r)')
      /\ rval'[r] = rval[r] /\ rseqs'[r] = rseqs[r] /\ rnext'[r] = rnext[r]
  BY RepliesToldKept, Zenon DEF Told
<1>2. \A p \in net'[r] : \/ p \in net[r]
                         \/ p = DataPacket /\ Sent
                         \/ p.recs = <<>> /\ p.seq = -next_seq /\ spc # "down"
  <2>1. Heartbeat.recs = <<>> /\ Heartbeat.seq = -next_seq
    BY Zenon DEF Heartbeat
  <2> QED BY <2>1, Zenon DEF Told
<1>3. DataPacket.seq = next_seq /\ DataPacket.recs = pkt
  BY Zenon DEF DataPacket
<1>4. KnownInv(r)'
  <2>1. \A i \in Ids : rval'[r][i] <= val'[i] /\ (spc' # "down" => Newer(pkt', i, rval'[r][i]))
    BY <1>0, <1>1, BehindStep, Zenon DEF SessionInv, KnownInv
  <2>2. \A m \in Replies(r)' : m.val <= val'[m.id] /\ (spc' # "down" => Newer(pkt', m.id, m.val))
    BY <1>1, BehindStep, InReplies, Zenon DEF SessionInv, KnownInv
  <2>3. ASSUME NEW p \in net'[r], NEW k \in 1..Len(p.recs)
        PROVE  /\ p.recs[k].val <= val'[p.recs[k].id]
               /\ spc' # "down" => Newer(pkt', p.recs[k].id, p.recs[k].val)
    <3>1. CASE p \in net[r]
      BY <2>3, <3>1, BehindStep, InNet, Zenon DEF SessionInv, KnownInv
    <3>2. CASE p = DataPacket /\ Sent
      <4>1. k \in 1..Len(pkt) /\ p.recs[k] = pkt[k]
        BY <1>3, <2>3, <3>2, Zenon
      <4>2. pkt[k].id \in Ids /\ pkt[k].val \in Nat
        BY <1>0, <4>1, InRecs, Zenon
      <4>3. pkt[k].val <= val[pkt[k].id]
        BY <3>2, <4>1, Zenon DEF StagedInv, Sent
      <4>4. pkt[k].val <= val'[pkt[k].id]
        <5>1. pkt[k].val \in Int /\ val[pkt[k].id] \in Int /\ val'[pkt[k].id] \in Int
          BY <1>0, <4>2, Orders, Zenon
        <5>2. val[pkt[k].id] <= val'[pkt[k].id]
          BY <4>2, Zenon DEF Progress
        <5> QED BY <4>3, <5>1, <5>2, Chain, Zenon
      <4>5. spc' # "down" => Newer(pkt', pkt[k].id, pkt[k].val)
        BY <3>2, <4>3, Zenon DEF Newer, Sent
      <4> QED BY <4>1, <4>4, <4>5, Zenon
    <3>3. CASE p.recs = <<>>
      BY <2>3, <3>3
    <3> QED BY <1>2, <3>1, <3>2, <3>3, Zenon
  <2> QED BY <2>1, <2>2, <2>3, Zenon DEF KnownInv, Behind
<1>5. FreshInv(r)'
  BY <1>1, Zenon DEF SessionInv, FreshInv, Told
<1>6. ASSUME Session(r)' PROVE NumberInv(r)' /\ OrderInv(r)'
  <2>1. NumberInv(r) /\ OrderInv(r)
    BY <1>6, Zenon DEF SessionInv, Told
  <2>2. /\ next_seq <= next_seq'
        /\ \A i \in Ids : /\ record_seqs[i] <= record_seqs'[i]
                          /\ record_seqs'[i] = record_seqs[i] \/ record_seqs'[i] = next_seq'
    BY <1>6, Zenon DEF Progress, Lasts, Advance, Told
  <2>3. ASSUME NEW p \in net'[r]
        PROVE  Numbered(p)'
    <3>1. CASE p \in net[r]
      <4>1. Numbered(p) /\ p.seq \in Int
        BY <2>1, <3>1, InNet, Zenon DEF NumberInv
      <4> QED BY <1>0, <2>2, <4>1 DEF Numbered
    <3>2. CASE p = DataPacket /\ Sent
      <4>1. \A i \in Ids : record_seqs[i] = next_seq <=> Has(pkt, i)
        BY <3>2, Zenon DEF StagedInv, Sent
      <4>2. next_seq' = next_seq + 1
        BY <3>2, Zenon DEF Sent
      <4> QED BY <1>0, <1>3, <2>2, <3>2, <4>1, <4>2 DEF Numbered
    <3>3. CASE p.recs = <<>> /\ p.seq = -next_seq /\ spc # "down"
      <4>1. next_seq >= 1 /\ \A i \in Ids : ~Has(p.recs, i)
        BY <3>3 DEF StagedInv, Has
      <4> QED BY <1>0, <2>2, <3>3, <4>1 DEF Numbered
    <3> QED BY <1>2, <3>1, <3>2, <3>3, Zenon
  <2>4. NumberInv(r)'
    <3>1. \A m \in Replies(r)' : m.seq <= record_seqs'[m.id] /\ m.seq < rnext'[r]
      <4> SUFFICES ASSUME NEW m \in Replies(r)'
                   PROVE  m.seq <= record_seqs'[m.id] /\ m.seq < rnext'[r]
        BY Zenon
      <4>1. m \in Replies(r)
        BY <1>1, Zenon
      <4>2. m.seq \in Nat /\ m.id \in Ids
        BY <4>1, InReplies, Zenon
      <4>3. m.seq \in Int /\ record_seqs[m.id] \in Int /\ record_seqs'[m.id] \in Int
        BY <1>0, <4>2, Orders, Zenon
      <4>4. m.seq <= record_seqs[m.id] /\ m.seq < rnext[r]
        BY <2>1, <4>1, Zenon DEF NumberInv
      <4>5. record_seqs[m.id] <= record_seqs'[m.id]
        BY <2>2, <4>2, Zenon
      <4>6. m.seq <= record_seqs'[m.id]
        BY <4>3, <4>4, <4>5, Chain, Zenon
      <4> QED BY <1>1, <4>4, <4>6, Zenon
    <3>2. rnext'[r] <= next_seq' /\ \A g \in Asks(r)' : g.high <= rnext'[r]
      <4>1. rnext[r] \in Int /\ next_seq \in Int /\ next_seq' \in Int
        BY <1>0, Orders, Zenon
      <4> QED BY <1>1, <2>1, <2>2, <4>1, Chain, Zenon DEF NumberInv
    <3>3. \A i \in Ids : rseqs'[r][i] <= record_seqs'[i] /\ rseqs'[r][i] < rnext'[r]
      <4>1. \A i \in Ids : record_seqs[i] \in Int /\ record_seqs'[i] \in Int
        BY <1>0, Orders, Zenon
      <4>2. \A i \in Ids : rseqs[r][i] <= record_seqs[i] /\ rseqs[r][i] < rnext[r]
        BY <2>1, Zenon DEF NumberInv
      <4>3. \A i \in Ids : rseqs[r][i] <= record_seqs'[i]
        BY <1>0, <2>2, <4>1, <4>2, Chain, Zenon
      <4> QED BY <1>1, <4>2, <4>3, Zenon
    <3> QED BY <2>3, <3>1, <3>2, <3>3, Zenon DEF NumberInv
  <2>5. spc # "down" => /\ \A i \in Ids : Newer(pkt, i, rval[r][i])
                        /\ \A m \in Replies(r) : Newer(pkt, m.id, m.val)
                        /\ \A p \in net[r] : \A k \in 1..Len(p.recs) : Newer(pkt, p.recs[k].id, p.recs[k].val)
    BY Zenon DEF SessionInv, KnownInv, Behind
  <2>6. ASSUME NEW p \in net'[r], NEW q \in net'[r], q.seq < p.seq, NEW k \in 1..Len(q.recs)
        PROVE  Newer(p.recs, q.recs[k].id, q.recs[k].val)
    <3>1. CASE p \in net[r] /\ q \in net[r]
      BY <2>1, <2>6, <3>1, Zenon DEF OrderInv
    <3>2. CASE p.recs = <<>> \/ q.recs = <<>>
      BY <2>6, <3>2 DEF Newer
    <3>3. CASE p = DataPacket /\ Sent /\ q \in net[r]
      BY <1>3, <2>5, <2>6, <3>3, Zenon DEF Sent
    <3>4. CASE p \in net[r] /\ q = DataPacket
      <4>1. p.seq < next_seq /\ p.seq \in Int
        BY <2>1, <3>4, InNet, Zenon DEF NumberInv, Numbered
      <4> QED BY <1>0, <1>3, <2>6, <3>4, <4>1
    <3>5. CASE p = DataPacket /\ q = DataPacket
      BY <1>0, <1>3, <2>6, <3>5
    <3> QED BY <1>2, <3>1, <3>2, <3>3, <3>4, <3>5, Zenon
  <2>7. ASSUME NEW p \in net'[r], p.seq >= rnext'[r]
        PROVE  /\ \A i \in Ids : Newer(p.recs, i, rval'[r][i])
               /\ \A m \in Replies(r)' : Newer(p.recs, m.id, m.val)
    <3>1. CASE p \in net[r]
      BY <1>1, <2>1, <2>7, <3>1, Zenon DEF OrderInv
    <3>2. CASE p.recs = <<>>
      BY <3>2 DEF Newer
    <3>3. CASE p = DataPacket /\ Sent
      BY <1>1, <1>3, <2>5, <3>3, Zenon DEF Sent
    <3> QED BY <1>2, <3>1, <3>2, <3>3, Zenon
  <2>8. \A m \in Replies(r)' : m.seq > rseqs'[r][m.id] => rval'[r][m.id] <= m.val
    BY <1>1, <2>1, Zenon DEF OrderInv
  <2>9. Ordered(r)'
    BY <1>1, <2>1, Zenon DEF OrderInv
  <2> QED BY <2>4, <2>6, <2>7, <2>8, <2>9, Zenon DEF OrderInv
<1> QED BY <1>4, <1>5, <1>6, Zenon DEF SessionInv
=============================================================================
