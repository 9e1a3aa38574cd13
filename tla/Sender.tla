------------------------------- MODULE Sender -------------------------------
(***************************************************************************)
(* The sender of a publisher (sender.c).  It multicasts changed records in *)
(* numbered packets, answers requests for missed ranges of numbers from    *)
(* the current contents of the storage, and sends heartbeats both ways.    *)
(* The process is single-threaded: the handlers that its poller calls are  *)
(* steps, except mcast_on_write, whose loop over the change queue takes a  *)
(* step per entry because the writer runs meanwhile.  What depends on the  *)
(* clock may happen at any time.                                           *)
(***************************************************************************)
EXTENDS Wire

CONSTANTS
    MTU,            \* records that fit in a packet
    SEQUENCE_MAX,   \* largest sequence number, LONG_MAX in sequence.h
    QCap            \* capacity of the change queue

ASSUME SenderAssumption ==
    MTU \in Nat /\ MTU > 0 /\ SEQUENCE_MAX \in Nat /\ SEQUENCE_MAX > 1 /\ QCap \in Nat

VARIABLES
    spc,            \* "poll", "scan" (in mcast_on_write) or "down"
    pkt,            \* the records staged in pkt_buf, in order
    next_seq, min_seq, record_revs, record_seqs,
    last_q_idx, new_q_idx,
    union_range, reply_range, reply_id, min_seq_found,
    out             \* the message in out_buf, as a sequence of at most one

multi  == <<pkt, next_seq, record_revs, record_seqs, last_q_idx, new_q_idx>>
client == <<union_range, reply_range, reply_id, min_seq_found, out>>
sender == <<spc, multi, min_seq, client>>

Invalid == Range(SEQUENCE_MAX, 0)

(* The state that sender_create leaves, before the first client. *)
SenderFresh ==
    [pkt |-> <<>>, next_seq |-> 1, min_seq |-> 0,
     revs |-> [i \in Ids |-> -1], seqs |-> [i \in Ids |-> 0]]

SenderInit ==
    /\ spc = "poll" /\ pkt = SenderFresh.pkt
    /\ next_seq = SenderFresh.next_seq /\ min_seq = SenderFresh.min_seq
    /\ record_revs = SenderFresh.revs /\ record_seqs = SenderFresh.seqs
    /\ last_q_idx = 0 /\ new_q_idx = 0
    /\ union_range = [r \in Receivers |-> Invalid]
    /\ reply_range = [r \in Receivers |-> Invalid]
    /\ reply_id = [r \in Receivers |-> 1]
    /\ min_seq_found = [r \in Receivers |-> SEQUENCE_MAX]
    /\ out = [r \in Receivers |-> <<>>]

-----------------------------------------------------------------------------
(* Leaving sender_run: every client is told (the message replaces whatever *)
(* its out_buf held), then all connections are closed.  A receiver that is *)
(* not in the group yet ends without having received anything.             *)
QuitWires ==
    /\ conn' = [r \in Receivers |->
                  IF conn[r] = "joined" THEN "dropped"
                  ELSE IF conn[r] \in {"accepted", "left"} THEN "closed" ELSE conn[r]]
    /\ rep' = [r \in Receivers |->
                  IF conn[r] = "joined"
                  THEN Append(rep[r], [seq |-> WILL_QUIT_SEQ]) ELSE rep[r]]
    /\ UNCHANGED req

(* Stopped by a signal, or ended by an orphaned or recreated storage, a    *)
(* failed accept or a multicast heartbeat that would block.                *)
SenderQuit ==
    /\ spc = "poll"
    /\ spc' = "down"
    /\ QuitWires
    /\ UNCHANGED <<multi, min_seq, client, source, net>>

(* A new process: sender_create. *)
SenderStart ==
    /\ spc = "down"
    /\ spc' = "poll" /\ pkt' = SenderFresh.pkt
    /\ next_seq' = SenderFresh.next_seq /\ min_seq' = SenderFresh.min_seq
    /\ record_revs' = SenderFresh.revs /\ record_seqs' = SenderFresh.seqs
    /\ last_q_idx' = 0 /\ new_q_idx' = 0
    /\ conn' = [r \in Receivers |-> IF conn[r] = "dropped" THEN "outlived" ELSE conn[r]]
    /\ UNCHANGED <<client, source, req, rep, net>>

-----------------------------------------------------------------------------
(* mcast_send_pkt: a packet reaches those in the group. *)
Multicast(p) ==
    net' = [r \in Receivers |-> IF r \in Listening THEN net[r] \cup {p} ELSE net[r]]

(* mutant: the heartbeat repeats the last number *)
Heartbeat_LastSent == [seq |-> -(IF next_seq = 1 THEN 1 ELSE next_seq - 1), recs |-> <<>>]
DataPacket == [seq |-> next_seq, recs |-> pkt]
Heartbeat  == [seq |-> -next_seq, recs |-> <<>>]   \* negative: a heartbeat

(* mcast_on_write finds entries; more than the capacity is an overrun.     *)
McastBegin ==
    /\ spc = "poll" /\ Clients # {} /\ Len(queue) > last_q_idx
    /\ IF Len(queue) - last_q_idx > QCap
       THEN /\ spc' = "down" /\ QuitWires
            /\ UNCHANGED <<new_q_idx, net>>
       ELSE /\ spc' = "scan" /\ new_q_idx' = Len(queue)
            /\ UNCHANGED wires
    /\ UNCHANGED <<pkt, next_seq, record_revs, record_seqs, last_q_idx,
                   min_seq, client, source>>

Id == queue[last_q_idx + 1]

(* The record of the current entry goes to the end of a packet that holds  *)
(* "before" and has number "seq".                                          *)
Stage(before, seq) ==
    /\ pkt' = Append(before, [id |-> Id, val |-> val[Id]])
    /\ record_revs' = [record_revs EXCEPT ![Id] = val[Id]]
    /\ record_seqs' = [record_seqs EXCEPT ![Id] = seq]

Consumed ==
    /\ last_q_idx' = last_q_idx + 1
    /\ spc' = IF last_q_idx + 1 = new_q_idx THEN "poll" ELSE "scan"

(* mcast_accum_record, the revision already sent *)
AccumSkip ==
    /\ spc = "scan" /\ val[Id] = record_revs[Id]
    /\ Consumed
    /\ UNCHANGED <<pkt, next_seq, record_revs, record_seqs, new_q_idx,
                   min_seq, client, source, wires>>

AccumStage ==
    /\ spc = "scan" /\ val[Id] # record_revs[Id] /\ Len(pkt) < MTU
    /\ Stage(pkt, next_seq)
    /\ Consumed
    /\ UNCHANGED <<next_seq, new_q_idx, min_seq, client, source, wires>>

(* No room: the packet is sent and the record begins the next one; the     *)
(* scan ends without consuming the entry.                                  *)
AccumSend ==
    /\ spc = "scan" /\ val[Id] # record_revs[Id] /\ Len(pkt) >= MTU
    /\ Multicast(DataPacket)
    /\ next_seq' = next_seq + 1
    /\ IF next_seq + 1 = SEQUENCE_MAX
       THEN /\ spc' = "down" /\ QuitWires
            /\ UNCHANGED <<pkt, record_revs, record_seqs>>
       ELSE /\ spc' = "poll"
            /\ Stage(<<>>, next_seq + 1)
            /\ UNCHANGED <<conn, req, rep>>
    /\ UNCHANGED <<last_q_idx, new_q_idx, min_seq, client, source>>

(* No room, and the socket would block. *)
AccumBlocked ==
    /\ spc = "scan" /\ val[Id] # record_revs[Id] /\ Len(pkt) >= MTU
    /\ spc' = "poll"
    /\ UNCHANGED <<multi, min_seq, client, source, wires>>

(* mcast_on_empty_queue: the staged packet when it is old enough, else a   *)
(* heartbeat with the number of the next packet.                           *)
SendPending ==
    /\ spc = "poll" /\ Clients # {} /\ Len(queue) = last_q_idx /\ pkt # <<>>
    /\ Multicast(DataPacket)
    /\ next_seq' = next_seq + 1
    /\ IF next_seq + 1 = SEQUENCE_MAX
       THEN spc' = "down" /\ QuitWires /\ UNCHANGED pkt
       ELSE pkt' = <<>> /\ UNCHANGED <<spc, conn, req, rep>>
    /\ UNCHANGED <<record_revs, record_seqs, last_q_idx, new_q_idx,
                   min_seq, client, source>>

SendHeartbeat ==
    /\ spc = "poll" /\ Clients # {} /\ Len(queue) = last_q_idx /\ pkt = <<>>
    /\ Multicast(Heartbeat)
    /\ UNCHANGED <<sender, source, conn, req, rep>>

-----------------------------------------------------------------------------
(* Connections.  The first client puts the multicast socket back into the  *)
(* poller and skips what was queued while there was none.                  *)

TcpOnAccept(r) ==
    /\ spc = "poll" /\ conn[r] = "connecting"
    /\ conn' = [conn EXCEPT ![r] = "accepted"]
    /\ union_range' = [union_range EXCEPT ![r] = Invalid]
    /\ reply_range' = [reply_range EXCEPT ![r] = Range(0, 0)]
    /\ reply_id' = [reply_id EXCEPT ![r] = 1]
    /\ min_seq_found' = [min_seq_found EXCEPT ![r] = 0]
    /\ out' = [out EXCEPT ![r] = <<>>]
    /\ last_q_idx' = IF Clients = {} THEN Len(queue) ELSE last_q_idx
    /\ UNCHANGED <<spc, pkt, next_seq, record_revs, record_seqs, new_q_idx,
                   min_seq, source, req, rep, net>>

(* The receiver has gone; the last client takes the multicast socket out   *)
(* of the poller (Clients is then empty).                                  *)
TcpOnHup(r) ==
    /\ spc = "poll" /\ conn[r] = "left"
    /\ conn' = [conn EXCEPT ![r] = "closed"]
    /\ UNCHANGED <<sender, source, req, rep, net>>

-----------------------------------------------------------------------------
(* event_func for a client, once per poll: tcp_on_read if a request is     *)
(* there and tcp_on_read_blocked if not, then tcp_on_write if the socket   *)
(* takes output.                                                           *)

(* tcp_on_write looks from record "from" on for one in the range "re" that *)
(* is in use: "to" is the first, or N + 1, and "least" the least number    *)
(* met so far.                                                             *)
Wanted(re, i) == IS_WITHIN_RANGE(re, record_seqs[i]) /\ val[i] # 0

FirstWanted(re, from, to) ==
    /\ \A i \in from..(to - 1) : ~Wanted(re, i)
    /\ to <= N => Wanted(re, to)

(* mutant: only the number of the record that is sent counts *)
LeastSeq_SentOnly(least, found, from, to) ==
    least = IF to <= N /\ record_seqs[to] < found THEN record_seqs[to] ELSE found

LeastSeq(least, found, from, to) ==
    LET seqs == {found} \cup {record_seqs[i] : i \in (from..to) \cap Ids}
    IN  least \in seqs /\ \A s \in seqs : least <= s

Reply(i) == [seq |-> record_seqs[i], id |-> i, val |-> val[i]]

NextReply(r, re, from, found) ==
    \E to \in from..(N + 1), least \in 0..SEQUENCE_MAX :
        /\ FirstWanted(re, from, to) /\ LeastSeq(least, found, from, to)
        /\ min_seq_found' = [min_seq_found EXCEPT ![r] = least]
        /\ IF to <= N
           THEN /\ out' = [out EXCEPT ![r] = <<Reply(to)>>]
                /\ reply_id' = [reply_id EXCEPT ![r] = to + 1]
                /\ reply_range' = [reply_range EXCEPT ![r] = re]
                /\ UNCHANGED min_seq
           ELSE /\ out' = [out EXCEPT ![r] = <<>>]
                /\ reply_id' = [reply_id EXCEPT ![r] = to]
                /\ reply_range' = [reply_range EXCEPT ![r] = Invalid]
                /\ min_seq' = least

(* tcp_on_write: the message in out_buf is sent if there is room; then the *)
(* next reply, or when nothing is asked a heartbeat if it is due.          *)
TcpOnWrite(r, re, from, found) ==
    /\ out[r] = <<>> \/ Len(rep[r]) < TcpCap
    /\ rep' = [rep EXCEPT ![r] = @ \o out[r]]
    /\ IF IS_VALID_RANGE(re) THEN NextReply(r, re, from, found)
       ELSE /\ \E m \in {<<>>, <<[seq |-> HEARTBEAT_SEQ]>>} : out' = [out EXCEPT ![r] = m]
            /\ UNCHANGED <<reply_range, reply_id, min_seq_found, min_seq>>

(* The socket takes no output, or not what is left of out_buf. *)
NoWrite(r, re, from, found) ==
    /\ reply_range' = [reply_range EXCEPT ![r] = re]
    /\ reply_id' = [reply_id EXCEPT ![r] = from]
    /\ min_seq_found' = [min_seq_found EXCEPT ![r] = found]
    /\ UNCHANGED <<out, rep, min_seq>>

Write(r, re, from, found) ==
    /\ TcpOnWrite(r, re, from, found) \/ NoWrite(r, re, from, found)
    /\ UNCHANGED <<spc, multi, source, conn, net>>

(* tcp_on_read: a request widens the range to be answered next.            *)
Unite(g, h) == Range(IF h.low < g.low THEN h.low ELSE g.low,
                     IF h.high > g.high THEN h.high ELSE g.high)

ClientRead(r) ==
    /\ spc = "poll" /\ conn[r] \in {"accepted", "joined"} /\ req[r] # <<>>
    /\ req' = [req EXCEPT ![r] = Tail(@)]
    /\ union_range' = [union_range EXCEPT ![r] = Unite(@, Head(req[r]))]
    /\ Write(r, reply_range[r], reply_id[r], min_seq_found[r])

(* tcp_on_read_blocked: a range that every record has outlived is dropped; *)
(* else the united range is the next to be answered, when none is being.   *)
Outlived(r) == union_range[r].high <= min_seq

Answer(r) == ~Outlived(r) /\ ~IS_VALID_RANGE(reply_range[r])

ClientReadBlocked(r) ==
    /\ spc = "poll" /\ conn[r] \in {"accepted", "joined"} /\ req[r] = <<>>
    /\ union_range' = [union_range EXCEPT ![r] =
                          IF Outlived(r) \/ Answer(r) THEN Invalid ELSE @]
    /\ IF Answer(r)
       THEN Write(r, union_range[r], 1, SEQUENCE_MAX)
       ELSE Write(r, reply_range[r], reply_id[r], min_seq_found[r])
    /\ UNCHANGED req
=============================================================================
