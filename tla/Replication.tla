---------------------------- MODULE Replication ----------------------------
(***************************************************************************)
(* A publisher and its subscribers: Sender and Receiver over Wire.  The    *)
(* promise of the system is that each subscriber's storage follows the     *)
(* publisher's: it only ever moves forward, nothing that changed is        *)
(* forgotten, and when the writer pauses the two agree.                    *)
(***************************************************************************)
EXTENDS Sender, Receiver

CONSTANTS
    MaxSessions,   \* bound on the connections a subscriber makes
    MaxQuits       \* bound on the times the sender is stopped from outside

ASSUME BoundsAssumption == MaxSessions \in Nat /\ MaxQuits \in Nat

VARIABLES
    sessions, quits,   \* connections made, times stopped
    abandoned,         \* history: records that changed while an old value of
                       \* theirs was staged and no client was connected
    overwritten        \* history: the numbers of requests that request_gap
                       \* replaced in out_buf before they were sent

history == <<sessions, quits, abandoned, overwritten>>
vars    == <<source, wires, sender, receiver, history>>

Init ==
    /\ WireInit /\ SenderInit /\ ReceiverInit
    /\ sessions = [r \in Receivers |-> 0] /\ quits = 0 /\ abandoned = {}
    /\ overwritten = [r \in Receivers |-> {}]

-----------------------------------------------------------------------------
Writing ==
    /\ (\E i \in Ids : WriteRecord(i)) \/ WriteQueue
    /\ UNCHANGED <<sender, receiver, history>>

(* Staging a record again ends its neglect. *)
Accumulate ==
    /\ AccumSkip \/ AccumStage \/ AccumSend \/ AccumBlocked
    /\ abandoned' = IF pkt' = pkt THEN abandoned ELSE abandoned \ {Id}
    /\ UNCHANGED <<receiver, sessions, quits, overwritten>>

Multicasting ==
    /\ McastBegin \/ SendPending \/ SendHeartbeat
    /\ UNCHANGED <<receiver, history>>

Accept(r) ==
    /\ TcpOnAccept(r)
    /\ abandoned' = IF Clients # {} THEN abandoned
                    ELSE {pkt[k].id : k \in 1..Len(pkt)} \cap
                         {i \in Ids \ {wid} : record_revs[i] # val[i]}
    /\ UNCHANGED <<receiver, sessions, quits, overwritten>>

Serving(r) ==
    /\ ClientRead(r) \/ ClientReadBlocked(r) \/ TcpOnHup(r)
    /\ UNCHANGED <<receiver, history>>

Quit ==
    /\ quits < MaxQuits
    /\ SenderQuit
    /\ quits' = quits + 1
    /\ UNCHANGED <<receiver, sessions, abandoned, overwritten>>

Restart ==
    /\ SenderStart
    /\ abandoned' = {}
    /\ UNCHANGED <<receiver, sessions, quits, overwritten>>

Open(r) ==
    /\ sessions[r] < MaxSessions
    /\ Connect(r)
    /\ sessions' = [sessions EXCEPT ![r] = @ + 1]
    /\ UNCHANGED <<sender, quits, abandoned, overwritten>>

(* A subscriber may stop at any time while it can still come back; it must *)
(* once the connection has ended.                                          *)
Close(r) ==
    /\ sessions[r] < MaxSessions \/ conn[r] \in {"dropped", "outlived"}
    /\ Leave(r)
    /\ UNCHANGED <<sender, history>>

Joining(r) ==
    /\ Join(r)
    /\ overwritten' = [overwritten EXCEPT ![r] = {}]
    /\ UNCHANGED <<sender, sessions, quits, abandoned>>

Replaced(r) ==
    IF rout[r] # <<>> /\ rout'[r] # rout[r]
    THEN rout[r][1].low..(rout[r][1].high - 1) ELSE {}

Hearing(r, p) ==
    /\ McastRead(r, p) \/ McastHeartbeat(r, p)
    /\ overwritten' = [overwritten EXCEPT ![r] = @ \cup Replaced(r)]
    /\ UNCHANGED <<sender, sessions, quits, abandoned>>

Receiving(r) ==
    \/ Joining(r)
    \/ \E p \in net[r] : Hearing(r, p)
    \/ /\ TcpOnWriteR(r) \/ TcpReadHeader(r) \/ TcpReadBody(r)
       /\ UNCHANGED <<sender, history>>

Next ==
    \/ Writing \/ Accumulate \/ Multicasting \/ Quit \/ Restart
    \/ \E r \in Receivers : Accept(r) \/ Serving(r) \/ Open(r) \/ Close(r) \/ Receiving(r)

Spec == Init /\ [][Next]_vars

(* The writer finishes what it began.  The sender polls without waiting,   *)
(* so each of its handlers runs when its socket is ready; a socket that    *)
(* would block becomes writable again.  The receiver polls with a timeout  *)
(* of 10 ms.  Of the packets, only this is assumed to arrive: of the       *)
(* heartbeats that repeat a number, one.                                   *)
Advancing == Accumulate /\ (last_q_idx' # last_q_idx \/ pkt' # pkt)
Writes(r) == Serving(r) /\ <<out, rep, reply_range>>' # <<out, rep, reply_range>>
HeartbeatArrives(r) ==
    \E p \in net[r] : p.seq = -next_seq /\ Hearing(r, p)

FairSpec ==
    /\ Spec
    /\ WF_vars(WriteQueue /\ UNCHANGED <<sender, receiver, history>>)
    /\ WF_vars(Multicasting /\ next_seq' # next_seq)
    /\ WF_vars(Multicasting /\ spc' # spc) /\ SF_vars(Advancing)
    /\ WF_vars(SendHeartbeat /\ UNCHANGED <<receiver, history>>)
    /\ \A r \in Receivers :
          /\ WF_vars(Open(r)) /\ WF_vars(Accept(r)) /\ WF_vars(Writes(r))
          /\ WF_vars(HeartbeatArrives(r))
          /\ WF_vars(Joining(r))
          /\ WF_vars(TcpOnWriteR(r) /\ UNCHANGED <<sender, history>>)
          /\ WF_vars(TcpReadHeader(r) /\ UNCHANGED <<sender, history>>)
          /\ WF_vars(TcpReadBody(r) /\ UNCHANGED <<sender, history>>)

-----------------------------------------------------------------------------
(* A subscriber's record never goes back to an earlier value, in a session *)
(* or from one to the next, although packets come late and twice and       *)
(* replies carry newer values under older numbers.  The exception is a     *)
(* subscriber that has not yet read that its sender has ended, when the    *)
(* next process of the sender already multicasts to the same group for     *)
(* another subscriber: the old process's replies meet the new one's        *)
(* numbers, which nothing in a packet tells apart (mcast_on_read).         *)
NoRegress ==
    [][\A r \in Receivers, i \in Ids :
          rval'[r][i] < rval[r][i] => conn[r] = "outlived"]_vars

(* sender.min_seq is no more than the number of any record, so a request   *)
(* that tcp_on_read_blocked drops asks for nothing the storage still has.  *)
MinSeqBound == spc # "down" => \A i \in Ids : min_seq <= record_seqs[i]

(* What is still on its way to subscriber r about record i: a queue entry  *)
(* the sender will read, a number the receiver has not reached, a request  *)
(* or an answer under way.                                                 *)
Unread(i) == wid = i \/ \E k \in (last_q_idx + 1)..Len(queue) : queue[k] = i

Asked(r, i) ==
    LET s == record_seqs[i]
    IN  \/ \E k \in 1..Len(rout[r]) : IS_WITHIN_RANGE(rout[r][k], s)
        \/ \E k \in 1..Len(req[r]) : IS_WITHIN_RANGE(req[r][k], s)
        \/ IS_WITHIN_RANGE(union_range[r], s)
        \/ IS_WITHIN_RANGE(reply_range[r], s) /\ reply_id[r] <= i

Answered(r, i) ==
    \E k \in 1..Len(rep[r] \o out[r]) :
        LET m == (rep[r] \o out[r])[k]
        IN  m.seq >= 0 /\ m.id = i /\ m.val = val[i] /\ m.seq > rseqs[r][i]

Coming(r, i) ==
    Unread(i) \/ record_seqs[i] >= rnext[r] \/ Asked(r, i) \/ Answered(r, i)

InSession(r) == spc # "down" /\ conn[r] = "joined"

(* The two ways in which the code loses track of a change.  The record's   *)
(* old value lay staged in a packet while the last client had left: the    *)
(* next client gets that value and no notice of the newer one.  Or the     *)
(* request for the number under which the record was last sent waited in   *)
(* out_buf for a connection that took no output, and the next gap replaced *)
(* it.  Sending the record again, under a new number, ends either.         *)
Neglected(r, i) == i \in abandoned \/ record_seqs[i] \in overwritten[r]

(* Nothing is forgotten: as long as a session lasts, a record in use that  *)
(* differs from the publisher's is still on its way, but for the records   *)
(* that Neglected names.                                                   *)
NothingForgotten ==
    \A r \in Receivers, i \in Ids :
        InSession(r) /\ val[i] # 0 /\ rval[r][i] # val[i] /\ ~Neglected(r, i)
        => Coming(r, i)

(* Reliability as documented, without exceptions.                          *)
ReliableDelivery ==
    \A r \in Receivers, i \in Ids :
        InSession(r) /\ val[i] # 0 /\ rval[r][i] # val[i] => Coming(r, i)

(* When the writer pauses, the storage of a subscriber whose session lasts *)
(* comes to agree with the publisher's and stays so, although any number   *)
(* of packets is lost, but for the records that Neglected names.           *)
Converges ==
    \A r \in Receivers :
        <>[]InSession(r) =>
            <>[](\A i \in Ids : rval[r][i] = val[i] \/ Neglected(r, i))
=============================================================================
