----------------------------- MODULE Heartbeat -----------------------------
(***************************************************************************)
(* The heartbeats between a sender and a receiver (sender.c, receiver.c).  *)
(* The sender multicasts a packet at least every heartbeat period and      *)
(* writes one over TCP to each client; the receiver ends when either       *)
(* channel has been silent for too long.  Time passes in ticks and a       *)
(* variable that stands for a stored time holds its age.  A round of       *)
(* either process and the way of a message may be delayed, and up to       *)
(* max_missed_hb multicast packets in a row may be lost.                   *)
(***************************************************************************)
EXTENDS Integers

CONSTANTS
    heartbeat_usec, max_missed_hb,
    Slack,                          \* the 100 ms added to the time-out
    INITIAL_MC_HB_USEC,             \* the time-out before the first packet
    FillDelay,                      \* bound on the time a packet takes to fill up while
                                    \* no round finds the change queue empty
    SendDelay, NetDelay, RecvDelay, \* bounds on the delays
    Cap                             \* ages at or above it are not told apart

timeout_usec == heartbeat_usec * (max_missed_hb + 1) + Slack
Longest == IF timeout_usec < INITIAL_MC_HB_USEC THEN INITIAL_MC_HB_USEC ELSE timeout_usec

(* The slack of the time-out covers the delays, of as many packets as may  *)
(* have to be sent before one arrives.                                     *)
HeartbeatAssumption ==
    /\ {heartbeat_usec, max_missed_hb, Slack, INITIAL_MC_HB_USEC,
        FillDelay, SendDelay, NetDelay, RecvDelay, Cap} \subseteq Nat
    /\ heartbeat_usec > 0
    /\ (max_missed_hb + 1) * (FillDelay + SendDelay) + NetDelay + RecvDelay < Slack
    /\ 2 * SendDelay + NetDelay + RecvDelay < Slack
    /\ Longest + NetDelay + 2 * RecvDelay < Cap

VARIABLES
    alive, silent,          \* the sender's process, and for how long it is dead
    mcast_send, tcp_send,   \* ages of mcast_send_time and tcp_send_time
    staged,                 \* a TCP heartbeat is in out_buf
    lost,                   \* multicast packets lost in a row
    mcast_way, tcp_way,     \* ages of the messages on their way
    mcast_in, tcp_in,       \* something is there to be read
    running, heard,         \* the receiver's process; next_seq is not 0
    mcast_recv, tcp_recv,   \* ages of mcast_recv_time and tcp_recv_time
    sround, rround          \* ages of the last rounds

sender   == <<alive, silent, mcast_send, tcp_send, staged, lost, sround>>
network  == <<mcast_way, tcp_way, mcast_in, tcp_in>>
receiver == <<running, heard, mcast_recv, tcp_recv, rround>>
vars     == <<sender, network, receiver>>

(* The receiver has just joined.  The sender has accepted it, and has or   *)
(* has not sent anything of late to others.                                *)
Init ==
    /\ alive = TRUE /\ silent = 0 /\ staged = FALSE /\ lost = 0 /\ sround = 0
    /\ mcast_send \in 0..heartbeat_usec /\ tcp_send = 0
    /\ mcast_way = {} /\ tcp_way = {} /\ mcast_in = FALSE /\ tcp_in = FALSE
    /\ running = TRUE /\ heard = FALSE /\ mcast_recv = 0 /\ tcp_recv = 0 /\ rround = 0

-----------------------------------------------------------------------------
(* mcast_send_pkt: the packet goes its way or is lost. *)
Multicast ==
    /\ mcast_send' = 0
    /\ \/ mcast_way' = mcast_way \cup {0} /\ lost' = 0
       \/ lost < max_missed_hb /\ lost' = lost + 1 /\ UNCHANGED mcast_way

(* mcast_on_write.  A round that finds the change queue empty sends when   *)
(* the packet is old enough or a heartbeat is due.  One that finds changes *)
(* only adds them to the packet, which goes out when it is full, and sends *)
(* no heartbeat.                                                           *)
McastOnWrite ==
    \/ Multicast
    \/ mcast_send < heartbeat_usec + FillDelay /\ UNCHANGED <<mcast_send, mcast_way, lost>>

(* tcp_on_write: what is staged is written; else a heartbeat is staged     *)
(* when it is due.                                                         *)
TcpOnWrite ==
    IF staged
    THEN staged' = FALSE /\ tcp_send' = 0 /\ tcp_way' = tcp_way \cup {0}
    ELSE staged' = (tcp_send >= heartbeat_usec) /\ UNCHANGED <<tcp_send, tcp_way>>

(* A round of sender_run. *)
SenderRound ==
    /\ alive /\ sround' = 0
    /\ McastOnWrite /\ TcpOnWrite
    /\ UNCHANGED <<alive, silent, mcast_in, tcp_in, receiver>>

(* The sender's host fails: nothing more comes, not even the end of the    *)
(* connection.                                                             *)
Fail ==
    /\ alive /\ alive' = FALSE /\ silent' = 0
    /\ UNCHANGED <<mcast_send, tcp_send, staged, lost, sround, network, receiver>>

ArriveMcast(a) ==
    /\ a \in mcast_way
    /\ mcast_way' = mcast_way \ {a} /\ mcast_in' = TRUE
    /\ UNCHANGED <<sender, tcp_way, tcp_in, receiver>>

ArriveTcp(a) ==
    /\ a \in tcp_way
    /\ tcp_way' = tcp_way \ {a} /\ tcp_in' = TRUE
    /\ UNCHANGED <<sender, mcast_way, mcast_in, receiver>>

-----------------------------------------------------------------------------
(* mutant: the time-out forgets that a heartbeat is due after the missed ones *)
Timeout_OneLess == heartbeat_usec * max_missed_hb + Slack

Timeout == timeout_usec

McastTimeout == IF ~heard /\ Timeout < INITIAL_MC_HB_USEC THEN INITIAL_MC_HB_USEC ELSE Timeout

(* mutant: a TCP heartbeat also vouches for the multicast channel *)
ReceiverRound_EitherChannel ==
    /\ running /\ rround' = 0
    /\ mcast_in' = FALSE /\ tcp_in' = FALSE
    /\ heard' = (heard \/ mcast_in)
    /\ mcast_recv' = IF mcast_in THEN 0 ELSE mcast_recv
    /\ tcp_recv' = IF tcp_in THEN 0 ELSE tcp_recv
    /\ running' = (mcast_recv' < McastTimeout' \/ tcp_recv' < 2 * Timeout)
    /\ UNCHANGED <<sender, mcast_way, tcp_way>>

(* A round of receiver_run: the sockets are read (mcast_on_read,           *)
(* tcp_on_read), then the times are compared.                              *)
ReceiverRound ==
    /\ running /\ rround' = 0
    /\ mcast_in' = FALSE /\ tcp_in' = FALSE
    /\ heard' = (heard \/ mcast_in)
    /\ mcast_recv' = IF mcast_in THEN 0 ELSE mcast_recv
    /\ tcp_recv' = IF tcp_in THEN 0 ELSE tcp_recv
    /\ running' = (mcast_recv' < McastTimeout' /\ tcp_recv' < Timeout)
    /\ UNCHANGED <<sender, mcast_way, tcp_way>>

-----------------------------------------------------------------------------
Older(a) == IF a < Cap THEN a + 1 ELSE Cap
OlderAll(S) == {a + 1 : a \in S}

InTime ==
    /\ alive => sround < SendDelay
    /\ running => rround < RecvDelay
    /\ NetDelay \notin mcast_way \cup tcp_way

Tick ==
    /\ InTime
    /\ silent' = IF alive THEN 0 ELSE Older(silent)
    /\ mcast_send' = IF alive THEN Older(mcast_send) ELSE mcast_send
    /\ tcp_send' = IF alive THEN Older(tcp_send) ELSE tcp_send
    /\ mcast_way' = OlderAll(mcast_way) /\ tcp_way' = OlderAll(tcp_way)
    /\ mcast_recv' = IF running THEN Older(mcast_recv) ELSE mcast_recv
    /\ tcp_recv' = IF running THEN Older(tcp_recv) ELSE tcp_recv
    /\ sround' = IF alive THEN Older(sround) ELSE sround
    /\ rround' = IF running THEN Older(rround) ELSE rround
    /\ UNCHANGED <<alive, staged, lost, mcast_in, tcp_in, running, heard>>

Next ==
    \/ SenderRound \/ Fail \/ ReceiverRound \/ Tick
    \/ \E a \in 0..NetDelay : ArriveMcast(a) \/ ArriveTcp(a)

Spec == Init /\ [][Next]_vars

-----------------------------------------------------------------------------
(* A receiver whose sender lives does not end for want of a heartbeat, if  *)
(* no more than MAX-MISSED-HEARTBEATS packets in a row are lost and the    *)
(* slack also covers the rounds in which a stream of changes that does not *)
(* fill a packet keeps mcast_on_write from sending.                        *)
NoFalseTimeout == alive => running

(* A receiver whose sender has gone without a word ends in time. *)
SilenceNoticed ==
    ~alive /\ silent > (IF heard THEN timeout_usec ELSE Longest) + NetDelay + 2 * RecvDelay
        => ~running
=============================================================================
