-------------------------------- MODULE Wire --------------------------------
(***************************************************************************)
(* What lies between a publisher and its subscribers: the publisher's      *)
(* storage as its sender sees it, one TCP connection per subscriber and    *)
(* the multicast group.  Sender and Receiver extend this module, and       *)
(* Replication composes the two.                                           *)
(*                                                                         *)
(* The network is not code of the repository; it is modelled from how      *)
(* sender.c and receiver.c use it.  Multicast packets may be lost,         *)
(* duplicated and reordered: the packets sent while a subscriber is in the *)
(* group form a set, and any of them may be read at any time, any number   *)
(* of times or never.  TCP keeps order and loses nothing while the         *)
(* connection stands.  A message is read or written in one step.           *)
(***************************************************************************)
EXTENDS Integers, Sequences, FiniteSets

CONSTANTS
    Receivers,    \* the subscribers
    N,            \* records have the identifiers 1..N
    MaxWrites,    \* bound on the writes to the publisher's storage
    TcpCap        \* messages a direction of a TCP connection buffers

Ids == 1..N

ASSUME WireAssumption ==
    N \in Nat /\ N > 0 /\ MaxWrites \in Nat /\ TcpCap \in Nat /\ TcpCap > 0

VARIABLES
    val,     \* the records: revision, which also stands for the value
    queue,   \* the identifiers queued so far; q_head is its length
    wid,     \* the record written and not yet queued, 0 if none
    conn,    \* state of each subscriber's connection
    req,     \* requests on their way to the sender
    rep,     \* messages on their way to the receiver
    net      \* multicast packets a subscriber can still get

source == <<val, queue, wid>>
wires  == <<conn, req, rep, net>>

HEARTBEAT_SEQ == -1
WILL_QUIT_SEQ == -2

(* A connection is asked for, accepted (the sender has a client), joined   *)
(* (the receiver is in the group too); then either side leaves first.  A   *)
(* receiver that the sender has dropped stays in the group until it finds  *)
(* out; it is outlived when the next process of the sender starts before.  *)
ConnStates == {"closed", "connecting", "accepted", "joined", "left", "dropped",
               "outlived"}

Clients == {r \in Receivers : conn[r] \in {"accepted", "joined", "left"}}
Listening == {r \in Receivers : conn[r] \in {"joined", "dropped", "outlived"}}

Range(l, h) == [low |-> l, high |-> h]
IS_VALID_RANGE(g) == g.low < g.high
IS_WITHIN_RANGE(g, n) == n >= g.low /\ n < g.high

WireInit ==
    /\ val = [i \in Ids |-> 0] /\ queue = <<>> /\ wid = 0
    /\ conn = [r \in Receivers |-> "closed"]
    /\ req = [r \in Receivers |-> <<>>] /\ rep = [r \in Receivers |-> <<>>]
    /\ net = [r \in Receivers |-> {}]

-----------------------------------------------------------------------------
(* The writer of the publisher's storage: the record, then its queue entry *)
(* (ChangeQueue and RecordLock model these two in detail).                 *)

WriteRecord(i) ==
    /\ wid = 0 /\ Len(queue) < MaxWrites
    /\ val' = [val EXCEPT ![i] = @ + 1]
    /\ wid' = i
    /\ UNCHANGED <<queue, wires>>

WriteQueue ==
    /\ wid # 0
    /\ queue' = Append(queue, wid)
    /\ wid' = 0
    /\ UNCHANGED <<val, wires>>
=============================================================================
