------------------------------ MODULE Receiver ------------------------------
(***************************************************************************)
(* The receiver of a subscriber (receiver.c).  It applies multicast        *)
(* packets to its own storage in the order they come, asks over TCP for    *)
(* the numbers it has missed, and applies a reply only to a record that it *)
(* has not seen under that number or a later one.  A process is            *)
(* single-threaded; each of its handlers is a step.  The contents of the   *)
(* storage outlive the process (storage_create keeps them).                *)
(***************************************************************************)
EXTENDS Wire

VARIABLES
    rval,       \* the records of each subscriber's storage
    rseqs,      \* record_seqs
    rnext,      \* next_seq
    rout,       \* the request in out_buf, as a sequence of at most one
    rhdr        \* the number of a reply whose body is still to be read

receiver == <<rval, rseqs, rnext, rout, rhdr>>

NoHeader == -3

ReceiverInit ==
    /\ rval = [r \in Receivers |-> [i \in Ids |-> 0]]
    /\ rseqs = [r \in Receivers |-> [i \in Ids |-> -1]]
    /\ rnext = [r \in Receivers |-> 0]
    /\ rout = [r \in Receivers |-> <<>>]
    /\ rhdr = [r \in Receivers |-> NoHeader]

-----------------------------------------------------------------------------
(* receiver_create: connect and wait for the sender's greeting, then join  *)
(* the group with empty bookkeeping.                                       *)
Connect(r) ==
    /\ conn[r] = "closed"
    /\ conn' = [conn EXCEPT ![r] = "connecting"]
    /\ req' = [req EXCEPT ![r] = <<>>] /\ rep' = [rep EXCEPT ![r] = <<>>]
    /\ UNCHANGED <<receiver, net, source>>

Join(r) ==
    /\ conn[r] = "accepted"
    /\ conn' = [conn EXCEPT ![r] = "joined"]
    /\ net' = [net EXCEPT ![r] = {}]
    /\ rseqs' = [rseqs EXCEPT ![r] = [i \in Ids |-> -1]]
    /\ rnext' = [rnext EXCEPT ![r] = 0]
    /\ rout' = [rout EXCEPT ![r] = <<>>]
    /\ rhdr' = [rhdr EXCEPT ![r] = NoHeader]
    /\ UNCHANGED <<rval, req, rep, source>>

(* The process ends: told to stop, by a missing heartbeat, by the sender's *)
(* farewell or the end of the connection.                                  *)
Disconnect(r) ==
    /\ conn' = [conn EXCEPT ![r] =
                   IF @ \in {"accepted", "joined"} THEN "left" ELSE "closed"]
    /\ net' = [net EXCEPT ![r] = {}]
    /\ UNCHANGED <<req, rep>>

Leave(r) ==
    /\ conn[r] \in {"connecting", "accepted"} \/ r \in Listening
    /\ Disconnect(r)
    /\ UNCHANGED <<receiver, source>>

-----------------------------------------------------------------------------
(* update_record for each record of a packet, in order. *)
LastOf(p, i) == {k \in 1..Len(p.recs) :
                    p.recs[k].id = i /\ \A j \in (k + 1)..Len(p.recs) : p.recs[j].id # i}

Apply(r, p) ==
    /\ rval' = [rval EXCEPT ![r] = [i \in Ids |->
                   IF LastOf(p, i) = {} THEN rval[r][i]
                   ELSE p.recs[CHOOSE k \in LastOf(p, i) : TRUE].val]]
    /\ rseqs' = [rseqs EXCEPT ![r] = [i \in Ids |->
                   IF LastOf(p, i) = {} THEN rseqs[r][i] ELSE p.seq]]

(* The poller serves the TCP socket before the multicast socket, so a      *)
(* request still in out_buf means that the connection takes no more.       *)
TcpFirst(r) == rout[r] = <<>> \/ Len(req[r]) >= TcpCap

(* mutant: the range leaves out its first number *)
RequestGap_Exclusive(r, seq) ==
    rout' = IF seq > rnext[r] + 1
            THEN [rout EXCEPT ![r] = <<Range(rnext[r] + 1, seq)>>] ELSE rout

(* request_gap, if the packet's number is ahead: it replaces whatever      *)
(* request is still in out_buf.                                            *)
RequestGap(r, seq) ==
    rout' = IF seq > rnext[r] THEN [rout EXCEPT ![r] = <<Range(rnext[r], seq)>>] ELSE rout

(* mcast_on_read, a packet *)
McastRead(r, p) ==
    /\ r \in Listening /\ TcpFirst(r) /\ p \in net[r]
    /\ p.seq >= rnext[r]
    /\ Apply(r, p)
    /\ RequestGap(r, p.seq)
    /\ rnext' = [rnext EXCEPT ![r] = p.seq + 1]
    /\ UNCHANGED <<rhdr, wires, source>>

(* mcast_on_read, a heartbeat (its number is negated) *)
McastHeartbeat(r, p) ==
    /\ r \in Listening /\ TcpFirst(r) /\ p \in net[r]
    /\ p.seq < 0 /\ -p.seq > rnext[r]
    /\ RequestGap(r, -p.seq)
    /\ rnext' = [rnext EXCEPT ![r] = -p.seq]
    /\ UNCHANGED <<rval, rseqs, rhdr, wires, source>>

(* tcp_on_write *)
TcpOnWriteR(r) ==
    /\ r \in Listening /\ rout[r] # <<>> /\ Len(req[r]) < TcpCap
    /\ req' = [req EXCEPT ![r] = Append(@, rout[r][1])]
    /\ rout' = [rout EXCEPT ![r] = <<>>]
    /\ UNCHANGED <<rval, rseqs, rnext, rhdr, conn, rep, net, source>>

(* tcp_on_read, the number: of a reply, a heartbeat or the farewell.       *)
TcpReadHeader(r) ==
    /\ r \in Listening /\ rep[r] # <<>> /\ rhdr[r] = NoHeader
    /\ LET seq == rep[r][1].seq
       IN  \/ /\ seq = HEARTBEAT_SEQ
              /\ rep' = [rep EXCEPT ![r] = Tail(@)]
              /\ UNCHANGED <<rhdr, conn, req, net>>
           \/ /\ seq = WILL_QUIT_SEQ
              /\ Disconnect(r) /\ UNCHANGED rhdr
           \/ /\ seq >= 0
              /\ rhdr' = [rhdr EXCEPT ![r] = seq]
              /\ UNCHANGED wires
    /\ UNCHANGED <<rval, rseqs, rnext, rout, source>>

(* mutant: a reply is applied whatever the record's own number *)
TcpReadBody_Always(r) ==
    /\ r \in Listening /\ rhdr[r] # NoHeader
    /\ LET m == rep[r][1]
       IN  /\ rval' = [rval EXCEPT ![r][m.id] = m.val]
           /\ rseqs' = [rseqs EXCEPT ![r][m.id] = rhdr[r]]
    /\ rep' = [rep EXCEPT ![r] = Tail(@)]
    /\ rhdr' = [rhdr EXCEPT ![r] = NoHeader]
    /\ UNCHANGED <<rnext, rout, conn, req, net, source>>

(* tcp_on_read, the identifier and the value *)
TcpReadBody(r) ==
    /\ r \in Listening /\ rhdr[r] # NoHeader
    /\ LET m == rep[r][1]
       IN  IF rhdr[r] > rseqs[r][m.id]
           THEN /\ rval' = [rval EXCEPT ![r][m.id] = m.val]
                /\ rseqs' = [rseqs EXCEPT ![r][m.id] = rhdr[r]]
           ELSE UNCHANGED <<rval, rseqs>>
    /\ rep' = [rep EXCEPT ![r] = Tail(@)]
    /\ rhdr' = [rhdr EXCEPT ![r] = NoHeader]
    /\ UNCHANGED <<rnext, rout, conn, req, net, source>>
=============================================================================
