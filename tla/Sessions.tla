------------------------------ MODULE Sessions ------------------------------
(***************************************************************************)
(* What the proofs about Replication speak of: what the sender and a       *)
(* subscriber know of each other while a session lasts.  The conjuncts of  *)
(* the inductive invariant are about the sender's numbers (MinInv), the    *)
(* staged packet (StagedInv, EndedInv) and, for each subscriber, what it   *)
(* has, what is on its way to it and what it has asked for (SessionInv,    *)
(* Remembers).                                                             *)
(***************************************************************************)
EXTENDS Replication

Served == {r \in Receivers : conn[r] \in {"accepted", "joined"}}

(* The numbers of records only grow towards next_seq, so the least number  *)
(* found while an answer is being put together stays a bound on the        *)
(* records passed: record i is passed once it is below reply_id.           *)
SeqTypes ==
    /\ record_seqs \in [Ids -> Nat] /\ next_seq \in Nat /\ min_seq \in Nat
    /\ reply_id \in [Receivers -> Nat] /\ min_seq_found \in [Receivers -> Nat]
    /\ DOMAIN conn = Receivers /\ DOMAIN reply_range = Receivers

Passed(r, from, found) == \A i \in Ids : i < from => found <= record_seqs[i]

MinInv ==
    /\ SeqTypes
    /\ spc = "down" => Served = {}
    /\ spc # "down" =>
         /\ \A i \in Ids : min_seq <= record_seqs[i] /\ record_seqs[i] <= next_seq
         /\ \A r \in Served :
               IS_VALID_RANGE(reply_range[r]) => Passed(r, reply_id[r], min_seq_found[r])

(* What MinInv speaks of. *)
numbers == <<spc, conn, next_seq, min_seq, record_seqs,
             reply_range, reply_id, min_seq_found>>

Rec     == [id : Ids, val : Nat]
Packet  == [seq : Int, recs : Seq(Rec)]
Message == [seq : Nat, id : Ids, val : Nat]
           \cup {[seq |-> HEARTBEAT_SEQ], [seq |-> WILL_QUIT_SEQ]}
Numbers == [low : Nat, high : Nat]

SourceType == val \in [Ids -> Nat] /\ queue \in Seq(Ids) /\ wid \in Ids \cup {0}

WireType ==
    /\ conn \in [Receivers -> ConnStates]
    /\ req \in [Receivers -> Seq(Numbers)] /\ rep \in [Receivers -> Seq(Message)]
    /\ net \in [Receivers -> SUBSET Packet]

SenderType ==
    /\ pkt \in Seq(Rec) /\ next_seq \in Nat
    /\ record_revs \in [Ids -> Int] /\ record_seqs \in [Ids -> Nat]
    /\ last_q_idx \in Nat /\ new_q_idx \in Nat

ClientType ==
    /\ union_range \in [Receivers -> Numbers] /\ reply_range \in [Receivers -> Numbers]
    /\ reply_id \in [Receivers -> Nat \ {0}]
    /\ out \in [Receivers -> Seq(Message)] /\ \A r \in Receivers : Len(out[r]) <= 1

ReceiverType ==
    /\ rval \in [Receivers -> [Ids -> Nat]] /\ rseqs \in [Receivers -> [Ids -> Int]]
    /\ rnext \in [Receivers -> Nat] /\ rhdr \in [Receivers -> Int]
    /\ rout \in [Receivers -> Seq(Numbers)] /\ \A r \in Receivers : Len(rout[r]) <= 1
    /\ overwritten \in [Receivers -> SUBSET Int]

ScanType == last_q_idx <= Len(queue) /\ (spc = "scan" => last_q_idx < new_q_idx /\ new_q_idx <= Len(queue))
HeaderType ==
    \A r \in Listening :
        rhdr[r] # NoHeader => rep[r] # <<>> /\ rhdr[r] = rep[r][1].seq /\ rhdr[r] >= 0

TypeInv ==
    /\ SourceType /\ WireType /\ SenderType /\ ClientType /\ ReceiverType
    /\ ScanType /\ HeaderType

Has(recs, i) == \E k \in 1..Len(recs) : recs[k].id = i
Final(recs, k) == \A j \in (k + 1)..Len(recs) : recs[j].id # recs[k].id

(* A record in a packet has a last occurrence in it: the staged packet and *)
(* those on their way were put together by appending.                      *)
Ended(recs) ==
    \A i \in Ids : Has(recs, i) => \E k \in 1..Len(recs) : recs[k].id = i /\ Final(recs, k)

EndedInv == Ended(pkt) /\ \A r \in Receivers : \A p \in net[r] : Ended(p.recs)

(* Record i is settled when the sender owes nobody word of it: what was    *)
(* last staged is current, or what is newer was skipped, its entries gone. *)
Settled(i) == i \notin abandoned /\ (val[i] = record_revs[i] \/ ~Unread(i))

StagedInv ==
    /\ \A i \in Ids : record_revs[i] <= val[i]
    /\ spc # "down" =>
         /\ next_seq >= 1
         /\ \A i \in Ids : record_seqs[i] = next_seq <=> Has(pkt, i)
         /\ \A k \in 1..Len(pkt) :
               /\ pkt[k].val <= val[pkt[k].id]
               /\ Final(pkt, k) => pkt[k].val = record_revs[pkt[k].id]
         /\ \A i \in Ids : Has(pkt, i) /\ Settled(i) => val[i] = record_revs[i]

staged == <<source, pkt, next_seq, record_revs, record_seqs, last_q_idx, abandoned>>

(* A session lasts from the moment a receiver has joined the group until   *)
(* it leaves or the next process of the sender starts.                     *)
Session(r) == conn[r] \in {"joined", "dropped"}
Lasts == \E r \in Receivers : Session(r) /\ Session(r)'

(* What a step does to record i while a session lasts: unless it stages    *)
(* the record under the number of the next packet, it settles nothing anew.*)
Advance(i) ==
    /\ record_seqs[i] <= record_seqs'[i]
    /\ \/ record_seqs'[i] = record_seqs[i] /\ (Settled(i)' => Settled(i) /\ val'[i] = val[i])
       \/ record_seqs'[i] = next_seq'

Progress ==
    /\ \A i \in Ids : val[i] <= val'[i]
    /\ Lasts => next_seq <= next_seq' /\ \A i \in Ids : Advance(i)

(* What is on its way to a receiver, and what it has asked for. *)
Replies(r) ==
    {m \in {rep[r][k] : k \in 1..Len(rep[r])} \cup {out[r][k] : k \in 1..Len(out[r])} : m.seq >= 0}

Asks(r) ==
    {rout[r][k] : k \in 1..Len(rout[r])} \cup {req[r][k] : k \in 1..Len(req[r])}
    \cup {union_range[r], reply_range[r]}

(* No value of record i among recs is older than v. *)
Newer(recs, i, v) == \A k \in 1..Len(recs) : recs[k].id = i => v <= recs[k].val

(* The sender has nothing older than v of record i left to send. *)
Behind(i, v) == v <= val[i] /\ (spc # "down" => Newer(pkt, i, v))

KnownInv(r) ==
    /\ \A i \in Ids : Behind(i, rval[r][i])
    /\ \A m \in Replies(r) : Behind(m.id, m.val)
    /\ \A p \in net[r] : \A k \in 1..Len(p.recs) : Behind(p.recs[k].id, p.recs[k].val)

FreshInv(r) ==
    /\ conn[r] = "connecting" => req[r] = <<>> /\ rep[r] = <<>>
    /\ conn[r] = "accepted" =>
         req[r] = <<>> /\ union_range[r].high = 0 /\ reply_range[r].high = 0 /\ Replies(r) = {}
    /\ conn[r] = "dropped" => spc = "down"

Numbered(p) ==
    /\ p.seq < next_seq /\ -p.seq <= next_seq
    /\ \A i \in Ids : Has(p.recs, i) => 0 <= p.seq /\ p.seq <= record_seqs[i]
    /\ \A i \in Ids : 0 <= p.seq /\ p.seq = record_seqs[i] => Has(p.recs, i)

NumberInv(r) ==
    /\ rnext[r] <= next_seq
    /\ \A i \in Ids : rseqs[r][i] <= record_seqs[i] /\ rseqs[r][i] < rnext[r]
    /\ \A g \in Asks(r) : g.high <= rnext[r]
    /\ \A p \in net[r] : Numbered(p)
    /\ \A m \in Replies(r) : m.seq <= record_seqs[m.id] /\ m.seq < rnext[r]

Ordered(r) ==
    /\ \A j, k \in 1..Len(rep[r]) :
          j < k /\ rep[r][j].seq >= 0 /\ rep[r][k].seq >= 0 /\ rep[r][j].id = rep[r][k].id
          => rep[r][j].val <= rep[r][k].val
    /\ \A j \in 1..Len(rep[r]), k \in 1..Len(out[r]) :
          rep[r][j].seq >= 0 /\ out[r][k].seq >= 0 /\ rep[r][j].id = out[r][k].id
          => rep[r][j].val <= out[r][k].val

OrderInv(r) ==
    /\ \A p, q \in net[r] : q.seq < p.seq =>
          \A k \in 1..Len(q.recs) : Newer(p.recs, q.recs[k].id, q.recs[k].val)
    /\ \A p \in net[r] : p.seq >= rnext[r] =>
          /\ \A i \in Ids : Newer(p.recs, i, rval[r][i])
          /\ \A m \in Replies(r) : Newer(p.recs, m.id, m.val)
    /\ \A m \in Replies(r) : m.seq > rseqs[r][m.id] => rval[r][m.id] <= m.val
    /\ Ordered(r)

SessionInv(r) == KnownInv(r) /\ FreshInv(r) /\ (Session(r) => NumberInv(r) /\ OrderInv(r))

(* A step that is not about receiver r as such: it may get a packet, or be *)
(* dropped.                                                                *)
Sent ==
    /\ spc # "down" /\ next_seq' = next_seq + 1
    /\ spc' # "down" => \A k \in 1..Len(pkt') : pkt'[k].val = val[pkt'[k].id]

Told(r) ==
    /\ rval'[r] = rval[r] /\ rseqs'[r] = rseqs[r] /\ rnext'[r] = rnext[r] /\ rout'[r] = rout[r]
    /\ overwritten'[r] = overwritten[r] /\ req'[r] = req[r] /\ out'[r] = out[r]
    /\ union_range'[r] = union_range[r] /\ reply_range'[r] = reply_range[r]
    /\ reply_id'[r] = reply_id[r]
    /\ \/ rep'[r] = rep[r]
       \/ conn'[r] = "dropped" /\ rep'[r] = Append(rep[r], [seq |-> WILL_QUIT_SEQ])
    /\ \/ net'[r] = net[r]
       \/ net'[r] = net[r] \cup {DataPacket} /\ Sent
       \/ net'[r] = net[r] \cup {Heartbeat} /\ spc # "down"
    /\ Session(r)' => Session(r)
    /\ conn'[r] \in {"connecting", "accepted", "joined"} => conn'[r] = conn[r]
    /\ conn'[r] = "dropped" => spc' = "down" \/ (conn[r] = "dropped" /\ spc # "down")

(* One round of the sender for client r, answering the range re from       *)
(* record "from" on: nothing is written, or what is in out_buf goes out    *)
(* and the next reply, nothing or a heartbeat takes its place.             *)
Waited(r, re, from) ==
    /\ rep'[r] = rep[r] /\ out'[r] = out[r]
    /\ reply_range'[r] = re /\ reply_id'[r] = from

Replied(r, re, from, to) ==
    /\ IS_VALID_RANGE(re) /\ Wanted(re, to)
    /\ \A i \in Ids : from <= i /\ i < to => ~Wanted(re, i)
    /\ rep'[r] = rep[r] \o out[r] /\ out'[r] = <<Reply(to)>>
    /\ reply_range'[r] = re /\ reply_id'[r] = to + 1

Completed(r, re, from) ==
    /\ \A i \in Ids : from <= i => ~Wanted(re, i)
    /\ rep'[r] = rep[r] \o out[r] /\ out'[r] = <<>>
    /\ reply_range'[r] = Invalid

Idled(r, re) ==
    /\ ~IS_VALID_RANGE(re)
    /\ rep'[r] = rep[r] \o out[r] /\ out'[r] \in {<<>>, <<[seq |-> HEARTBEAT_SEQ]>>}
    /\ reply_range'[r] = reply_range[r] /\ reply_id'[r] = reply_id[r]

Round(r, re, from) ==
    \/ Waited(r, re, from) \/ Completed(r, re, from) \/ Idled(r, re)
    \/ \E to \in Ids : Replied(r, re, from, to)

(* Steps of receiver r leave the sender alone. *)
Quiet == UNCHANGED <<spc, pkt, next_seq, record_seqs, val>>

SessionsInv == TypeInv /\ MinInv /\ StagedInv /\ \A r \in Receivers : SessionInv(r)

(* What a session knows of a record that the sender owes nobody. *)
ForgetInv(r, i) ==
    /\ rseqs[r][i] = record_seqs[i] => rval[r][i] = val[i]
    /\ \A m \in Replies(r) : m.id = i /\ m.seq = record_seqs[i] => m.val = val[i]
    /\ \A p \in net[r] : p.seq = record_seqs[i] => \A k \in LastOf(p, i) : p.recs[k].val = val[i]
    /\ val[i] # 0 /\ record_seqs[i] < rnext[r] /\ record_seqs[i] \notin overwritten[r] =>
          \/ rseqs[r][i] = record_seqs[i] \/ Asked(r, i)
          \/ \E m \in Replies(r) : m.id = i /\ m.seq = record_seqs[i]

Remembers(r, i) == conn[r] = "joined" /\ Settled(i) => ForgetInv(r, i)

=============================================================================
