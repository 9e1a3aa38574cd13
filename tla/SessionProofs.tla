--------------------------- MODULE SessionProofs ----------------------------
(***************************************************************************)
(* Proofs about Replication, for any subscribers and records: what a       *)
(* subscriber has, what is on its way to it and what it has asked for stay *)
(* in step with the sender's numbers, and no subscriber goes back to an    *)
(* earlier value; and a change the sender owes nobody any more has reached *)
(* a subscriber or is on its way to it, whatever packets were lost.        *)
(***************************************************************************)
EXTENDS ReplicationProofs

(* A sequence of one, and one longer by one. *)
LEMMA Single == \A x : Len(<<x>>) = 1 /\ <<x>>[1] = x /\ 1 \in 1..Len(<<x>>)
OBVIOUS

LEMMA Longer ==
    ASSUME NEW s \in Seq(Message), NEW x \in Message
    PROVE  /\ Len(s) + 1 \in 1..Len(Append(s, x)) /\ Append(s, x)[Len(s) + 1] = x
           /\ \A j \in 1..Len(s) : j \in 1..Len(Append(s, x)) /\ Append(s, x)[j] = s[j]
OBVIOUS

(* Uniting two ranges keeps the numbers of both. *)
LEMMA UniteWithin ==
    ASSUME NEW g \in Numbers, NEW h \in Numbers, NEW n \in Nat,
           IS_WITHIN_RANGE(g, n) \/ IS_WITHIN_RANGE(h, n)
    PROVE  IS_WITHIN_RANGE(Unite(g, h), n)
BY DEF Unite, Range, IS_WITHIN_RANGE, Numbers

(* What Write does, as a round. *)
LEMMA WriteRound ==
    ASSUME TypeInv, NEW r \in Receivers, NEW re, NEW from \in Nat \ {0}, NEW found,
           Write(r, re, from, found)
    PROVE  Round(r, re, from)
<1>1. CASE NoWrite(r, re, from, found)
  BY <1>1, Domains, Zenon DEF NoWrite, Round, Waited
<1>2. CASE TcpOnWrite(r, re, from, found) /\ ~IS_VALID_RANGE(re)
  BY <1>2, Domains, Zenon DEF TcpOnWrite, Round, Idled
<1>3. CASE TcpOnWrite(r, re, from, found) /\ IS_VALID_RANGE(re)
  <2>1. NextReply(r, re, from, found) /\ rep'[r] = rep[r] \o out[r]
    BY <1>3, Domains, Zenon DEF TcpOnWrite
  <2>2. PICK to \in from..(N + 1) :
          /\ FirstWanted(re, from, to)
          /\ IF to <= N
             THEN /\ out' = [out EXCEPT ![r] = <<Reply(to)>>]
                  /\ reply_id' = [reply_id EXCEPT ![r] = to + 1]
                  /\ reply_range' = [reply_range EXCEPT ![r] = re]
             ELSE /\ out' = [out EXCEPT ![r] = <<>>]
                  /\ reply_range' = [reply_range EXCEPT ![r] = Invalid]
    BY <2>1, Zenon DEF NextReply
  <2>3. to \in Nat /\ \A i \in Ids : from <= i /\ i < to => ~Wanted(re, i)
    BY <2>2, WireAssumption DEF FirstWanted, Ids
  <2>4. CASE to <= N
    <3>1. to \in Ids /\ Wanted(re, to)
      BY <2>2, <2>4, WireAssumption DEF FirstWanted, Ids
    <3>2. Replied(r, re, from, to)
      BY <1>3, <2>1, <2>2, <2>3, <2>4, <3>1, Domains, Zenon DEF Replied
    <3> QED BY <3>1, <3>2, Zenon DEF Round
  <2>5. CASE ~(to <= N)
    <3>1. \A i \in Ids : i < to
      BY <2>3, <2>5, WireAssumption DEF Ids
    <3>2. Completed(r, re, from)
      BY <2>1, <2>2, <2>3, <2>5, <3>1, Domains, Zenon DEF Completed
    <3> QED BY <3>2, Zenon DEF Round
  <2> QED BY <2>4, <2>5, Zenon
<1> QED BY <1>1, <1>2, <1>3, Zenon DEF Write

(* out_buf behind the connection. *)
LEMMA Pushed ==
    ASSUME NEW S, NEW s \in Seq(S), NEW t \in Seq(S), Len(t) <= 1
    PROVE  \/ t = <<>> /\ s \o t = s
           \/ Len(t) = 1 /\ t[1] \in S /\ s \o t = Append(s, t[1])
<1>1. \A n \in Nat : n <= 1 => n = 0 \/ n = 1
  OBVIOUS
<1>2. Len(t) \in Nat /\ Len(s) \in Nat /\ (Len(t) = 0 => t = <<>>)
  OBVIOUS
<1>3. t = <<>> \/ Len(t) = 1
  BY <1>1, <1>2, Zenon
<1>4. t # <<>> => t[1] \in S
  OBVIOUS
<1>5. ASSUME NEW x \in S PROVE s \o <<x>> = Append(s, x)
  OBVIOUS
<1>6. ASSUME Len(t) = 1, t[1] \in S PROVE t = <<t[1]>>
  BY <1>6
<1>7. t = <<>> => s \o t = s
  OBVIOUS
<1> QED BY <1>3, <1>4, <1>5, <1>6, <1>7, Zenon

(* Sending what is in out_buf loses no reply and changes no order. *)
LEMMA Sending ==
    ASSUME TypeInv, NEW r \in Receivers, rep'[r] = rep[r] \o out[r]
    PROVE  /\ Len(out[r]) \in Nat /\ Len(rep[r]) \in Nat
           /\ \A k \in 1..Len(rep[r]) : k \in 1..Len(rep'[r]) /\ rep'[r][k] = rep[r][k]
           /\ \A k \in 1..Len(rep'[r]) : \/ k \in 1..Len(rep[r])
                                         \/ k = Len(rep[r]) + 1 /\ 1 \in 1..Len(out[r]) /\ rep'[r][k] = out[r][1]
           /\ \A k \in 1..Len(out[r]) : \E j \in 1..Len(rep'[r]) : rep'[r][j] = out[r][k]
<1>1. rep[r] \in Seq(Message) /\ out[r] \in Seq(Message) /\ Len(out[r]) <= 1
  BY Zenon DEF TypeInv, WireType, ClientType
<1>2. CASE out[r] = <<>> /\ rep'[r] = rep[r]
  <2>1. Len(out[r]) = 0 /\ Len(rep[r]) \in Nat
    BY <1>1, <1>2
  <2> QED BY <1>2, <2>1
<1>3. CASE Len(out[r]) = 1 /\ out[r][1] \in Message /\ rep'[r] = Append(rep[r], out[r][1])
  <2>1. Len(out[r]) = 1 /\ 1 \in 1..Len(out[r])
    BY <1>3
  <2>2. PICK x \in Message : x = out[r][1]
    BY <1>3, Zenon
  <2>3. /\ Len(rep'[r]) = Len(rep[r]) + 1 /\ Len(rep[r]) \in Nat /\ rep'[r][Len(rep[r]) + 1] = x
        /\ \A k \in 1..Len(rep[r]) : rep'[r][k] = rep[r][k]
    BY <1>1, <1>3, <2>2
  <2>4. Len(rep[r]) + 1 \in 1..Len(rep'[r])
    BY <2>3
  <2>5. \A k \in 1..Len(rep'[r]) : k \in 1..Len(rep[r]) \/ k = Len(rep[r]) + 1
    BY <2>3
  <2>6. \A k \in 1..Len(out[r]) : k = 1
    BY <2>1
  <2>7. \A k \in 1..Len(rep[r]) : k \in 1..Len(rep'[r])
    BY <2>3
  <2>8. \A k \in 1..Len(out[r]) : \E j \in 1..Len(rep'[r]) : rep'[r][j] = out[r][k]
    BY <2>2, <2>3, <2>4, <2>6, Zenon
  <2>9. \A k \in 1..Len(rep'[r]) :
           k \in 1..Len(rep[r]) \/ (k = Len(rep[r]) + 1 /\ rep'[r][k] = out[r][1])
    BY <2>2, <2>3, <2>5, Zenon
  <2>10. Len(out[r]) \in Nat /\ Len(rep[r]) \in Nat
    BY <1>1
  <2> HIDE <1>3
  <2> QED BY <2>1, <2>3, <2>7, <2>8, <2>9, <2>10, Zenon
<1> QED BY <1>1, <1>2, <1>3, Pushed, Zenon

(* A round adds at most one reply, with the current value. *)
LEMMA RoundReplies ==
    ASSUME TypeInv, NEW r \in Receivers, NEW re, NEW from, Round(r, re, from)
    PROVE  /\ \A m \in Replies(r) : m \in Replies(r)'
           /\ \A m \in Replies(r)' : \/ m \in Replies(r)
                                     \/ \E to \in Ids : Replied(r, re, from, to) /\ m = Reply(to)
           /\ /\ Ordered(r)
              /\ \A m \in Replies(r), to \in Ids : Replied(r, re, from, to) /\ m.id = to => m.val <= val[to]
              => Ordered(r)'
<1>0. HEARTBEAT_SEQ = -1 /\ \A to : Reply(to).id = to /\ Reply(to).val = val[to]
  BY Zenon DEF HEARTBEAT_SEQ, Reply
<1>1. CASE Waited(r, re, from)
  BY <1>1, Zenon DEF Waited, Replies, Ordered
<1>2. CASE rep'[r] = rep[r] \o out[r] /\ ~Waited(r, re, from)
  <2>1. /\ Len(out[r]) \in Nat /\ Len(rep[r]) \in Nat
        /\ \A k \in 1..Len(rep[r]) : k \in 1..Len(rep'[r]) /\ rep'[r][k] = rep[r][k]
        /\ \A k \in 1..Len(out[r]) : \E j \in 1..Len(rep'[r]) : rep'[r][j] = out[r][k]
    BY <1>2, Sending, Zenon
  <2>2. \A k \in 1..Len(rep'[r]) : \/ k \in 1..Len(rep[r]) /\ rep'[r][k] = rep[r][k]
                                   \/ k = Len(rep[r]) + 1 /\ 1 \in 1..Len(out[r]) /\ rep'[r][k] = out[r][1]
    BY <1>2, Sending, Zenon
  <2>5. \A m \in Replies(r) : m \in Replies(r)'
    BY <2>1, Zenon DEF Replies
  <2>6. \A k \in 1..Len(out'[r]) :
           out'[r][k].seq >= 0 => \E to \in Ids : Replied(r, re, from, to) /\ out'[r][k] = Reply(to)
    <3>1. CASE out'[r] = <<>>
      BY <3>1
    <3>2. CASE out'[r] = <<[seq |-> HEARTBEAT_SEQ]>>
      BY <1>0, <3>2
    <3>3. CASE \E to \in Ids : Replied(r, re, from, to)
      BY <3>3 DEF Replied
    <3> QED BY <1>2, <3>1, <3>2, <3>3, Zenon DEF Round, Completed, Idled
  <2>7. \A m \in Replies(r)' : \/ m \in Replies(r)
                               \/ \E to \in Ids : Replied(r, re, from, to) /\ m = Reply(to)
    BY <2>2, <2>6 DEF Replies
  <2>8. ASSUME Ordered(r),
               \A m \in Replies(r), to \in Ids : Replied(r, re, from, to) /\ m.id = to => m.val <= val[to]
        PROVE  Ordered(r)'
    <3>1. ASSUME NEW j \in 1..Len(rep'[r]), NEW k \in 1..Len(rep'[r]), j < k,
                 rep'[r][j].seq >= 0, rep'[r][k].seq >= 0, rep'[r][j].id = rep'[r][k].id
          PROVE  rep'[r][j].val <= rep'[r][k].val
      <4>1. j \in 1..Len(rep[r]) /\ rep'[r][j] = rep[r][j]
        BY <2>1, <2>2, <3>1
      <4>2. CASE k \in 1..Len(rep[r]) /\ rep'[r][k] = rep[r][k]
        BY <2>8, <3>1, <4>1, <4>2, Zenon DEF Ordered
      <4>3. CASE 1 \in 1..Len(out[r]) /\ rep'[r][k] = out[r][1]
        BY <2>8, <3>1, <4>1, <4>3, Zenon DEF Ordered
      <4> QED BY <2>2, <4>2, <4>3, Zenon
    <3>2. ASSUME NEW j \in 1..Len(rep'[r]), NEW k \in 1..Len(out'[r]),
                 rep'[r][j].seq >= 0, out'[r][k].seq >= 0, rep'[r][j].id = out'[r][k].id
          PROVE  rep'[r][j].val <= out'[r][k].val
      <4>1. rep'[r][j] \in Replies(r)
        BY <2>2, <3>2, Zenon DEF Replies
      <4>2. PICK to \in Ids : Replied(r, re, from, to) /\ out'[r][k] = Reply(to)
        BY <2>6, <3>2, Zenon
      <4>3. rep'[r][j].id = to /\ out'[r][k].val = val[to]
        BY <1>0, <3>2, <4>2, Zenon
      <4>4. rep'[r][j].val <= val[to]
        BY <2>8, <4>1, <4>2, <4>3, Zenon
      <4> QED BY <4>3, <4>4, Zenon
    <3> QED BY <3>1, <3>2, Zenon DEF Ordered
  <2> QED BY <2>5, <2>7, <2>8, Zenon
<1> QED BY <1>1, <1>2, Zenon DEF Round, Completed, Idled, Replied

(* The replies under way after a round are those before it, and its own. *)
Grown(r, re, from) ==
    /\ \A m \in Replies(r) : m \in Replies(r)'
    /\ \A m \in Replies(r)' : \/ m \in Replies(r)
                              \/ \E to \in Ids : Replied(r, re, from, to) /\ m = Reply(to)

LEMMA RoundGrows ==
    ASSUME TypeInv, NEW r \in Receivers, NEW re, NEW from, Round(r, re, from)
    PROVE  Grown(r, re, from)
BY RoundReplies DEF Grown

(* What a round answers.  A client that has not joined has asked nothing.  *)
LEMMA ServeShape ==
    ASSUME TypeInv, MinInv, NEW r \in Receivers, FreshInv(r),
           ClientRead(r) \/ ClientReadBlocked(r)
    PROVE  \E re, from :
              /\ Round(r, re, from) /\ re \in Asks(r) /\ from \in Nat \ {0}
              /\ \/ re = reply_range[r] /\ from = reply_id[r] /\ (ClientRead(r) \/ ~Answer(r))
                 \/ re = union_range[r] /\ from = 1 /\ union_range'[r] = Invalid /\ req'[r] = req[r]
                    /\ ~IS_VALID_RANGE(reply_range[r]) /\ conn[r] # "accepted"
<1>0. /\ reply_id[r] \in Nat \ {0} /\ 1 \in Nat \ {0} /\ union_range[r] \in Asks(r) /\ reply_range[r] \in Asks(r)
      /\ min_seq \in Nat
  BY DEF TypeInv, ClientType, Asks, MinInv, SeqTypes
<1>1. CASE /\ Write(r, reply_range[r], reply_id[r], min_seq_found[r])
           /\ ClientRead(r) \/ ~Answer(r)
  BY <1>0, <1>1, WriteRound, Zenon
<1>2. CASE ClientReadBlocked(r) /\ Answer(r)
  <2>1. Write(r, union_range[r], 1, SEQUENCE_MAX) /\ union_range'[r] = Invalid /\ req'[r] = req[r]
    BY <1>2, Domains, Zenon DEF ClientReadBlocked
  <2>2. conn[r] # "accepted" /\ ~IS_VALID_RANGE(reply_range[r])
    BY <1>0, <1>2 DEF Answer, Outlived, FreshInv
  <2> QED BY <1>0, <2>1, <2>2, WriteRound, Zenon
<1> QED BY <1>1, <1>2, Zenon DEF ClientRead, ClientReadBlocked

(* What a round leaves asked for. *)
LEMMA ServeAsks ==
    ASSUME TypeInv, NEW r \in Receivers, ClientRead(r) \/ ClientReadBlocked(r), rout'[r] = rout[r],
           NEW re \in Asks(r), NEW from, Round(r, re, from)
    PROVE  \A g \in Asks(r)' : g.high = 0 \/ \E h \in Asks(r) : g.high = h.high
<1>1. reply_range'[r] \in Asks(r) \/ reply_range'[r] = Invalid
  BY Zenon DEF Round, Waited, Completed, Idled, Replied, Asks
<1>2. Invalid.high = 0
  BY Zenon DEF Invalid, Range
<1>3. \A k \in 1..Len(req'[r]) : \E j \in 1..Len(req[r]) : req'[r][k] = req[r][j]
  <2>0. req[r] \in Seq(Numbers)
    BY Zenon DEF TypeInv, WireType
  <2>1. CASE req'[r] = req[r]
    BY <2>1, Zenon
  <2>2. CASE req[r] # <<>> /\ req'[r] = Tail(req[r])
    <3>1. Len(req'[r]) = Len(req[r]) - 1 /\ Len(req[r]) \in Nat /\ \A k \in 1..Len(req'[r]) : req'[r][k] = req[r][k + 1]
      BY <2>0, <2>2
    <3>2. \A k \in 1..Len(req'[r]) : k + 1 \in 1..Len(req[r])
      BY <3>1
    <3> QED BY <3>1, <3>2, Zenon
  <2> QED BY <2>1, <2>2, Domains, Zenon DEF ClientRead, ClientReadBlocked
<1>4. union_range'[r].high = 0 \/ \E h \in Asks(r) : union_range'[r].high = h.high
  <2>1. CASE ClientReadBlocked(r)
    BY <1>2, <2>1, Domains, Zenon DEF ClientReadBlocked, Asks
  <2>2. CASE ClientRead(r)
    <3>1. union_range'[r] = Unite(union_range[r], Head(req[r]))
      BY <2>2, Domains, Zenon DEF ClientRead
    <3>2. Head(req[r]) \in Asks(r)
      <4>1. req[r] # <<>> /\ req[r] \in Seq(Numbers)
        BY <2>2, Zenon DEF ClientRead, TypeInv, WireType
      <4>2. 1 \in 1..Len(req[r]) /\ Head(req[r]) = req[r][1]
        BY <4>1
      <4> QED BY <4>2, Zenon DEF Asks
    <3>3. union_range[r] \in Asks(r)
      BY Zenon DEF Asks
    <3> QED BY <3>1, <3>2, <3>3 DEF Unite, Range
  <2> QED BY <2>1, <2>2, Zenon
<1>5. \A g \in Asks(r)' : \/ g = union_range'[r] \/ g = reply_range'[r] \/ g \in Asks(r)
  BY <1>3, Zenon DEF Asks
<1> QED BY <1>1, <1>2, <1>4, <1>5, Zenon

(* A round for the receiver. *)
LEMMA ServeKept ==
    ASSUME TypeInv, TypeInv', MinInv, StagedInv, NEW r \in Receivers, SessionInv(r),
           ClientRead(r) \/ ClientReadBlocked(r), UNCHANGED <<receiver, history>>
    PROVE  SessionInv(r)'
<1>0. /\ next_seq \in Nat /\ rnext[r] \in Nat
      /\ \A i \in Ids : /\ record_seqs[i] \in Nat /\ rseqs[r][i] \in Int
                        /\ val[i] \in Nat /\ rval[r][i] \in Nat
  BY Zenon DEF TypeInv, SenderType, SourceType, ReceiverType
<1>1. /\ UNCHANGED <<spc, pkt, next_seq, record_seqs, val, conn, net, rval, rseqs, rnext, rout>>
      /\ spc # "down" /\ conn[r] \in {"accepted", "joined"}
  BY Zenon DEF ClientRead, ClientReadBlocked, Write, multi, source, receiver
<1>2. PICK re, from :
         /\ Round(r, re, from) /\ re \in Asks(r) /\ from \in Nat \ {0}
         /\ \/ re = reply_range[r]
            \/ conn[r] # "accepted"
  BY ServeShape, Zenon DEF SessionInv
<1>3. /\ \A m \in Replies(r) : m \in Replies(r)'
      /\ \A m \in Replies(r)' : \/ m \in Replies(r)
                                \/ \E to \in Ids : Replied(r, re, from, to) /\ m = Reply(to)
      /\ /\ Ordered(r)
         /\ \A m \in Replies(r), to \in Ids : Replied(r, re, from, to) /\ m.id = to => m.val <= val[to]
         => Ordered(r)'
  BY <1>2, RoundReplies, Zenon
<1>4. re.low \in Nat /\ re.high \in Nat
  BY <1>2, InAsks, Zenon
<1>5. ASSUME NEW to \in Ids, Replied(r, re, from, to)
      PROVE  /\ conn[r] = "joined" /\ record_seqs[to] < rnext[r] /\ record_seqs[to] < next_seq
             /\ ~Has(pkt, to)
             /\ Reply(to).seq = record_seqs[to] /\ Reply(to).id = to /\ Reply(to).val = val[to]
  <2>1. re.low < re.high /\ record_seqs[to] < re.high
    BY <1>5, Zenon DEF Replied, Wanted, IS_WITHIN_RANGE, IS_VALID_RANGE
  <2>2. conn[r] = "joined"
    <3>1. CASE conn[r] = "accepted"
      BY <1>2, <1>4, <2>1, <3>1 DEF SessionInv, FreshInv
    <3> QED BY <1>1, <3>1, Zenon
  <2>3. NumberInv(r)
    BY <2>2, Zenon DEF SessionInv, Session
  <2>4. re.high <= rnext[r] /\ rnext[r] <= next_seq
    BY <1>2, <2>3, Zenon DEF NumberInv
  <2>5. record_seqs[to] < rnext[r] /\ record_seqs[to] < next_seq
    BY <1>0, <1>4, <2>1, <2>4
  <2>6. ~Has(pkt, to)
    BY <1>0, <1>1, <2>5 DEF StagedInv
  <2> QED BY <2>2, <2>5, <2>6, Zenon DEF Reply
<1>6. KnownInv(r)'
  <2>1. ASSUME NEW m \in Replies(r)'
        PROVE  m.val <= val[m.id] /\ Newer(pkt, m.id, m.val)
    <3>1. CASE m \in Replies(r)
      BY <1>1, <3>1, Zenon DEF SessionInv, KnownInv, Behind
    <3>2. ASSUME NEW to \in Ids, Replied(r, re, from, to), m = Reply(to)
          PROVE  m.val <= val[m.id] /\ Newer(pkt, m.id, m.val)
      BY <1>0, <1>5, <3>2 DEF Newer, Has
    <3> QED BY <1>3, <3>1, <3>2, Zenon
  <2> QED BY <1>1, <2>1, Zenon DEF SessionInv, KnownInv, Behind
<1>7. FreshInv(r)'
  <2>1. CASE conn[r] = "accepted"
    <3>1. req[r] = <<>> /\ union_range[r].high = 0 /\ reply_range[r].high = 0 /\ Replies(r) = {}
      BY <2>1, Zenon DEF SessionInv, FreshInv
    <3>2. Replies(r)' = {}
      BY <1>3, <1>5, <2>1, <3>1, Zenon
    <3>3. ClientReadBlocked(r) /\ Outlived(r)
      BY <3>1 DEF ClientRead, Outlived, MinInv, SeqTypes
    <3>4. union_range'[r] = Invalid /\ req'[r] = req[r]
      BY <3>3, Domains, Zenon DEF ClientReadBlocked
    <3>5. reply_range'[r] = Invalid \/ reply_range'[r] = reply_range[r]
      BY <1>2, <1>5, <2>1, Zenon DEF Round, Waited, Completed, Idled
    <3> QED BY <1>1, <2>1, <3>1, <3>2, <3>4, <3>5 DEF FreshInv, Invalid, Range
  <2> QED BY <1>1, <2>1, Zenon DEF FreshInv
<1>8. ASSUME Session(r)' PROVE NumberInv(r)' /\ OrderInv(r)'
  <2>1. NumberInv(r) /\ OrderInv(r) /\ KnownInv(r)
    BY <1>1, <1>8, Zenon DEF SessionInv, Session
  <2>2. \A g \in Asks(r)' : g.high <= rnext[r]
    <3>1. \A g \in Asks(r)' : g.high = 0 \/ \E h \in Asks(r) : g.high = h.high
      BY <1>1, <1>2, ServeAsks, Zenon
    <3> QED BY <1>0, <2>1, <3>1 DEF NumberInv
  <2>3. \A m \in Replies(r)' : m.seq <= record_seqs[m.id] /\ m.seq < rnext[r]
    BY <1>0, <1>3, <1>5, <2>1 DEF NumberInv
  <2>4. NumberInv(r)'
    BY <1>1, <2>1, <2>2, <2>3, Zenon DEF NumberInv, Numbered
  <2>5. ASSUME NEW m \in Replies(r)'
        PROVE  /\ \A p \in net[r] : p.seq >= rnext[r] => Newer(p.recs, m.id, m.val)
               /\ m.seq > rseqs[r][m.id] => rval[r][m.id] <= m.val
    <3>1. CASE m \in Replies(r)
      BY <2>1, <3>1, Zenon DEF OrderInv
    <3>2. ASSUME NEW to \in Ids, Replied(r, re, from, to), m = Reply(to),
                 NEW p \in net[r], p.seq >= rnext[r]
          PROVE  Newer(p.recs, m.id, m.val)
      <4>1. p.seq \in Int /\ (Has(p.recs, to) => p.seq <= record_seqs[to])
        BY <2>1, InNet, Zenon DEF NumberInv, Numbered
      <4>2. ~Has(p.recs, to)
        BY <1>0, <1>5, <3>2, <4>1
      <4> QED BY <1>5, <3>2, <4>2, Zenon DEF Newer, Has
    <3>3. ASSUME NEW to \in Ids, Replied(r, re, from, to), m = Reply(to)
          PROVE  rval[r][m.id] <= m.val
      BY <1>5, <2>1, <3>3, Zenon DEF KnownInv, Behind
    <3> QED BY <1>3, <3>1, <3>2, <3>3, Zenon
  <2>6. Ordered(r)'
    BY <1>3, <2>1, Zenon DEF OrderInv, KnownInv, Behind
  <2> QED BY <1>1, <2>1, <2>4, <2>5, <2>6, Zenon DEF OrderInv
<1> QED BY <1>6, <1>7, <1>8, Zenon DEF SessionInv

(* A connection is opened, closed or dropped. *)
LEMMA OpenKept ==
    ASSUME TypeInv, NEW r \in Receivers, SessionInv(r),
           Open(r) \/ Close(r) \/ (TcpOnHup(r) /\ UNCHANGED <<receiver, history>>)
    PROVE  SessionInv(r)'
<1>1. Quiet /\ rval'[r] = rval[r] /\ out'[r] = out[r]
  BY Zenon DEF Quiet, Open, Connect, Close, Leave, TcpOnHup, sender, multi, client, source, receiver
<1>2. /\ conn'[r] \notin {"accepted", "joined", "dropped"}
      /\ conn'[r] = "connecting" => req'[r] = <<>> /\ rep'[r] = <<>>
      /\ net'[r] \subseteq net[r] /\ (rep'[r] = rep[r] \/ rep'[r] = <<>>)
  BY Domains, Zenon DEF Open, Connect, Close, Leave, Disconnect, Listening, TcpOnHup
<1>3. Replies(r)' \subseteq Replies(r)
  BY <1>1, <1>2 DEF Replies
<1> QED BY <1>1, <1>2, <1>3, Zenon DEF Quiet, SessionInv, KnownInv, Behind, FreshInv, Session

(* An accepted client has asked for nothing and has no reply under way. *)
LEMMA AcceptKept ==
    ASSUME TypeInv, NEW r \in Receivers, SessionInv(r), Accept(r)
    PROVE  SessionInv(r)'
<1>1. Quiet /\ rval'[r] = rval[r] /\ net'[r] = net[r] /\ req'[r] = req[r] /\ rep'[r] = rep[r]
  BY Zenon DEF Quiet, Accept, TcpOnAccept, source, receiver
<1>2. /\ conn'[r] = "accepted" /\ union_range'[r].high = 0 /\ reply_range'[r].high = 0
      /\ req[r] = <<>> /\ rep[r] = <<>> /\ out'[r] = <<>>
  BY Domains, Zenon DEF Accept, TcpOnAccept, SessionInv, FreshInv, Invalid, Range
<1>3. Replies(r)' = {}
  BY <1>1, <1>2 DEF Replies
<1> QED BY <1>1, <1>2, <1>3, Zenon DEF Quiet, SessionInv, KnownInv, Behind, FreshInv, Session

(* Joining forgets the numbers of the last session, and no value. *)
LEMMA JoinKept ==
    ASSUME TypeInv, NEW r \in Receivers, SessionInv(r), Joining(r)
    PROVE  SessionInv(r)'
<1>0. next_seq \in Nat /\ \A i \in Ids : record_seqs[i] \in Nat
  BY Zenon DEF TypeInv, SenderType
<1>1. /\ Quiet /\ rval' = rval /\ rep' = rep /\ req' = req
      /\ UNCHANGED <<out, union_range, reply_range>>
  BY Zenon DEF Quiet, Joining, Join, sender, multi, client, source
<1>2. /\ conn[r] = "accepted" /\ conn'[r] = "joined" /\ net'[r] = {} /\ rnext'[r] = 0 /\ rout'[r] = <<>>
      /\ rseqs'[r] = [i \in Ids |-> -1]
  BY Domains, Zenon DEF Joining, Join
<1>3. req[r] = <<>> /\ union_range[r].high = 0 /\ reply_range[r].high = 0 /\ Replies(r) = {}
  BY <1>2, Zenon DEF SessionInv, FreshInv
<1>4. Replies(r)' = {}
  BY <1>1, <1>3, Zenon DEF Replies
<1>5. \A g \in Asks(r)' : g.high = 0
  BY <1>1, <1>2, <1>3 DEF Asks
<1>6. Ordered(r)'
  BY <1>1, <1>3, Zenon DEF Ordered, Replies
<1>7. OrderInv(r)'
  BY <1>2, <1>4, <1>6, Zenon DEF OrderInv
<1>8. NumberInv(r)'
  <2>1. next_seq' = next_seq /\ record_seqs' = record_seqs
    BY <1>1, Zenon DEF Quiet
  <2>2. rnext'[r] <= next_seq'
    BY <1>0, <1>2, <2>1
  <2>3. \A i \in Ids : rseqs'[r][i] <= record_seqs'[i] /\ rseqs'[r][i] < rnext'[r]
    <3> TAKE i \in Ids
    <3>1. rseqs'[r][i] = -1
      BY <1>2, Zenon
    <3> QED BY <1>0, <1>2, <2>1, <3>1
  <2>4. \A g \in Asks(r)' : g.high <= rnext'[r]
    BY <1>2, <1>5
  <2> QED BY <1>2, <1>4, <2>2, <2>3, <2>4, Zenon DEF NumberInv
<1> QED BY <1>1, <1>2, <1>4, <1>7, <1>8, Zenon DEF Quiet, SessionInv, KnownInv, Behind, FreshInv

(* A request is sent. *)
LEMMA RequestKept ==
    ASSUME TypeInv, NEW r \in Receivers, SessionInv(r), TcpOnWriteR(r), UNCHANGED <<sender, history>>
    PROVE  SessionInv(r)'
<1>1. /\ Quiet
      /\ UNCHANGED <<rval, rseqs, rnext, rep, net, conn, out, union_range, reply_range>>
  BY Zenon DEF Quiet, TcpOnWriteR, sender, multi, client, source
<1>2. /\ rout[r] # <<>> /\ req'[r] = Append(req[r], rout[r][1]) /\ rout'[r] = <<>>
      /\ rout[r] \in Seq(Numbers) /\ req[r] \in Seq(Numbers)
      /\ conn[r] \notin {"connecting", "accepted"}
  BY Domains, Zenon DEF TcpOnWriteR, TypeInv, WireType, ReceiverType, Listening
<1>3. \A g \in Asks(r)' : g \in Asks(r)
  <2>1. 1 \in 1..Len(rout[r]) /\ rout[r][1] \in Numbers
    BY <1>2
  <2>2. PICK x \in Numbers : x = rout[r][1]
    BY <2>1, Zenon
  <2>3. /\ Len(req'[r]) = Len(req[r]) + 1 /\ Len(req[r]) \in Nat
        /\ \A k \in 1..Len(req[r]) : req'[r][k] = req[r][k]
        /\ req'[r][Len(req[r]) + 1] = x
    BY <1>2, <2>2
  <2>4. \A k \in 1..Len(req'[r]) : (k \in 1..Len(req[r]) /\ req'[r][k] = req[r][k]) \/ req'[r][k] = x
    BY <2>3
  <2> QED BY <1>1, <1>2, <2>1, <2>2, <2>4 DEF Asks
<1>4. Replies(r)' = Replies(r)
  BY <1>1, Zenon DEF Replies
<1> QED BY <1>1, <1>2, <1>3, <1>4, Zenon DEF Quiet, SessionInv, KnownInv, Behind, FreshInv, Session, NumberInv, Numbered,
        OrderInv, Ordered

(* Reading the first message. *)
LEMMA TailReplies ==
    ASSUME TypeInv, NEW r \in Receivers, rep[r] # <<>>, rep'[r] = Tail(rep[r]), out'[r] = out[r]
    PROVE  /\ \A m \in Replies(r)' : m \in Replies(r)
           /\ \A m \in Replies(r) : m \in Replies(r)' \/ m = rep[r][1]
           /\ Ordered(r) => Ordered(r)'
           /\ rep[r][1].seq >= 0 => rep[r][1] \in Replies(r)
           /\ Ordered(r) /\ rep[r][1].seq >= 0 =>
                \A m \in Replies(r)' : m.id = rep[r][1].id => rep[r][1].val <= m.val
<1>0. rep[r] \in Seq(Message)
  BY Zenon DEF TypeInv, WireType
<1>1. /\ Len(rep'[r]) = Len(rep[r]) - 1 /\ Len(rep[r]) \in Nat /\ 1 \in 1..Len(rep[r])
      /\ \A k \in 1..Len(rep'[r]) : rep'[r][k] = rep[r][k + 1]
  BY <1>0
<1>2. \A k \in 1..Len(rep'[r]) : k + 1 \in 1..Len(rep[r])
  BY <1>1
<1>3. \A m \in Replies(r)' : m \in Replies(r)
  BY <1>1, <1>2, Zenon DEF Replies
<1>4. \A k \in 1..Len(rep[r]) : k = 1 \/ \E j \in 1..Len(rep'[r]) : rep'[r][j] = rep[r][k]
  <2> SUFFICES ASSUME NEW k \in 1..Len(rep[r]), k # 1
               PROVE  \E j \in 1..Len(rep'[r]) : rep'[r][j] = rep[r][k]
    BY Zenon
  <2>1. k - 1 \in 1..Len(rep'[r]) /\ (k - 1) + 1 = k
    BY <1>1
  <2> QED BY <1>1, <2>1, Zenon
<1>5. \A m \in Replies(r) : m \in Replies(r)' \/ m = rep[r][1]
  BY <1>4, Zenon DEF Replies
<1>6. ASSUME Ordered(r) PROVE Ordered(r)'
  <2>1. ASSUME NEW j \in 1..Len(rep'[r]), NEW k \in 1..Len(rep'[r]), j < k,
               rep'[r][j].seq >= 0, rep'[r][k].seq >= 0, rep'[r][j].id = rep'[r][k].id
        PROVE  rep'[r][j].val <= rep'[r][k].val
    <3>1. j + 1 \in 1..Len(rep[r]) /\ k + 1 \in 1..Len(rep[r]) /\ j + 1 < k + 1
      BY <1>1, <2>1
    <3> QED BY <1>1, <1>6, <2>1, <3>1, Zenon DEF Ordered
  <2>2. ASSUME NEW j \in 1..Len(rep'[r]), NEW k \in 1..Len(out'[r]),
               rep'[r][j].seq >= 0, out'[r][k].seq >= 0, rep'[r][j].id = out'[r][k].id
        PROVE  rep'[r][j].val <= out'[r][k].val
    BY <1>1, <1>2, <1>6, <2>2, Zenon DEF Ordered
  <2> QED BY <2>1, <2>2, Zenon DEF Ordered
<1>7. rep[r][1].seq >= 0 => rep[r][1] \in Replies(r)
  BY <1>1, Zenon DEF Replies
<1>8. ASSUME Ordered(r), rep[r][1].seq >= 0, NEW m \in Replies(r)', m.id = rep[r][1].id
      PROVE  rep[r][1].val <= m.val
  <2>1. CASE \E k \in 1..Len(rep'[r]) : m = rep'[r][k]
    <3>1. PICK k \in 1..Len(rep'[r]) : m = rep'[r][k]
      BY <2>1, Zenon
    <3>2. 1 < k + 1 /\ k + 1 \in 1..Len(rep[r]) /\ m = rep[r][k + 1] /\ m.seq >= 0
      BY <1>1, <1>2, <1>8, <3>1 DEF Replies
    <3> QED BY <1>1, <1>8, <3>2, Zenon DEF Ordered
  <2>2. CASE \E k \in 1..Len(out[r]) : m = out[r][k]
    BY <1>1, <1>8, <2>2, Zenon DEF Ordered, Replies
  <2> QED BY <2>1, <2>2, Zenon DEF Replies
<1> QED BY <1>3, <1>5, <1>6, <1>7, <1>8, Zenon

(* The header of a message is read. *)
LEMMA HeaderKept ==
    ASSUME TypeInv, NEW r \in Receivers, SessionInv(r), TcpReadHeader(r), UNCHANGED <<sender, history>>
    PROVE  SessionInv(r)'
<1>1. /\ Quiet
      /\ UNCHANGED <<rval, rseqs, rnext, rout, out, union_range, reply_range>>
      /\ conn[r] \notin {"connecting", "accepted"} /\ rep[r] # <<>>
  BY Zenon DEF Quiet, TcpReadHeader, sender, multi, client, source, Listening
<1>2. CASE UNCHANGED <<conn, req, rep, net>>
  <2>1. KnownInv(r)' = KnownInv(r) /\ FreshInv(r)' = FreshInv(r) /\ Session(r)' = Session(r)
    BY <1>1, <1>2, Zenon DEF Quiet, KnownInv, Behind, FreshInv, Session, Replies
  <2>2. NumberInv(r)' = NumberInv(r)
    BY <1>1, <1>2, Zenon DEF Quiet, NumberInv, Numbered, Replies, Asks
  <2>3. OrderInv(r)' = OrderInv(r)
    <3>1. Replies(r)' = Replies(r)
      BY <1>1, <1>2, Zenon DEF Replies
    <3>2. Ordered(r)' = Ordered(r)
      BY <1>1, <1>2, Zenon DEF Ordered
    <3> QED BY <1>1, <1>2, <3>1, <3>2, Zenon DEF OrderInv
  <2> QED BY <2>1, <2>2, <2>3, Zenon DEF SessionInv
<1>3. CASE rep'[r] = Tail(rep[r]) /\ UNCHANGED <<conn, req, net>>
  <2>1. /\ \A m \in Replies(r)' : m \in Replies(r)
        /\ Ordered(r) => Ordered(r)'
    BY <1>1, <1>3, TailReplies, Zenon
  <2>2. Asks(r)' = Asks(r)
    BY <1>1, <1>3, Zenon DEF Asks
  <2> QED BY <1>1, <1>3, <2>1, <2>2, Zenon DEF Quiet, SessionInv, KnownInv, Behind, FreshInv, Session,
          NumberInv, Numbered, OrderInv
<1>4. CASE Disconnect(r)
  <2>1. /\ conn'[r] \in {"left", "closed"} /\ net'[r] = {} /\ rep' = rep
    BY <1>4, Domains, Zenon DEF Disconnect
  <2>2. Replies(r)' = Replies(r)
    BY <1>1, <2>1, Zenon DEF Replies
  <2> QED BY <1>1, <2>1, <2>2, Zenon DEF Quiet, SessionInv, KnownInv, Behind, FreshInv, Session
<1> QED BY <1>2, <1>3, <1>4, Domains, Zenon DEF TcpReadHeader, wires

(* The body of a reply is read: no record goes back. *)
LEMMA BodyKept ==
    ASSUME TypeInv, NEW r \in Receivers, SessionInv(r), TcpReadBody(r), UNCHANGED <<sender, history>>
    PROVE  /\ SessionInv(r)'
           /\ Session(r) => \A i \in Ids : rval[r][i] <= rval'[r][i]
<1>0. rnext[r] \in Nat /\ \A i \in Ids : rval[r][i] \in Nat /\ rseqs[r][i] \in Int /\ record_seqs[i] \in Nat
  BY Zenon DEF TypeInv, ReceiverType, SenderType
<1>1. /\ Quiet
      /\ UNCHANGED <<rnext, rout, out, union_range, reply_range, conn, req, net>>
      /\ conn[r] \notin {"connecting", "accepted"} /\ rep'[r] = Tail(rep[r])
  BY Domains, Zenon DEF Quiet, TcpReadBody, sender, multi, client, source, Listening
<1>2. PICK m : m = rep[r][1]
  BY Zenon
<1>3. /\ rep[r] # <<>> /\ m.seq \in Nat /\ m.id \in Ids /\ m.val \in Nat
      /\ \A i \in Ids : \/ rval'[r][i] = rval[r][i] /\ rseqs'[r][i] = rseqs[r][i]
                        \/ /\ i = m.id /\ m.seq > rseqs[r][i]
                           /\ rval'[r][i] = m.val /\ rseqs'[r][i] = m.seq
  BY <1>2, BodyRead
<1>4. /\ \A n \in Replies(r)' : n \in Replies(r)
      /\ Ordered(r) => Ordered(r)'
      /\ m \in Replies(r)
      /\ Ordered(r) => \A n \in Replies(r)' : n.id = m.id => m.val <= n.val
  <2>1. m.seq >= 0
    BY <1>3, Orders, Zenon
  <2>2. out'[r] = out[r]
    BY <1>1, Zenon
  <2> QED BY <1>1, <1>2, <1>3, <2>1, <2>2, TailReplies, Zenon
<1>5. Asks(r)' = Asks(r)
  BY <1>1, Zenon DEF Asks
<1>6. KnownInv(r)'
  BY <1>1, <1>3, <1>4, Zenon DEF Quiet, SessionInv, KnownInv, Behind
<1>7. FreshInv(r)'
  BY <1>1, Zenon DEF Quiet, SessionInv, FreshInv
<1>8. ASSUME Session(r) PROVE NumberInv(r)' /\ OrderInv(r)' /\ \A i \in Ids : rval[r][i] <= rval'[r][i]
  <2>1. NumberInv(r) /\ OrderInv(r)
    BY <1>8, Zenon DEF SessionInv
  <2>2. m.seq <= record_seqs[m.id] /\ m.seq < rnext[r]
    BY <1>4, <2>1, Zenon DEF NumberInv
  <2>3. \A i \in Ids : rseqs'[r][i] <= record_seqs[i] /\ rseqs'[r][i] < rnext[r]
    BY <1>3, <2>1, <2>2, Zenon DEF NumberInv
  <2>4. NumberInv(r)'
    BY <1>1, <1>4, <1>5, <2>1, <2>3, Zenon DEF Quiet, NumberInv, Numbered
  <2>5. \A p \in net[r] : p.seq >= rnext[r] => \A i \in Ids : Newer(p.recs, i, rval'[r][i])
    BY <1>3, <1>4, <2>1, Zenon DEF OrderInv
  <2>6. ASSUME NEW n \in Replies(r)', n.seq > rseqs'[r][n.id]
        PROVE  rval'[r][n.id] <= n.val
    <3>1. n \in Replies(r) /\ n.id \in Ids
      BY <1>4, InReplies, Zenon
    <3>2. CASE rval'[r][n.id] = rval[r][n.id] /\ rseqs'[r][n.id] = rseqs[r][n.id]
      BY <2>1, <2>6, <3>1, <3>2, Zenon DEF OrderInv
    <3>3. CASE n.id = m.id /\ rval'[r][n.id] = m.val
      BY <1>4, <2>1, <3>3, Zenon DEF OrderInv
    <3> QED BY <1>3, <3>1, <3>2, <3>3, Zenon
  <2>7. Ordered(r)'
    BY <1>4, <2>1, Zenon DEF OrderInv
  <2>8. OrderInv(r)'
    BY <1>1, <1>4, <2>1, <2>5, <2>6, <2>7, Zenon DEF OrderInv
  <2>9. m.seq > rseqs[r][m.id] => rval[r][m.id] <= m.val
    BY <1>4, <2>1, Zenon DEF OrderInv
  <2> QED BY <1>0, <1>3, <2>4, <2>8, <2>9
<1> QED BY <1>1, <1>6, <1>7, <1>8, Zenon DEF SessionInv, Session

(* What a packet or heartbeat does to its receiver. *)
LEMMA Heard ==
    ASSUME TypeInv, NEW r \in Receivers, NEW p \in net[r], Hearing(r, p)
    PROVE  /\ Quiet /\ r \in Listening
           /\ UNCHANGED <<conn, req, rep, net, out, union_range, reply_range, reply_id>>
           /\ \E seq \in Nat :
                /\ seq >= rnext[r]
                /\ \/ seq = p.seq /\ rnext'[r] = seq + 1
                   \/ /\ seq = -p.seq /\ rnext'[r] = seq
                      /\ rval'[r] = rval[r] /\ rseqs'[r] = rseqs[r]
                /\ \/ rout'[r] = rout[r] /\ seq = rnext[r]
                   \/ rout'[r] = <<Range(rnext[r], seq)>>
           /\ \A i \in Ids :
                 \/ rval'[r][i] = rval[r][i] /\ rseqs'[r][i] = rseqs[r][i]
                 \/ /\ rseqs'[r][i] = p.seq /\ p.seq >= rnext[r] /\ Has(p.recs, i)
                    /\ \E k \in 1..Len(p.recs) : p.recs[k].id = i /\ rval'[r][i] = p.recs[k].val
<1>0. p \in Packet /\ p.seq \in Int /\ rnext[r] \in Nat
  BY InNet, Zenon DEF TypeInv, ReceiverType
<1>1. Quiet /\ r \in Listening /\ UNCHANGED <<conn, req, rep, net, out, union_range, reply_range, reply_id>>
  BY Zenon DEF Quiet, Hearing, McastRead, McastHeartbeat, sender, multi, client, source, wires
<1>2. CASE McastRead(r, p)
  <2>1. p.seq >= rnext[r] /\ p.seq \in Nat /\ rnext'[r] = p.seq + 1
    BY <1>0, <1>2, Domains DEF McastRead
  <2>2. (rout'[r] = rout[r] /\ p.seq = rnext[r]) \/ rout'[r] = <<Range(rnext[r], p.seq)>>
    BY <1>0, <1>2, <2>1, Domains DEF McastRead, RequestGap
  <2>3. Apply(r, p)
    BY <1>2, Zenon DEF McastRead
  <2>4. \A i \in Ids :
           \/ rval'[r][i] = rval[r][i] /\ rseqs'[r][i] = rseqs[r][i]
           \/ /\ rseqs'[r][i] = p.seq
              /\ \E k \in LastOf(p, i) : rval'[r][i] = p.recs[k].val
    BY <1>0, <2>3, Applied, Zenon
  <2>5. \A i \in Ids : \A k \in LastOf(p, i) : k \in 1..Len(p.recs) /\ p.recs[k].id = i
    BY Zenon DEF LastOf
  <2>6. \A i \in Ids :
           \/ rval'[r][i] = rval[r][i] /\ rseqs'[r][i] = rseqs[r][i]
           \/ /\ rseqs'[r][i] = p.seq /\ Has(p.recs, i)
              /\ \E k \in 1..Len(p.recs) : p.recs[k].id = i /\ rval'[r][i] = p.recs[k].val
    BY <2>4, <2>5, Zenon DEF Has
  <2> QED BY <1>1, <2>1, <2>2, <2>6, Zenon
<1>3. CASE McastHeartbeat(r, p)
  <2>1. -p.seq >= rnext[r] /\ -p.seq \in Nat /\ rnext'[r] = -p.seq /\ rval' = rval /\ rseqs' = rseqs
    BY <1>0, <1>3, Domains DEF McastHeartbeat
  <2>2. rout'[r] = <<Range(rnext[r], -p.seq)>>
    BY <1>0, <1>3, <2>1, Domains, Zenon DEF McastHeartbeat, RequestGap
  <2> QED BY <1>1, <2>1, <2>2, Zenon
<1> QED BY <1>2, <1>3, Zenon DEF Hearing

(* A packet or a heartbeat is read: no record goes back. *)
LEMMA HearKept ==
    ASSUME TypeInv, NEW r \in Receivers, SessionInv(r), NEW p \in net[r], Hearing(r, p)
    PROVE  /\ SessionInv(r)'
           /\ Session(r) => \A i \in Ids : rval[r][i] <= rval'[r][i]
<1>0. /\ rnext[r] \in Nat /\ p.seq \in Int /\ next_seq \in Nat
      /\ \A i \in Ids : rval[r][i] \in Nat /\ rseqs[r][i] \in Int /\ record_seqs[i] \in Nat
  BY InNet, Zenon DEF TypeInv, ReceiverType, SenderType
<1>1. /\ Quiet /\ conn[r] \notin {"connecting", "accepted"}
      /\ UNCHANGED <<conn, req, rep, net, out, union_range, reply_range>>
  BY Heard, Zenon DEF Listening
<1>2. PICK seq \in Nat :
         /\ seq >= rnext[r]
         /\ \/ seq = p.seq /\ rnext'[r] = seq + 1
            \/ /\ seq = -p.seq /\ rnext'[r] = seq
               /\ rval'[r] = rval[r] /\ rseqs'[r] = rseqs[r]
         /\ rout'[r] = rout[r] \/ rout'[r] = <<Range(rnext[r], seq)>>
  BY Heard
<1>3. \A i \in Ids :
         \/ rval'[r][i] = rval[r][i] /\ rseqs'[r][i] = rseqs[r][i]
         \/ /\ rseqs'[r][i] = p.seq /\ p.seq >= rnext[r] /\ Has(p.recs, i)
            /\ \E k \in 1..Len(p.recs) : p.recs[k].id = i /\ rval'[r][i] = p.recs[k].val
  BY Heard, Zenon
<1>4. Replies(r)' = Replies(r) /\ (Ordered(r) <=> Ordered(r)')
  BY <1>1, ZenonT(30) DEF Replies, Ordered
<1>5. KnownInv(r)'
  BY <1>1, <1>3, <1>4 DEF Quiet, SessionInv, KnownInv, Behind
<1>6. FreshInv(r)'
  BY <1>1, Zenon DEF Quiet, SessionInv, FreshInv
<1>7. ASSUME Session(r) PROVE NumberInv(r)' /\ OrderInv(r)' /\ \A i \in Ids : rval[r][i] <= rval'[r][i]
  <2>1. NumberInv(r) /\ OrderInv(r)
    BY <1>7, Zenon DEF SessionInv
  <2>2. p.seq < next_seq /\ -p.seq <= next_seq /\ \A i \in Ids : Has(p.recs, i) => p.seq <= record_seqs[i]
    BY <2>1, Zenon DEF NumberInv, Numbered
  <2>3. rnext[r] <= rnext'[r] /\ rnext'[r] <= next_seq /\ seq <= rnext'[r] /\ rnext'[r] \in Nat
    BY <1>0, <1>2, <2>2
  <2>4. \A g \in Asks(r)' : g \in Asks(r) \/ g.high = seq
    <3>1. CASE rout'[r] = rout[r]
      BY <1>1, <3>1, Zenon DEF Asks
    <3>2. CASE rout'[r] = <<Range(rnext[r], seq)>>
      <4>1. Len(rout'[r]) = 1 /\ rout'[r][1].high = seq
        BY <3>2 DEF Range
      <4>2. \A k \in 1..Len(rout'[r]) : rout'[r][k].high = seq
        BY <4>1
      <4> QED BY <1>1, <4>2, Zenon DEF Asks
    <3> QED BY <1>2, <3>1, <3>2, Zenon
  <2>5. \A g \in Asks(r)' : g.high <= rnext'[r]
    <3>1. \A g \in Asks(r) : g.high \in Nat /\ g.high <= rnext[r]
      BY <2>1, InAsks, Zenon DEF NumberInv
    <3> QED BY <1>0, <2>3, <2>4, <3>1
  <2>6. \A i \in Ids : rseqs'[r][i] <= record_seqs[i] /\ rseqs'[r][i] < rnext'[r]
    <3>1. \A i \in Ids : rseqs[r][i] <= record_seqs[i] /\ rseqs[r][i] < rnext[r]
      BY <2>1, Zenon DEF NumberInv
    <3>2. p.seq >= rnext[r] => p.seq < rnext'[r] \/ (rval'[r] = rval[r] /\ rseqs'[r] = rseqs[r])
      BY <1>0, <1>2
    <3> QED BY <1>0, <1>3, <2>2, <2>3, <3>1, <3>2
  <2>7. \A m \in Replies(r)' : m.seq <= record_seqs[m.id] /\ m.seq < rnext'[r] /\ m.seq < rnext[r]
    BY <1>0, <1>4, <2>1, <2>3, InReplies DEF NumberInv
  <2>8. NumberInv(r)'
    BY <1>1, <2>1, <2>3, <2>5, <2>6, <2>7, Zenon DEF Quiet, NumberInv, Numbered
  <2>9. ASSUME NEW q \in net[r], q.seq >= rnext'[r], NEW i \in Ids
        PROVE  Newer(q.recs, i, rval'[r][i])
    <3>0. q.seq \in Int /\ q.seq >= rnext[r]
      BY <1>0, <2>3, <2>9, InNet
    <3>1. CASE rval'[r][i] = rval[r][i]
      BY <2>1, <3>0, <3>1, Zenon DEF OrderInv
    <3>2. CASE rval'[r][i] # rval[r][i]
      <4>1. PICK k \in 1..Len(p.recs) : p.recs[k].id = i /\ rval'[r][i] = p.recs[k].val
        BY <1>3, <3>2, Zenon
      <4>2. rnext'[r] = p.seq + 1
        BY <1>2, <3>2, Zenon
      <4>3. p.seq < q.seq
        BY <1>0, <2>9, <3>0, <4>2
      <4> QED BY <2>1, <4>1, <4>3, Zenon DEF OrderInv
    <3> QED BY <3>1, <3>2, Zenon
  <2>10. ASSUME NEW q \in net[r], q.seq >= rnext'[r], NEW m \in Replies(r)
         PROVE  Newer(q.recs, m.id, m.val)
    <3>0. q.seq >= rnext[r]
      BY <1>0, <2>3, <2>10, InNet
    <3> QED BY <2>1, <3>0, Zenon DEF OrderInv
  <2>11. ASSUME NEW m \in Replies(r), m.seq > rseqs'[r][m.id]
         PROVE  rval'[r][m.id] <= m.val
    <3>1. m.id \in Ids /\ m.seq \in Nat /\ m.seq < rnext[r]
      BY <1>4, <2>7, InReplies, Zenon
    <3>2. rval'[r][m.id] = rval[r][m.id] /\ rseqs'[r][m.id] = rseqs[r][m.id]
      BY <1>0, <1>3, <2>11, <3>1
    <3> QED BY <2>1, <2>11, <3>2, Zenon DEF OrderInv
  <2>12. OrderInv(r)'
    BY <1>1, <1>4, <2>1, <2>9, <2>10, <2>11, Zenon DEF OrderInv
  <2>13. ASSUME NEW i \in Ids PROVE rval[r][i] <= rval'[r][i]
    <3>1. CASE rval'[r][i] = rval[r][i]
      BY <1>0, <3>1
    <3>2. CASE p.seq >= rnext[r] /\ \E k \in 1..Len(p.recs) : p.recs[k].id = i /\ rval'[r][i] = p.recs[k].val
      BY <2>1, <3>2, Zenon DEF OrderInv, Newer
    <3> QED BY <1>3, <3>1, <3>2, Zenon
  <2> QED BY <2>8, <2>12, <2>13, Zenon
<1> QED BY <1>1, <1>5, <1>6, <1>7, Zenon DEF SessionInv, Session

(* At the start there is no session. *)
LEMMA SessionInit == Init => \A r \in Receivers : SessionInv(r)
BY DEF Init, WireInit, SenderInit, SenderFresh, ReceiverInit, SessionInv, KnownInv, Behind, Newer,
       FreshInv, Session, Replies

(* The handlers of a receiver. *)
LEMMA ReceivingKept ==
    ASSUME TypeInv, TypeInv', NEW r \in Receivers, SessionInv(r), Receiving(r)
    PROVE  /\ SessionInv(r)'
           /\ conn[r] # "outlived" => \A i \in Ids : ~(rval'[r][i] < rval[r][i])
<1>0. \A i \in Ids : rval[r][i] \in Nat
  BY Zenon DEF TypeInv, ReceiverType
<1>1. CASE Joining(r)
  <2>1. rval' = rval /\ SessionInv(r)'
    BY <1>1, JoinKept, Zenon DEF Joining, Join
  <2> QED BY <1>0, <2>1
<1>2. ASSUME NEW p \in net[r], Hearing(r, p)
      PROVE  /\ SessionInv(r)'
             /\ conn[r] # "outlived" => \A i \in Ids : ~(rval'[r][i] < rval[r][i])
  <2>1. conn[r] # "outlived" => Session(r)
    BY <1>2, Heard, Zenon DEF Listening, Session
  <2>2. \A i \in Ids : rval'[r][i] \in Nat
    BY Zenon DEF TypeInv, ReceiverType
  <2> QED BY <1>0, <1>2, <2>1, <2>2, HearKept
<1>3. CASE (TcpOnWriteR(r) \/ TcpReadHeader(r)) /\ UNCHANGED <<sender, history>>
  BY <1>0, <1>3, RequestKept, HeaderKept DEF TcpOnWriteR, TcpReadHeader
<1>4. CASE TcpReadBody(r) /\ UNCHANGED <<sender, history>>
  <2>1. conn[r] # "outlived" => Session(r)
    BY <1>4, Zenon DEF TcpReadBody, Listening, Session
  <2>2. \A i \in Ids : rval'[r][i] \in Nat
    BY Zenon DEF TypeInv, ReceiverType
  <2> QED BY <1>0, <1>4, <2>1, <2>2, BodyKept
<1> QED BY <1>1, <1>2, <1>3, <1>4, Zenon DEF Receiving

(* SessionInv is inductive, and only an outlived session goes back. *)
LEMMA SessionStep ==
    ASSUME TypeInv, TypeInv', MinInv, StagedInv, Progress, [Next]_vars,
           NEW r \in Receivers, SessionInv(r)
    PROVE  /\ SessionInv(r)'
           /\ conn[r] # "outlived" => \A i \in Ids : ~(rval'[r][i] < rval[r][i])
<1>0. \A i \in Ids : rval[r][i] \in Nat
  BY Zenon DEF TypeInv, ReceiverType
<1>1. CASE Told(r)
  BY <1>0, <1>1, ToldKept DEF Told
<1>2. CASE Accept(r)
  <2>1. SessionInv(r)'
    BY <1>2, AcceptKept, Zenon
  <2>2. rval' = rval
    BY <1>2, Zenon DEF Accept, receiver
  <2> QED BY <1>0, <2>1, <2>2
<1>3. CASE Serving(r)
  BY <1>0, <1>3, ServeKept, OpenKept DEF Serving, receiver
<1>4. CASE Open(r) \/ Close(r)
  BY <1>0, <1>4, OpenKept DEF Open, Connect, Close, Leave, receiver
<1> QED BY <1>1, <1>2, <1>3, <1>4, ReceivingKept, ToldStep, Zenon

(* The inductive invariant holds at the start. *)
LEMMA SessionsInit == Init => SessionsInv
BY TypeInit, MinInit, StagedInit, SessionInit DEF SessionsInv

(* The inductive invariant is kept by every step. *)
LEMMA SessionsStep ==
    ASSUME SessionsInv, [Next]_vars
    PROVE  /\ SessionsInv' /\ Progress
           /\ \A r \in Receivers, i \in Ids : rval'[r][i] < rval[r][i] => conn[r] = "outlived"
<1>1. TypeInv' /\ MinInv'
  BY TypeStep, MinStep DEF SessionsInv
<1>2. \A q \in Receivers : conn[q] = "dropped" => spc = "down"
  BY DEF SessionsInv, SessionInv, FreshInv
<1>3. StagedInv' /\ Progress
  BY <1>2, StagedStep DEF SessionsInv
<1>4. ASSUME NEW r \in Receivers
      PROVE  /\ SessionInv(r)'
             /\ \A i \in Ids : rval'[r][i] < rval[r][i] => conn[r] = "outlived"
  BY <1>1, <1>3, SessionStep DEF SessionsInv
<1> QED BY <1>1, <1>3, <1>4 DEF SessionsInv

(* For any subscribers, records, packet size and capacities: whatever is   *)
(* lost, late, doubled or restarted, a subscriber's record never goes back *)
(* to an earlier value, unless the subscriber has not noticed that its     *)
(* sender was replaced (update_record of mcast_on_read and tcp_on_read).   *)
THEOREM NoRegressTheorem == Spec => NoRegress
<1>1. SessionsInv /\ [Next]_vars =>
        [\A r \in Receivers, i \in Ids : rval'[r][i] < rval[r][i] => conn[r] = "outlived"]_vars
  BY SessionsStep
<1>2. SessionsInv /\ [Next]_vars => SessionsInv'
  BY SessionsStep
<1> QED BY <1>1, <1>2, SessionsInit, PTL DEF Spec, NoRegress

-----------------------------------------------------------------------------
(* Nothing is forgotten. *)

(* A record that is staged again has its new place as its last. *)
LEMMA EndedAppend ==
    ASSUME NEW s \in Seq(Rec), NEW x \in Rec, Ended(s)
    PROVE  Ended(Append(s, x))
<1> DEFINE t == Append(s, x)
<1>1. /\ Len(t) = Len(s) + 1 /\ Len(s) \in Nat /\ t[Len(s) + 1] = x
      /\ \A k \in 1..Len(s) : t[k] = s[k]
  OBVIOUS
<1>2. \A i \in Ids : Has(t, i) <=> Has(s, i) \/ i = x.id
  BY Appended, Zenon
<1> HIDE DEF t
<1> SUFFICES ASSUME NEW i \in Ids, Has(t, i)
             PROVE  \E k \in 1..Len(t) : t[k].id = i /\ Final(t, k)
  BY Zenon DEF Ended, t
<1>3. CASE i = x.id
  <2>1. Len(s) + 1 \in 1..Len(t) /\ Final(t, Len(s) + 1)
    BY <1>1 DEF Final
  <2> QED BY <1>1, <1>3, <2>1, Zenon
<1>4. CASE i # x.id
  <2>1. PICK k \in 1..Len(s) : s[k].id = i /\ Final(s, k)
    BY <1>2, <1>4, Zenon DEF Ended
  <2>2. k \in 1..Len(t) /\ t[k].id = i /\ Final(t, k)
    BY <1>1, <1>4, <2>1 DEF Final
  <2> QED BY <2>2, Zenon
<1> QED BY <1>3, <1>4, Zenon

(* Packets are put together by appending, and travel whole. *)
LEMMA EndedStep ==
    ASSUME TypeInv, EndedInv, [Next]_vars
    PROVE  EndedInv'
<1>1. \A recs : recs = <<>> => Ended(recs)
  BY DEF Ended, Has
<1>2. Ended(pkt)'
  <2>1. pkt \in Seq(Rec) /\ <<>> \in Seq(Rec) /\ val \in [Ids -> Nat]
    BY Zenon, TypePackets DEF TypeInv, SenderType, SourceType
  <2>2. ASSUME NEW before \in {pkt, <<>>}, Id \in Ids,
               pkt' = Append(before, [id |-> Id, val |-> val[Id]])
        PROVE  Ended(pkt')
    <3>1. [id |-> Id, val |-> val[Id]] \in Rec
      BY <2>1, <2>2 DEF Rec
    <3>2. before \in Seq(Rec) /\ Ended(before)
      BY <1>1, <2>1, <2>2, Zenon DEF EndedInv
    <3> QED BY <2>2, <3>1, <3>2, EndedAppend, Zenon
  <2>3. Ended(pkt')
    BY <1>1, <2>2, PacketStep, Zenon DEF EndedInv
  <2> QED BY <2>3, Zenon DEF Ended, Has, Final
<1>3. ASSUME NEW r \in Receivers, NEW p \in net'[r]
      PROVE  Ended(p.recs)
  <2>1. CASE Told(r)
    <3>1. DataPacket.recs = pkt /\ Heartbeat.recs = <<>>
      BY Zenon DEF DataPacket, Heartbeat
    <3>2. p \in net[r] \/ p = DataPacket \/ p = Heartbeat
      BY <1>3, <2>1, Zenon DEF Told
    <3> QED BY <1>1, <3>1, <3>2, Zenon DEF EndedInv
  <2>2. CASE Accept(r) \/ Serving(r) \/ Open(r) \/ Close(r) \/ Receiving(r)
    <3>1. net'[r] = net[r] \/ net'[r] = {}
      BY <2>2, Domains, Zenon DEF Accept, TcpOnAccept, Serving, ClientRead, ClientReadBlocked, TcpOnHup,
         Write, Open, Connect, Close, Leave, Disconnect, Receiving, Joining, Join, Hearing, McastRead,
         McastHeartbeat, TcpOnWriteR, TcpReadHeader, TcpReadBody, wires
    <3> QED BY <1>3, <3>1, Zenon DEF EndedInv
  <2> QED BY <2>1, <2>2, ToldStep, Zenon
<1> QED BY <1>2, <1>3, Zenon DEF EndedInv, Ended, Has, Final

(* A packet, a farewell or a step of another receiver. *)
LEMMA ToldRemembers ==
    ASSUME TypeInv, TypeInv', StagedInv, Progress, NEW r \in Receivers, Told(r), SessionInv(r), SessionInv(r)',
           NEW i \in Ids, Remembers(r, i)
    PROVE  Remembers(r, i)'
<1> SUFFICES ASSUME conn'[r] = "joined", Settled(i)' PROVE ForgetInv(r, i)'
  BY Zenon DEF Remembers
<1>0. /\ next_seq \in Nat /\ next_seq' \in Nat /\ record_seqs[i] \in Nat /\ record_seqs'[i] \in Nat
      /\ rseqs'[r][i] \in Int /\ rnext'[r] \in Nat
  BY Zenon DEF TypeInv, SenderType, ReceiverType
<1>1. conn[r] = "joined" /\ Session(r) /\ Session(r)' /\ NumberInv(r)'
  BY Zenon DEF Told, SessionInv, Session
<1>2. Advance(i)
  BY <1>1, Zenon DEF Progress, Lasts
<1>3. CASE record_seqs'[i] = next_seq'
  <2>1. /\ rnext'[r] <= next_seq' /\ rseqs'[r][i] < rnext'[r]
        /\ \A m \in Replies(r)' : m.seq < rnext'[r]
        /\ \A p \in net'[r] : p.seq < next_seq'
    BY <1>1, Zenon DEF NumberInv, Numbered
  <2>2. \A m \in Replies(r)' : m.seq \in Nat
    BY InReplies, RepliesToldKept, Zenon
  <2>3. \A p \in net'[r] : p.seq \in Int
    <3>1. \A p \in net'[r] : p \in Packet
      BY Zenon DEF TypeInv, WireType
    <3> QED BY <3>1, InPacket, Zenon
  <2>4. \A m \in Replies(r)' : m.seq # record_seqs'[i]
    BY <1>0, <1>3, <2>1, <2>2
  <2>5. \A p \in net'[r] : p.seq # record_seqs'[i]
    BY <1>0, <1>3, <2>1, <2>3
  <2>6. rseqs'[r][i] # record_seqs'[i] /\ ~(record_seqs'[i] < rnext'[r])
    BY <1>0, <1>3, <2>1
  <2> QED BY <2>4, <2>5, <2>6, Zenon DEF ForgetInv
<1>4. CASE record_seqs'[i] = record_seqs[i] /\ Settled(i) /\ val'[i] = val[i]
  <2>1. ForgetInv(r, i)
    BY <1>1, <1>4, Zenon DEF Remembers
  <2>2. /\ Replies(r)' = Replies(r)
        /\ rval'[r] = rval[r] /\ rseqs'[r] = rseqs[r] /\ rnext'[r] = rnext[r] /\ rout'[r] = rout[r]
        /\ overwritten'[r] = overwritten[r] /\ req'[r] = req[r]
        /\ union_range'[r] = union_range[r] /\ reply_range'[r] = reply_range[r]
        /\ reply_id'[r] = reply_id[r]
    BY RepliesToldKept, Zenon DEF Told
  <2>3. Asked(r, i) => Asked(r, i)'
    BY <1>4, <2>2, Zenon DEF Asked
  <2>4. ASSUME NEW p \in net'[r], p.seq = record_seqs[i], NEW k \in LastOf(p, i)
        PROVE  p.recs[k].val = val[i]
    <3>1. CASE p \in net[r]
      BY <2>1, <2>4, <3>1, Zenon DEF ForgetInv
    <3>2. CASE p = DataPacket /\ spc # "down"
      <4>1. p.recs = pkt /\ p.seq = next_seq
        BY <3>2, Zenon DEF DataPacket
      <4>2. k \in 1..Len(pkt) /\ pkt[k].id = i /\ Final(pkt, k)
        BY <2>4, <4>1, Zenon DEF LastOf, Final
      <4>3. pkt[k].val = record_revs[i] /\ Has(pkt, i)
        BY <3>2, <4>2, Zenon DEF StagedInv, Has
      <4>4. val[i] = record_revs[i]
        BY <1>4, <3>2, <4>3, Zenon DEF StagedInv
      <4> QED BY <4>1, <4>3, <4>4, Zenon
    <3>3. CASE p = Heartbeat
      BY <2>4, <3>3 DEF Heartbeat, LastOf
    <3> QED BY <3>1, <3>2, <3>3, Zenon DEF Told, Sent
  <2> QED BY <1>4, <2>1, <2>2, <2>3, <2>4, Zenon DEF ForgetInv
<1> QED BY <1>2, <1>3, <1>4, Zenon DEF Advance

(* A round answers or keeps what was asked. *)
LEMMA RoundAsked ==
    ASSUME TypeInv, NEW r \in Receivers, NEW re \in Asks(r), NEW from \in Nat \ {0}, Round(r, re, from),
           NEW i \in Ids, IS_WITHIN_RANGE(re, record_seqs[i]), from <= i, val[i] # 0,
           record_seqs' = record_seqs
    PROVE  \/ IS_WITHIN_RANGE(reply_range'[r], record_seqs'[i]) /\ reply_id'[r] <= i
           \/ Replied(r, re, from, i)
<1>0. re.low \in Nat /\ re.high \in Nat /\ record_seqs[i] \in Nat /\ i \in Nat
  BY InAsks DEF TypeInv, SenderType, Ids
<1>1. Wanted(re, i)
  BY Zenon DEF Wanted
<1>2. IS_VALID_RANGE(re)
  BY <1>0 DEF IS_WITHIN_RANGE, IS_VALID_RANGE
<1>3. CASE Waited(r, re, from)
  BY <1>3, Zenon DEF Waited
<1>4. ASSUME NEW to \in Ids, Replied(r, re, from, to), to # i
      PROVE  IS_WITHIN_RANGE(reply_range'[r], record_seqs'[i]) /\ reply_id'[r] <= i
  <2>1. to \in Nat /\ ~(i < to)
    BY <1>1, <1>4 DEF Replied, Ids
  <2>2. to + 1 <= i
    BY <1>0, <1>4, <2>1
  <2> QED BY <1>4, <2>2, Zenon DEF Replied
<1> QED BY <1>1, <1>2, <1>3, <1>4, Zenon DEF Round, Completed, Idled

(* A round answers what was asked or goes on being asked. *)
LEMMA ServeRemembers ==
    ASSUME TypeInv, MinInv, NEW r \in Receivers, SessionInv(r),
           ClientRead(r) \/ ClientReadBlocked(r), UNCHANGED <<receiver, history>>,
           NEW i \in Ids, Remembers(r, i)
    PROVE  Remembers(r, i)'
<1>0. record_seqs[i] \in Nat /\ min_seq \in Nat
  BY Zenon DEF TypeInv, SenderType, MinInv, SeqTypes
<1>1. /\ UNCHANGED <<record_seqs, record_revs, val, queue, wid, last_q_idx, abandoned, conn, net,
                     rval, rseqs, rnext, rout, overwritten>>
      /\ spc # "down"
  BY Zenon DEF ClientRead, ClientReadBlocked, Write, multi, source, receiver, history
<1>2. Settled(i)' <=> Settled(i)
  BY <1>1, Zenon DEF Settled, Unread
<1> SUFFICES ASSUME conn[r] = "joined", Settled(i), ForgetInv(r, i) PROVE ForgetInv(r, i)'
  BY <1>1, <1>2, Zenon DEF Remembers
<1>3. PICK re, from :
         /\ Round(r, re, from) /\ re \in Asks(r) /\ from \in Nat \ {0}
         /\ \/ re = reply_range[r] /\ from = reply_id[r] /\ (ClientRead(r) \/ ~Answer(r))
            \/ re = union_range[r] /\ from = 1 /\ union_range'[r] = Invalid /\ req'[r] = req[r]
               /\ ~IS_VALID_RANGE(reply_range[r]) /\ conn[r] # "accepted"
  BY ServeShape, Zenon DEF SessionInv
<1>4. /\ \A m \in Replies(r) : m \in Replies(r)'
      /\ \A m \in Replies(r)' : \/ m \in Replies(r)
                                \/ \E to \in Ids : Replied(r, re, from, to) /\ m = Reply(to)
  <2>1. Round(r, re, from)
    BY <1>3, Zenon
  <2>2. Grown(r, re, from)
    BY <2>1, RoundGrows, Zenon
  <2> QED BY <2>2, Zenon DEF Grown
<1>5. \A to \in Ids : Reply(to).id = to /\ Reply(to).val = val[to] /\ Reply(to).seq = record_seqs[to]
  BY Zenon DEF Reply
<1>6. \A m \in Replies(r)' : m.id = i /\ m.seq = record_seqs[i] => m.val = val[i]
  <2> SUFFICES ASSUME NEW m \in Replies(r)', m.id = i, m.seq = record_seqs[i] PROVE m.val = val[i]
    BY Zenon
  <2>1. CASE m \in Replies(r)
    BY <2>1, Zenon DEF ForgetInv
  <2>2. ASSUME NEW to \in Ids, m = Reply(to) PROVE m.val = val[i]
    <3>1. to = m.id /\ m.val = val[to]
      BY <1>5, <2>2, Zenon
    <3> QED BY <3>1, Zenon
  <2> QED BY <1>4, <2>1, <2>2, Zenon
<1>7. Replied(r, re, from, i) => \E m \in Replies(r)' : m.id = i /\ m.seq = record_seqs[i]
  <2> SUFFICES ASSUME Replied(r, re, from, i) PROVE Reply(i) \in Replies(r)'
    BY <1>5, Zenon
  <2>1. out'[r] = <<Reply(i)>> /\ Reply(i).seq >= 0
    <3>1. out'[r] = <<Reply(i)>> /\ Reply(i).seq = record_seqs[i]
      BY <1>5, Zenon DEF Replied
    <3>2. record_seqs[i] >= 0
      BY <1>0
    <3> QED BY <3>1, <3>2, Zenon
  <2>2. 1 \in 1..Len(out'[r]) /\ out'[r][1] = Reply(i)
    BY <2>1, Single, Zenon
  <2> QED BY <2>1, <2>2, Zenon DEF Replies
<1>8. ASSUME Asked(r, i), val[i] # 0
      PROVE  Asked(r, i)' \/ Replied(r, re, from, i)
  <2>0. PICK s : s = record_seqs[i]
    BY Zenon
  <2>1. CASE \E k \in 1..Len(rout[r]) : IS_WITHIN_RANGE(rout[r][k], s)
    BY <1>1, <2>0, <2>1, Zenon DEF Asked
  <2>2. CASE \E k \in 1..Len(req[r]) : IS_WITHIN_RANGE(req[r][k], s)
    <3>1. CASE req'[r] = req[r]
      BY <1>1, <2>0, <2>2, <3>1, Zenon DEF Asked
    <3>2. CASE ClientRead(r)
      <4>0. req[r] \in Seq(Numbers) /\ req[r] # <<>> /\ union_range[r] \in Numbers
        BY <3>2, Zenon DEF TypeInv, WireType, ClientType, ClientRead
      <4>1. /\ req'[r] = Tail(req[r]) /\ union_range'[r] = Unite(union_range[r], Head(req[r]))
        BY <3>2, Domains, Zenon DEF ClientRead
      <4>2. PICK k \in 1..Len(req[r]) : IS_WITHIN_RANGE(req[r][k], s)
        BY <2>2, Zenon
      <4>3. CASE k = 1
        <5>1. Head(req[r]) = req[r][1] /\ req[r][1] \in Numbers
          BY <4>0, FirstRest, Zenon
        <5>2. IS_WITHIN_RANGE(union_range'[r], s)
          BY <1>0, <2>0, <4>0, <4>1, <4>2, <4>3, <5>1, UniteWithin, Zenon
        <5> QED BY <1>1, <2>0, <5>2, Zenon DEF Asked
      <4>4. CASE k # 1
        <5>1. k - 1 \in 1..Len(req'[r]) /\ req'[r][k - 1] = req[r][k]
          BY <4>0, <4>1, <4>2, <4>4
        <5> QED BY <1>1, <2>0, <4>2, <5>1, Zenon DEF Asked
      <4> QED BY <4>3, <4>4, Zenon
    <3> QED BY <3>1, <3>2, Domains, Zenon DEF ClientReadBlocked
  <2>3. CASE IS_WITHIN_RANGE(union_range[r], s)
    <3>0. union_range[r] \in Numbers
      BY Zenon DEF TypeInv, ClientType
    <3>1. CASE ClientRead(r)
      <4>0. req[r] \in Seq(Numbers) /\ req[r] # <<>>
        BY <3>1, Zenon DEF TypeInv, WireType, ClientRead
      <4>1. Head(req[r]) \in Numbers /\ union_range'[r] = Unite(union_range[r], Head(req[r]))
        <5>1. Head(req[r]) \in Numbers
          BY <4>0
        <5> QED BY <3>1, <5>1, Domains, Zenon DEF ClientRead
      <4>2. IS_WITHIN_RANGE(union_range'[r], s)
        BY <1>0, <2>0, <2>3, <3>0, <4>1, UniteWithin, Zenon
      <4> QED BY <1>1, <2>0, <4>2, Zenon DEF Asked
    <3>2. CASE ClientReadBlocked(r) /\ ~Answer(r)
      <4>1. ~Outlived(r)
        <5>1. min_seq <= s /\ s < union_range[r].high /\ s \in Nat /\ min_seq \in Nat
          BY <1>0, <1>1, <2>0, <2>3, Zenon DEF IS_WITHIN_RANGE, MinInv
        <5>2. union_range[r].high \in Nat
          BY <3>0 DEF Numbers
        <5>3. ~(union_range[r].high <= min_seq)
          BY <5>1, <5>2
        <5> QED BY <5>3, Zenon DEF Outlived
      <4>2. union_range'[r] = union_range[r]
        BY <3>2, <4>1, Domains, Zenon DEF ClientReadBlocked
      <4> QED BY <1>1, <2>0, <2>3, <4>2, Zenon DEF Asked
    <3>3. CASE ClientReadBlocked(r) /\ Answer(r)
      <4>1. re = union_range[r] /\ from = 1 /\ from <= i
        <5>1. ~ClientRead(r)
          BY <3>3, Zenon DEF ClientRead, ClientReadBlocked
        <5>2. 1 <= i
          BY WireAssumption DEF Ids
        <5> QED BY <1>3, <3>3, <5>1, <5>2, Zenon
      <4> QED BY <1>1, <1>3, <1>8, <2>0, <2>3, <4>1, RoundAsked, Zenon DEF Asked
    <3> QED BY <3>1, <3>2, <3>3, Zenon
  <2>4. CASE IS_WITHIN_RANGE(reply_range[r], s) /\ reply_id[r] <= i
    <3>1. reply_range[r] \in Numbers
      BY Zenon DEF TypeInv, ClientType
    <3>2. IS_VALID_RANGE(reply_range[r])
      BY <1>0, <2>0, <2>4, <3>1 DEF IS_WITHIN_RANGE, IS_VALID_RANGE, Numbers
    <3>3. re = reply_range[r] /\ from = reply_id[r]
      BY <1>3, <3>2, Zenon
    <3> QED BY <1>1, <1>3, <1>8, <2>0, <2>4, <3>3, RoundAsked, Zenon DEF Asked
  <2> QED BY <1>8, <2>0, <2>1, <2>2, <2>3, <2>4, Zenon DEF Asked
<1> QED BY <1>1, <1>4, <1>6, <1>7, <1>8, Zenon DEF ForgetInv

(* The receiver's own steps leave what the sender owes alone. *)
LEMMA OwedUnchanged ==
    ASSUME UNCHANGED <<sender, source, abandoned>>, NEW i \in Ids
    PROVE  /\ UNCHANGED <<val, record_seqs, union_range, reply_range, reply_id, out>>
           /\ (Settled(i)' <=> Settled(i))
BY Zenon DEF sender, multi, client, source, Settled, Unread

(* What a packet skips is asked for, and what it brings is current. *)
LEMMA HearRemembers ==
    ASSUME TypeInv, EndedInv, NEW r \in Receivers, SessionInv(r), NEW p \in net[r], Hearing(r, p),
           NEW i \in Ids, Remembers(r, i)
    PROVE  Remembers(r, i)'
<1>0. /\ rnext[r] \in Nat /\ p.seq \in Int /\ record_seqs[i] \in Nat /\ rseqs[r][i] \in Int /\ p \in Packet
      /\ rout[r] \in Seq(Numbers) /\ Len(rout[r]) <= 1
  BY InNet, Zenon DEF TypeInv, ReceiverType, SenderType
<1>1. /\ UNCHANGED <<val, record_seqs, union_range, reply_range, reply_id, out, conn, req, rep, net>>
      /\ Settled(i)' <=> Settled(i)
  <2>1. UNCHANGED <<sender, source, abandoned, wires>>
    BY Zenon DEF Hearing, McastRead, McastHeartbeat
  <2> QED BY <2>1, OwedUnchanged, Zenon DEF wires
<1> SUFFICES ASSUME conn[r] = "joined", ForgetInv(r, i) PROVE ForgetInv(r, i)'
  BY <1>1, Zenon DEF Remembers
<1>2. NumberInv(r)
  BY Zenon DEF SessionInv, Session
<1>3. PICK seq \in Nat :
         /\ seq >= rnext[r]
         /\ \/ seq = p.seq /\ rnext'[r] = seq + 1
            \/ /\ seq = -p.seq /\ rnext'[r] = seq
               /\ rval'[r] = rval[r] /\ rseqs'[r] = rseqs[r]
         /\ \/ rout'[r] = rout[r] /\ seq = rnext[r]
            \/ rout'[r] = <<Range(rnext[r], seq)>>
  BY Heard, Zenon
<1>4. Replies(r)' = Replies(r)
  BY <1>1, Zenon DEF Replies
<1>5. CASE /\ rval'[r][i] = rval[r][i] /\ rseqs'[r][i] = rseqs[r][i]
           /\ ~(McastRead(r, p) /\ Has(p.recs, i))
  <2>1. ASSUME record_seqs[i] < rnext'[r], ~(record_seqs[i] < rnext[r])
        PROVE  IS_WITHIN_RANGE(Range(rnext[r], seq), record_seqs[i]) /\ rout'[r] = <<Range(rnext[r], seq)>>
    <3>1. record_seqs[i] # seq \/ rnext'[r] = seq
      <4>1. CASE McastRead(r, p) /\ seq = p.seq
        <5>1. ~(0 <= p.seq /\ p.seq = record_seqs[i])
          BY <1>2, <1>5, <4>1, Zenon DEF NumberInv, Numbered
        <5>2. 0 <= seq
          OBVIOUS
        <5> QED BY <4>1, <5>1, <5>2, Zenon
      <4>2. CASE McastHeartbeat(r, p)
        <5>1. p.seq < 0
          BY <4>2, Zenon DEF McastHeartbeat
        <5>2. seq # p.seq
          BY <5>1
        <5> QED BY <1>3, <5>2, Zenon
      <4>3. CASE McastRead(r, p) /\ seq = -p.seq /\ rnext'[r] = seq
        BY <4>3, Zenon
      <4> QED BY <1>3, <4>1, <4>2, <4>3, Zenon DEF Hearing
    <3>2. record_seqs[i] < seq
      <4>1. /\ rnext'[r] = seq + 1 \/ rnext'[r] = seq
            /\ record_seqs[i] \in Nat /\ record_seqs[i] < rnext'[r]
        BY <1>0, <1>3, <2>1, Zenon
      <4> QED BY <3>1, <4>1
    <3>3. record_seqs[i] >= rnext[r] /\ ~(seq = rnext[r])
      <4>1. record_seqs[i] \in Int /\ rnext[r] \in Int /\ ~(record_seqs[i] < rnext[r])
        BY <1>0, <2>1, Orders, Zenon
      <4>2. record_seqs[i] >= rnext[r]
        BY <4>1, Orders, Zenon
      <4> QED BY <3>2, <4>1, <4>2, Zenon
    <3>4. Range(rnext[r], seq).low = rnext[r] /\ Range(rnext[r], seq).high = seq
      BY Zenon DEF Range
    <3> QED BY <1>3, <3>2, <3>3, <3>4, Zenon DEF IS_WITHIN_RANGE
  <2>2. ASSUME IS_WITHIN_RANGE(Range(rnext[r], seq), record_seqs[i]), rout'[r] = <<Range(rnext[r], seq)>>
        PROVE  Asked(r, i)'
    <3>1. Len(rout'[r]) = 1 /\ rout'[r][1] = Range(rnext[r], seq)
      BY <2>2, Single, Zenon
    <3>2. 1 \in 1..Len(rout'[r])
      BY <2>2, Single, Zenon
    <3>3. IS_WITHIN_RANGE(rout'[r][1], record_seqs'[i])
      BY <1>1, <2>2, <3>1, Zenon
    <3> QED BY <3>2, <3>3, Zenon DEF Asked
  <2>3. ASSUME Asked(r, i), record_seqs[i] \notin overwritten'[r]
        PROVE  Asked(r, i)'
    <3>1. CASE \E k \in 1..Len(rout[r]) : IS_WITHIN_RANGE(rout[r][k], record_seqs[i])
      <4>1. CASE rout'[r] = rout[r]
        BY <1>1, <3>1, <4>1, Zenon DEF Asked
      <4>2. CASE rout'[r] # rout[r]
        <5>1. PICK k \in 1..Len(rout[r]) : IS_WITHIN_RANGE(rout[r][k], record_seqs[i])
          BY <3>1, Zenon
        <5>2. k = 1 /\ rout[r][1] \in Numbers /\ rout[r] # <<>>
          BY <1>0, <5>1
        <5>3. record_seqs[i] \in rout[r][1].low..(rout[r][1].high - 1)
          BY <1>0, <5>1, <5>2 DEF IS_WITHIN_RANGE, Numbers
        <5>4. overwritten'[r] = overwritten[r] \cup Replaced(r)
          BY Domains, Zenon DEF Hearing
        <5> QED BY <2>3, <4>2, <5>2, <5>3, <5>4, Zenon DEF Replaced
      <4> QED BY <4>1, <4>2, Zenon
    <3> QED BY <1>1, <2>3, <3>1, Zenon DEF Asked
  <2>4. \A s : s \notin overwritten'[r] => s \notin overwritten[r]
    BY Domains, Zenon DEF Hearing
  <2>5. ASSUME val[i] # 0, record_seqs[i] < rnext'[r], record_seqs[i] \notin overwritten'[r]
        PROVE  \/ rseqs'[r][i] = record_seqs[i] \/ Asked(r, i)'
               \/ \E m \in Replies(r)' : m.id = i /\ m.seq = record_seqs[i]
    <3>1. CASE record_seqs[i] < rnext[r]
      BY <1>4, <1>5, <2>3, <2>4, <2>5, <3>1, Zenon DEF ForgetInv
    <3> QED BY <2>1, <2>2, <2>5, <3>1, Zenon
  <2> QED BY <1>1, <1>4, <1>5, <2>5, Zenon DEF ForgetInv
<1>6. CASE McastRead(r, p) /\ Has(p.recs, i)
  <2>1. LastOf(p, i) # {} /\ p.seq >= rnext[r]
    <3>1. PICK k \in 1..Len(p.recs) : p.recs[k].id = i /\ Final(p.recs, k)
      BY <1>6, Zenon DEF EndedInv, Ended
    <3>2. k \in LastOf(p, i)
      BY <3>1, Zenon DEF LastOf, Final
    <3> QED BY <1>6, <3>2, Zenon DEF McastRead
  <2>2. rseqs'[r][i] = p.seq /\ \E k \in LastOf(p, i) : rval'[r][i] = p.recs[k].val
    BY <1>0, <1>6, <2>1, Applied, Zenon DEF McastRead
  <2>3. p.seq <= record_seqs[i]
    BY <1>2, <1>6, Zenon DEF NumberInv, Numbered
  <2>4. rseqs'[r][i] = record_seqs[i] => rval'[r][i] = val[i]
    BY <2>2, Zenon DEF ForgetInv
  <2>5. rnext'[r] = p.seq + 1
    BY <1>0, <1>6, Domains, Zenon DEF McastRead
  <2>6. record_seqs[i] < rnext'[r] => rseqs'[r][i] = record_seqs[i]
    BY <1>0, <2>2, <2>3, <2>5
  <2> QED BY <1>1, <1>4, <2>4, <2>6, Zenon DEF ForgetInv
<1>7. ASSUME ~(McastRead(r, p) /\ Has(p.recs, i))
      PROVE  rval'[r][i] = rval[r][i] /\ rseqs'[r][i] = rseqs[r][i]
  <2>1. CASE McastRead(r, p)
    BY <1>7, <2>1, Heard, Zenon
  <2>2. CASE McastHeartbeat(r, p)
    BY <2>2, Zenon DEF McastHeartbeat
  <2> QED BY <2>1, <2>2, Zenon DEF Hearing
<1> QED BY <1>5, <1>6, <1>7, Zenon

(* A reply is applied, or the record has its number already. *)
LEMMA BodyRemembers ==
    ASSUME TypeInv, NEW r \in Receivers, SessionInv(r), TcpReadBody(r), UNCHANGED <<sender, history>>,
           NEW i \in Ids, Remembers(r, i)
    PROVE  Remembers(r, i)'
<1>0. record_seqs[i] \in Nat /\ rseqs[r][i] \in Int
  BY Zenon DEF TypeInv, ReceiverType, SenderType
<1>1. /\ UNCHANGED <<val, record_seqs, union_range, reply_range, reply_id, out, conn, req, net,
                     rnext, rout, overwritten>>
      /\ rep'[r] = Tail(rep[r])
      /\ Settled(i)' <=> Settled(i)
  <2>1. UNCHANGED <<sender, source, abandoned>>
    BY Zenon DEF TcpReadBody, history
  <2> QED BY <2>1, OwedUnchanged, Domains, Zenon DEF TcpReadBody, history
<1> SUFFICES ASSUME conn[r] = "joined", ForgetInv(r, i) PROVE ForgetInv(r, i)'
  BY <1>1, Zenon DEF Remembers
<1>2. PICK m : m = rep[r][1]
  BY Zenon
<1>3. /\ rep[r] # <<>> /\ m.seq \in Nat /\ m.id \in Ids
      /\ m.id # i => rval'[r][i] = rval[r][i] /\ rseqs'[r][i] = rseqs[r][i]
      /\ IF m.seq > rseqs[r][m.id]
         THEN rval'[r][m.id] = m.val /\ rseqs'[r][m.id] = m.seq
         ELSE rval'[r] = rval[r] /\ rseqs'[r] = rseqs[r]
  <2>1. rep[r] # <<>> /\ m.seq \in Nat /\ m.id \in Ids
    BY <1>2, BodyRead, Zenon
  <2>2. ASSUME m.id # i PROVE rval'[r][i] = rval[r][i] /\ rseqs'[r][i] = rseqs[r][i]
    BY <1>2, <2>2, BodyElse, Zenon
  <2>3. IF m.seq > rseqs[r][m.id]
        THEN rval'[r][m.id] = m.val /\ rseqs'[r][m.id] = m.seq
        ELSE rval'[r] = rval[r] /\ rseqs'[r] = rseqs[r]
    BY <1>2, BodyRead, Zenon
  <2> QED BY <2>1, <2>2, <2>3, Zenon
<1>4. /\ \A n \in Replies(r)' : n \in Replies(r)
      /\ \A n \in Replies(r) : n \in Replies(r)' \/ n = m
      /\ m \in Replies(r)
  <2>1. m.seq >= 0
    BY <1>3, Orders, Zenon
  <2>2. out'[r] = out[r]
    BY <1>1, Zenon
  <2> QED BY <1>1, <1>2, <1>3, <2>1, <2>2, TailReplies, Zenon
<1>5. rseqs[r][i] <= record_seqs[i] /\ (m.id = i => m.seq <= record_seqs[i])
  BY <1>4, Zenon DEF SessionInv, Session, NumberInv
<1>6. Asked(r, i)' <=> Asked(r, i)
  BY <1>1, Zenon DEF Asked
<1>7. rseqs'[r][i] = record_seqs[i] => rval'[r][i] = val[i]
  BY <1>3, <1>4, Zenon DEF ForgetInv
<1>8. ASSUME rseqs[r][i] = record_seqs[i] PROVE rseqs'[r][i] = record_seqs[i]
  <2>1. ASSUME m.id = i PROVE ~(m.seq > rseqs[r][i])
    <3>1. m.seq \in Int /\ m.seq <= rseqs[r][i]
      BY <1>3, <1>5, <1>8, <2>1, Orders, Zenon
    <3> QED BY <1>0, <3>1, Orders, Zenon
  <2> QED BY <1>3, <1>8, <2>1, Zenon
<1>9. ASSUME m.id = i, m.seq = record_seqs[i] PROVE rseqs'[r][i] = record_seqs[i]
  <2>1. CASE m.seq > rseqs[r][i]
    BY <1>3, <1>9, <2>1, Zenon
  <2>2. CASE ~(m.seq > rseqs[r][i])
    <3>1. m.seq \in Int /\ rseqs[r][i] <= m.seq
      BY <1>3, <1>5, <1>9, Orders, Zenon
    <3>2. rseqs[r][i] = m.seq
      BY <1>0, <2>2, <3>1, Orders, Zenon
    <3> QED BY <1>3, <1>9, <2>2, <3>2, Zenon
  <2> QED BY <2>1, <2>2, Zenon
<1> QED BY <1>1, <1>4, <1>6, <1>7, <1>8, <1>9, Zenon DEF ForgetInv

(* A request that is sent is still asked for. *)
LEMMA RequestRemembers ==
    ASSUME TypeInv, NEW r \in Receivers, TcpOnWriteR(r), UNCHANGED <<sender, history>>,
           NEW i \in Ids, Remembers(r, i)
    PROVE  Remembers(r, i)'
<1>1. /\ UNCHANGED <<val, record_seqs, union_range, reply_range, reply_id, out, conn, rep, net,
                     rval, rseqs, rnext, overwritten>>
      /\ Settled(i)' <=> Settled(i)
  <2>1. UNCHANGED <<sender, source, abandoned>>
    BY Zenon DEF TcpOnWriteR, history
  <2> QED BY <2>1, OwedUnchanged, Zenon DEF TcpOnWriteR, history
<1> SUFFICES ASSUME conn[r] = "joined", ForgetInv(r, i) PROVE ForgetInv(r, i)'
  BY <1>1, Zenon DEF Remembers
<1>2. /\ rout[r] # <<>> /\ req'[r] = Append(req[r], rout[r][1]) /\ Len(rout[r]) <= 1
      /\ rout[r] \in Seq(Numbers) /\ req[r] \in Seq(Numbers)
  BY Domains, Zenon DEF TcpOnWriteR, TypeInv, WireType, ReceiverType
<1>3. Replies(r)' = Replies(r)
  BY <1>1, Zenon DEF Replies
<1>4. PICK x \in Numbers : x = rout[r][1]
  BY <1>2
<1>5. /\ \A k \in 1..Len(req[r]) : k \in 1..Len(req'[r]) /\ req'[r][k] = req[r][k]
      /\ Len(req[r]) + 1 \in 1..Len(req'[r]) /\ req'[r][Len(req[r]) + 1] = x
      /\ \A k \in 1..Len(rout[r]) : k = 1
  BY <1>2, <1>4
<1>6. Asked(r, i) => Asked(r, i)'
  BY <1>1, <1>4, <1>5, Zenon DEF Asked
<1> QED BY <1>1, <1>3, <1>6, Zenon DEF ForgetInv

(* Reading a header loses no reply. *)
LEMMA HeaderRemembers ==
    ASSUME TypeInv, NEW r \in Receivers, TcpReadHeader(r), UNCHANGED <<sender, history>>,
           NEW i \in Ids, Remembers(r, i)
    PROVE  Remembers(r, i)'
<1>1. /\ UNCHANGED <<val, record_seqs, union_range, reply_range, reply_id, out,
                     rval, rseqs, rnext, rout, overwritten>>
      /\ Settled(i)' <=> Settled(i)
  <2>1. UNCHANGED <<sender, source, abandoned>>
    BY Zenon DEF TcpReadHeader, history
  <2> QED BY <2>1, OwedUnchanged, Zenon DEF TcpReadHeader, history
<1>2. CASE Disconnect(r)
  BY <1>2, Domains, Zenon DEF Disconnect, Remembers
<1>3. CASE UNCHANGED <<conn, req, rep, net>>
  BY <1>1, <1>3, Zenon DEF Remembers, ForgetInv, Replies, Asked
<1>4. CASE /\ rep[r] # <<>> /\ rep[r][1].seq = HEARTBEAT_SEQ
           /\ rep'[r] = Tail(rep[r]) /\ UNCHANGED <<conn, req, net>>
  <2>1. /\ \A m \in Replies(r)' : m \in Replies(r)
        /\ \A m \in Replies(r) : m \in Replies(r)' \/ m = rep[r][1]
    BY <1>1, <1>4, TailReplies, Zenon
  <2>2. \A m \in Replies(r) : m # rep[r][1]
    BY <1>4, InReplies DEF HEARTBEAT_SEQ
  <2>3. Asked(r, i)' <=> Asked(r, i)
    BY <1>1, <1>4, Zenon DEF Asked
  <2> QED BY <1>1, <1>4, <2>1, <2>2, <2>3, Zenon DEF Remembers, ForgetInv
<1> QED BY <1>2, <1>3, <1>4, Domains, Zenon DEF TcpReadHeader, wires

(* A new session has reached no number yet. *)
LEMMA JoinRemembers ==
    ASSUME TypeInv, NEW r \in Receivers, SessionInv(r), Joining(r), NEW i \in Ids
    PROVE  Remembers(r, i)'
<1>0. record_seqs[i] \in Nat
  BY Zenon DEF TypeInv, SenderType
<1>1. UNCHANGED <<record_seqs, out, rep>> /\ conn[r] = "accepted"
  BY Zenon DEF Joining, Join, sender, multi, client
<1>2. net'[r] = {} /\ rseqs'[r][i] = -1 /\ rnext'[r] = 0
  BY Domains, Zenon DEF Joining, Join
<1>3. Replies(r)' = {}
  BY <1>1, Zenon DEF SessionInv, FreshInv, Replies
<1> QED BY <1>0, <1>1, <1>2, <1>3 DEF Remembers, ForgetInv

(* Remembers is kept by every step. *)
LEMMA RemembersStep ==
    ASSUME SessionsInv, EndedInv, [Next]_vars, NEW r \in Receivers, NEW i \in Ids, Remembers(r, i)
    PROVE  Remembers(r, i)'
<1>0. TypeInv /\ TypeInv' /\ MinInv /\ StagedInv /\ Progress /\ SessionInv(r) /\ SessionInv(r)'
  BY SessionsStep, Zenon DEF SessionsInv
<1>1. CASE Told(r)
  BY <1>0, <1>1, ToldRemembers, Zenon
<1>2. CASE Accept(r)
  BY <1>0, <1>2, Domains, Zenon DEF Accept, TcpOnAccept, Remembers
<1>3. CASE Serving(r)
  <2>1. CASE TcpOnHup(r)
    BY <1>0, <2>1, Domains, Zenon DEF TcpOnHup, Remembers
  <2> QED BY <1>0, <1>3, <2>1, ServeRemembers, Zenon DEF Serving
<1>4. CASE Open(r) \/ Close(r)
  BY <1>0, <1>4, Domains, Zenon DEF Open, Connect, Close, Leave, Disconnect, Remembers
<1>5. CASE Receiving(r)
  BY <1>0, <1>5, HearRemembers, BodyRemembers, RequestRemembers, HeaderRemembers, JoinRemembers, Zenon DEF Receiving
<1> QED BY <1>0, <1>1, <1>2, <1>3, <1>4, <1>5, ToldStep, Zenon

(* What the session remembers is what NothingForgotten asks for. *)
LEMMA NothingForgottenHolds ==
    ASSUME SessionsInv, \A r \in Receivers, i \in Ids : Remembers(r, i)
    PROVE  NothingForgotten
<1> SUFFICES ASSUME NEW r \in Receivers, NEW i \in Ids,
                    InSession(r), val[i] # 0, rval[r][i] # val[i], ~Neglected(r, i), ~Coming(r, i)
             PROVE  FALSE
  BY Zenon DEF NothingForgotten
<1>0. TypeInv /\ SessionInv(r) /\ StagedInv
  BY Zenon DEF SessionsInv
<1>1. record_seqs[i] \in Nat /\ rseqs[r][i] \in Int /\ rnext[r] \in Nat
  BY <1>0, Zenon DEF TypeInv, SenderType, ReceiverType
<1>2. conn[r] = "joined" /\ Settled(i) /\ ForgetInv(r, i) /\ NumberInv(r)
  BY <1>0, Zenon DEF InSession, Coming, Neglected, Settled, Remembers, SessionInv, Session
<1>3. rseqs[r][i] < record_seqs[i]
  <2>1. rseqs[r][i] # record_seqs[i] /\ rseqs[r][i] <= record_seqs[i]
    BY <1>2, Zenon DEF ForgetInv, NumberInv
  <2> QED BY <1>1, <2>1, Orders, Zenon
<1>4. PICK m \in Replies(r) : m.id = i /\ m.seq = record_seqs[i] /\ m.val = val[i]
  <2>1. record_seqs[i] < rnext[r] /\ record_seqs[i] \notin overwritten[r] /\ ~Asked(r, i)
    BY <1>1, Orders, Zenon DEF Coming, Neglected
  <2> QED BY <1>1, <1>2, <1>3, <2>1, Zenon DEF ForgetInv
<1>5. PICK k \in 1..Len(rep[r] \o out[r]) : m = (rep[r] \o out[r])[k]
  <2>1. rep[r] \in Seq(Message) /\ out[r] \in Seq(Message)
    BY <1>0, Zenon DEF TypeInv, WireType, ClientType
  <2>2. PICK q : q = rep[r] \o out[r]
    BY Zenon
  <2>3. \/ out[r] = <<>> /\ q = rep[r]
        \/ Len(out[r]) = 1 /\ out[r][1] \in Message /\ q = Append(rep[r], out[r][1])
    <3>1. Len(out[r]) <= 1
      BY <1>0, ZenonT(30) DEF TypeInv, ClientType
    <3> QED BY <2>1, <2>2, <3>1, Pushed, Zenon
  <2>4. CASE out[r] = <<>> /\ q = rep[r]
    <3>1. \A j \in 1..Len(out[r]) : FALSE
      BY <2>4
    <3>2. \E j \in 1..Len(rep[r]) : m = rep[r][j]
      BY <3>1, Zenon DEF Replies
    <3> QED BY <2>2, <2>4, <3>2, Zenon
  <2>5. CASE Len(out[r]) = 1 /\ out[r][1] \in Message /\ q = Append(rep[r], out[r][1])
    <3>1. PICK x \in Message : x = out[r][1]
      BY <2>5, Zenon
    <3>2. q = Append(rep[r], x)
      BY <2>5, <3>1, Zenon
    <3>3. /\ Len(rep[r]) + 1 \in 1..Len(q) /\ q[Len(rep[r]) + 1] = x
          /\ \A j \in 1..Len(rep[r]) : j \in 1..Len(q) /\ q[j] = rep[r][j]
      <4>1. /\ Len(rep[r]) + 1 \in 1..Len(Append(rep[r], x)) /\ Append(rep[r], x)[Len(rep[r]) + 1] = x
            /\ \A j \in 1..Len(rep[r]) :
                  j \in 1..Len(Append(rep[r], x)) /\ Append(rep[r], x)[j] = rep[r][j]
        BY <2>1, <3>1, Longer, Zenon
      <4> QED BY <3>2, <4>1, Zenon
    <3>4. \A j \in 1..Len(out[r]) : j = 1
      BY <2>5
    <3>5. \E k \in 1..Len(q) : m = q[k]
      BY <3>1, <3>3, <3>4, Zenon DEF Replies
    <3> QED BY <2>2, <3>5, Zenon
  <2> QED BY <2>3, <2>4, <2>5, Zenon
<1>6. m.seq >= 0 /\ m.id = i /\ m.val = val[i] /\ m.seq > rseqs[r][i]
  BY <1>1, <1>3, <1>4
<1>7. Answered(r, i)
  BY <1>5, <1>6, Zenon DEF Answered
<1> QED BY <1>7, Zenon DEF Coming

(* For any subscribers, records, packet size and capacities: while a       *)
(* session lasts, whatever packets are lost, a record that differs from    *)
(* the publisher's is on its way to the subscriber (a queue entry, a later *)
(* number, a request or a reply), but for those the code neglects.         *)
THEOREM NothingForgottenTheorem == Spec => []NothingForgotten
<1> DEFINE I == SessionsInv /\ EndedInv /\ \A r \in Receivers, i \in Ids : Remembers(r, i)
<1>1. Init => I
  <2>1. Init => \A r \in Receivers, i \in Ids : Remembers(r, i)
    BY ZenonT(30) DEF Init, WireInit, Remembers
  <2>2. Init => EndedInv
    <3>1. Ended(<<>>)
      BY DEF Ended, Has
    <3> QED BY <3>1, Zenon DEF Init, WireInit, SenderInit, SenderFresh, EndedInv
  <2> QED BY <2>1, <2>2, SessionsInit, Zenon
<1>2. I /\ [Next]_vars => I'
  BY SessionsStep, EndedStep, RemembersStep, Zenon DEF SessionsInv
<1>3. I => NothingForgotten
  BY NothingForgottenHolds, Zenon
<1> QED BY <1>1, <1>2, <1>3, PTL DEF Spec
=============================================================================
