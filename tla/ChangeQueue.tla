---------------------------- MODULE ChangeQueue ----------------------------
(***************************************************************************)
(* The change queue of a storage (storage_write_queue, storage_read_queue) *)
(* with the process that writes records (update of writer.c and            *)
(* batch_write_records) and the three kinds of process that follow the     *)
(* queue: the publisher's sender (mcast_on_write), the reader program      *)
(* (main and update of reader.c) and batch_read_changed_records.           *)
(*                                                                         *)
(* Nothing is locked: the writer stores the slot and then advances q_head, *)
(* a consumer compares q_head with its own position once and then reads    *)
(* one slot at a time.  A record holds its revision and the number of the  *)
(* write that put it there; RecordLock shows that reading it is atomic.    *)
(*                                                                         *)
(* The process that writes may die at any point, and another one takes     *)
(* over the file while consumers have it mapped: it creates the storage    *)
(* again and, if it is the writer program and not a subscriber, zeroes the *)
(* records, the head and the queue (storage_create, storage_reset).        *)
(***************************************************************************)
EXTENDS Integers, Sequences, FiniteSets

CONSTANTS
    Ids,        \* identifiers of records, from 0 as writer.c creates them
    Cap,        \* storage_get_queue_capacity, a power of two
    Senders,    \* consumers that run mcast_on_write
    Readers,    \* consumers that run the loop of reader.c
    Batches,    \* consumers that call batch_read_changed_records
    Ignoring,   \* senders and readers run with -Q (ignore_overrun)
    Heedless,   \* senders and readers run with -R (ignore_recreate)
    Count,      \* records asked for in a batch call
    MaxWrites,  \* bound on the number of writes
    MaxCreated, \* bound on the times the storage is created
    MaxBefore,  \* bound on the writes before it is created again
    MaxConsumers \* bound on the consumers at work; they share nothing but
                \* the queue, which none of them changes

Consumers == Senders \cup Readers \cup Batches

ASSUME QueueAssumption ==
    /\ Cap \in Nat /\ Cap > 0 /\ Count \in Nat /\ Count > 0
    /\ MaxWrites \in Nat /\ MaxCreated \in Nat /\ MaxBefore \in Nat /\ MaxConsumers \in Nat
    /\ Ignoring \subseteq Senders \cup Readers /\ Heedless \subseteq Senders \cup Readers
    /\ 0 \in Ids
    /\ Senders \cap Readers = {} /\ Senders \cap Batches = {}
    /\ Readers \cap Batches = {}

VARIABLES
    change_q, q_head,   \* the queue in the segment
    rec,                \* the records: revision, and number of the last write
    created,            \* stands for the time of creation
    wpc, wid,           \* the writer: where, and which record it updates
    cpc, last, new,     \* consumers: where, position, head they scan to
    seen,               \* the creation they know of
    view,               \* the contents of each record they last read
    (* history, for the properties only *)
    writes,             \* the number of writes so far
    log,                \* the identifier and write of every entry, in order
    missed,             \* records whose entry a consumer skipped, or found
                        \* reused, and that it has not read since
    stale,              \* records that changed with a new creation in a way
                        \* the consumer cannot see, and that it has not read since
    early               \* consumers that started between creation and reset

queue    == <<change_q, q_head, rec, created, wpc, wid, writes, log>>
consumer == <<cpc, last, new, seen, view, missed, early>>
vars     == <<queue, consumer, stale>>

Contents == [rev : Nat, n : Nat]
Zero == [rev |-> 0, n |-> 0]

TypeOK ==
    /\ change_q \in [0..(Cap - 1) -> Ids]
    /\ q_head \in Nat /\ log \in Seq([id : Ids, n : Nat]) /\ Len(log) = q_head
    /\ rec \in [Ids -> Contents] /\ created \in Nat /\ writes \in Nat
    /\ wpc \in {"idle", "record", "slot", "created", "records", "head"} /\ wid \in Ids
    /\ cpc \in [Consumers -> {"off", "poll", "scan", "check", "overrun", "recreated"}]
    /\ last \in [Consumers -> Int] /\ new \in [Consumers -> Int] /\ seen \in [Consumers -> Nat]
    /\ view \in [Consumers -> [Ids -> Contents]]
    /\ missed \in [Consumers -> SUBSET Ids] /\ stale \in [Consumers -> SUBSET Ids]
    /\ early \subseteq Consumers

Init ==
    /\ change_q = [i \in 0..(Cap - 1) |-> 0] /\ q_head = 0 /\ log = <<>>
    /\ rec = [i \in Ids |-> Zero] /\ created = 1 /\ writes = 0 /\ wpc = "idle" /\ wid = 0
    /\ cpc = [c \in Consumers |-> "off"] /\ seen = [c \in Consumers |-> 0]
    /\ last = [c \in Consumers |-> 0] /\ new = [c \in Consumers |-> 0]
    /\ view = [c \in Consumers |-> [i \in Ids |-> Zero]]
    /\ missed = [c \in Consumers |-> {}] /\ stale = [c \in Consumers |-> {}] /\ early = {}

-----------------------------------------------------------------------------
(* The writer: the record first, then its slot, then the head. *)

(* mutant: the entry is queued but the record keeps its revision *)
UpdateRecord_Unrevised(i) ==
    /\ wpc = "idle" /\ writes < MaxWrites
    /\ writes' = writes + 1 /\ wpc' = "record" /\ wid' = i
    /\ UNCHANGED <<change_q, q_head, rec, created, log, consumer, stale>>

UpdateRecord(i) ==
    /\ wpc = "idle" /\ writes < MaxWrites
    /\ writes' = writes + 1
    /\ rec' = [rec EXCEPT ![i] = [rev |-> @.rev + 1, n |-> writes + 1]]
    /\ wpc' = "record" /\ wid' = i
    /\ UNCHANGED <<change_q, q_head, created, log, consumer, stale>>

StoreSlot ==
    /\ wpc = "record"
    /\ change_q' = [change_q EXCEPT ![q_head % Cap] = wid]
    /\ wpc' = "slot"
    /\ UNCHANGED <<q_head, rec, created, wid, writes, log, consumer, stale>>

Following == {c \in Consumers : cpc[c] # "off"}
Stale(C, i) == stale' = [c \in Consumers |-> IF c \in C THEN stale[c] \cup i ELSE stale[c]]

(* A consumer whose position a reset has left beyond the head does not get *)
(* to the entries before it.                                               *)
AdvanceHead ==
    /\ wpc = "slot"
    /\ q_head' = q_head + 1
    /\ log' = Append(log, [id |-> wid, n |-> writes])
    /\ wpc' = "idle" /\ UNCHANGED wid
    /\ Stale({c \in Following : last[c] > q_head}, {wid})
    /\ UNCHANGED <<change_q, rec, created, writes, consumer>>

-----------------------------------------------------------------------------
(* A new process takes over.  If the old one died between a record and the *)
(* head, nobody will be told of that record.                               *)
Recreate ==
    /\ created < MaxCreated /\ writes <= MaxBefore /\ created' = created + 1
    /\ wpc' = "created" /\ UNCHANGED wid
    /\ Stale(Following, IF wpc \in {"record", "slot"} THEN {wid} ELSE {})
    /\ UNCHANGED <<change_q, q_head, rec, writes, log, consumer>>

(* A subscriber goes on with what is there. *)
KeepRecords ==
    /\ wpc = "created" /\ wpc' = "idle"
    /\ UNCHANGED <<change_q, q_head, rec, created, wid, writes, log, consumer, stale>>

(* storage_reset, in the order of its stores *)
ZeroRecords ==
    /\ wpc = "created" /\ wpc' = "records"
    /\ rec' = [i \in Ids |-> Zero]
    /\ Stale(Following, Ids)
    /\ UNCHANGED <<change_q, q_head, created, wid, writes, log, consumer>>

ZeroHead ==
    /\ wpc = "records" /\ wpc' = "head"
    /\ q_head' = 0 /\ log' = <<>>
    /\ UNCHANGED <<change_q, rec, created, wid, writes, consumer, stale>>

ZeroQueue ==
    /\ wpc = "head" /\ wpc' = "idle"
    /\ change_q' = [i \in 0..(Cap - 1) |-> 0]
    /\ UNCHANGED <<q_head, rec, created, wid, writes, log, consumer, stale>>

-----------------------------------------------------------------------------
(* The consumers. *)

(* A consumer starts at the head: tcp_on_accept of the first client, the   *)
(* reader before its loop, a batch call with a negative head.  It follows  *)
(* changes from there, so its view starts as what the records hold.        *)
Start(c) ==
    /\ cpc[c] = "off" /\ Cardinality(Following) < MaxConsumers
    /\ cpc' = [cpc EXCEPT ![c] = "poll"]
    /\ last' = [last EXCEPT ![c] = q_head] /\ seen' = [seen EXCEPT ![c] = created]
    /\ view' = [view EXCEPT ![c] = rec]
    /\ early' = IF wpc \in {"created", "records"} THEN early \cup {c} ELSE early
    /\ UNCHANGED <<queue, new, missed, stale>>

(* After every round a sender or reader without -R looks at the time of    *)
(* creation; a batch reader never does.                                    *)
Heeding == (Senders \cup Readers) \ Heedless
After(c) == IF c \in Heeding THEN "check" ELSE "poll"

Check(c) ==
    /\ cpc[c] = "check"
    /\ cpc' = [cpc EXCEPT ![c] = IF created # seen[c] THEN "recreated" ELSE "poll"]
    /\ UNCHANGED <<queue, last, new, seen, view, missed, early, stale>>

(* A round without entries; a sender that finds the head behind its        *)
(* position goes back to it.                                               *)
PollEmpty(c) ==
    /\ cpc[c] = "poll" /\ (q_head = last[c] \/ (c \in Senders /\ q_head < last[c]))
    /\ last' = [last EXCEPT ![c] = q_head] /\ cpc' = [cpc EXCEPT ![c] = After(c)]
    /\ UNCHANGED <<queue, new, seen, view, missed, early, stale>>

(* The others compare as unsigned numbers: a head behind is an overrun. *)
Overrun(c) == q_head - last[c] > Cap \/ (c \notin Senders /\ q_head < last[c])

(* Where a consumer that ignores an overrun continues.  The reader takes   *)
(* the last Cap entries, also when there are not so many; the sender takes *)
(* its distance from the head less Cap, which is no later and can be much  *)
(* earlier.                                                                *)
Resume(c) ==
    IF c \in Senders THEN (q_head - last[c]) - Cap ELSE q_head - Cap

Skipped(c) ==
    IF Overrun(c) THEN {log[i].id : i \in {j \in DOMAIN log : last[c] < j /\ j <= Resume(c)}}
    ELSE {}

HasEntries(c) == cpc[c] = "poll" /\ q_head # last[c] /\ ~(c \in Senders /\ q_head < last[c])

(* mutant: the capacity is not compared *)
Poll_Unchecked(c) ==
    /\ HasEntries(c)
    /\ cpc' = [cpc EXCEPT ![c] = "scan"]
    /\ new' = [new EXCEPT ![c] = q_head]
    /\ UNCHANGED <<queue, last, seen, view, missed, early, stale>>

(* mutant: the consumer waits for a full queue *)
Poll_WaitsForFull(c) ==
    /\ HasEntries(c) /\ q_head - last[c] >= Cap
    /\ cpc' = [cpc EXCEPT ![c] = IF Overrun(c) THEN "overrun" ELSE "scan"]
    /\ new' = [new EXCEPT ![c] = q_head]
    /\ UNCHANGED <<queue, last, seen, view, missed, early, stale>>

Poll(c) ==
    /\ HasEntries(c)
    /\ IF Overrun(c) /\ c \notin Ignoring
       THEN /\ cpc' = [cpc EXCEPT ![c] = "overrun"]
            /\ UNCHANGED <<last, new, missed>>
       ELSE /\ cpc' = [cpc EXCEPT ![c] = "scan"]
            /\ last' = [last EXCEPT ![c] = IF Overrun(c) THEN Resume(c) ELSE @]
            /\ new' = [new EXCEPT ![c] =
                          IF c \in Batches /\ q_head - last[c] > Count
                          THEN last[c] + Count ELSE q_head]
            /\ missed' = [missed EXCEPT ![c] = @ \cup Skipped(c)]
    /\ UNCHANGED <<queue, seen, view, early, stale>>

(* The slot a consumer reads next, and whether another entry has taken its *)
(* place.                                                                  *)
Slot(c) == change_q[last[c] % Cap]
HasEntry(c) == last[c] + 1 \in DOMAIN log
Reused(c) == HasEntry(c) /\ Slot(c) # log[last[c] + 1].id
Missed(c) == IF Reused(c) THEN missed[c] \cup {log[last[c] + 1].id} ELSE missed[c]

(* mutant: the position after a scan is the head of then *)
Advance_ToHead(c) ==
    /\ last' = [last EXCEPT ![c] = IF @ + 1 = new[c] THEN q_head ELSE @ + 1]
    /\ cpc' = [cpc EXCEPT ![c] = IF last[c] + 1 = new[c] THEN After(c) ELSE @]

Advance(c) ==
    /\ last' = [last EXCEPT ![c] = @ + 1]
    /\ cpc' = [cpc EXCEPT ![c] = IF last[c] + 1 = new[c] THEN After(c) ELSE @]

(* mcast_accum_record passes over a record whose revision it has sent. *)
Passes(c) == c \in Senders /\ view[c][Slot(c)].rev = rec[Slot(c)].rev

(* The record a slot names is copied, or passed over for its revision; in  *)
(* a storage created again the same revision can be another write.         *)
Copy(c, lost) ==
    LET i == Slot(c) IN
    /\ view' = IF Passes(c) THEN view ELSE [view EXCEPT ![c][i] = rec[i]]
    /\ missed' = [missed EXCEPT ![c] = lost \ {i}]
    /\ stale' = [stale EXCEPT ![c] = IF view'[c][i] = rec[i] THEN @ \ {i} ELSE @ \cup {i}]

(* One entry is read and the record it names is copied.                    *)
ReadEntry(c) ==
    /\ cpc[c] = "scan"
    /\ Copy(c, Missed(c))
    /\ Advance(c)
    /\ UNCHANGED <<queue, new, seen, early>>

(* The sender's scan ends early, the entry not consumed, when staging a    *)
(* changed record had to send the packet before it (the record is staged)  *)
(* or could not send it (BLOCKED, nothing is staged).                      *)
EndScan(c) ==
    /\ cpc[c] = "scan" /\ c \in Senders /\ ~Passes(c)
    /\ cpc' = [cpc EXCEPT ![c] = After(c)]
    /\ Copy(c, missed[c]) \/ UNCHANGED <<view, missed, stale>>
    /\ UNCHANGED <<queue, last, new, seen, early>>

-----------------------------------------------------------------------------
Write == \E i \in Ids : UpdateRecord(i)
Queue == StoreSlot \/ AdvanceHead
TakeOver == KeepRecords \/ ZeroRecords \/ ZeroHead \/ ZeroQueue
Consume(c) == Check(c) \/ PollEmpty(c) \/ Poll(c) \/ ReadEntry(c)

Next ==
    \/ Write \/ Queue \/ Recreate \/ TakeOver
    \/ \E c \in Consumers : Start(c) \/ Consume(c) \/ EndScan(c)

Spec == Init /\ [][Next]_vars

(* A writer that has begun an update finishes it; a consumer keeps         *)
(* polling, and the multicast socket does not stay blocked forever: a      *)
(* changed record that the sender tries again and again is staged.         *)
Staging(c) == (ReadEntry(c) \/ EndScan(c)) /\ view' # view

FairSpec ==
    /\ Spec /\ WF_vars(Queue) /\ WF_vars(TakeOver)
    /\ \A c \in Consumers : WF_vars(Poll(c) \/ PollEmpty(c) \/ Check(c))
    /\ \A c \in Consumers \ Senders : WF_vars(ReadEntry(c))
    /\ \A c \in Senders : SF_vars(ReadEntry(c)) /\ SF_vars(Staging(c))

-----------------------------------------------------------------------------
(* Every entry less than Cap behind the head is in its slot, also while    *)
(* the writer is between the slot and the head (storage_write_queue) and   *)
(* while the queue is reset.  The entry exactly Cap behind may already be  *)
(* overwritten.                                                            *)
WindowIntact ==
    \A i \in 0..(q_head - 1) : i + Cap > q_head => change_q[i % Cap] = log[i + 1].id

(* What a consumer may be wrong about because the storage was created      *)
(* again: nothing if that has not happened since it started, unless it     *)
(* started before the reset that belongs to the creation.                  *)
Unseen(c) == IF created # seen[c] \/ c \in early THEN stale[c] ELSE {}

(* A consumer that has caught up holds the current contents of every       *)
(* record, but for those whose queue entry the writer reused before the    *)
(* consumer read it and those it skipped with -Q: the bounded queue loses  *)
(* no change in any other way.  One that goes on after the storage was     *)
(* created again may also lack the records that were zeroed or left by a   *)
(* writer that died, those queued before its own position, and those       *)
(* written again up to the revision it had sent.                           *)
LossOnlyByLap ==
    \A c \in Consumers :
        cpc[c] = "poll" /\ last[c] = q_head /\ wpc = "idle"
        => \A i \in Ids \ (missed[c] \cup Unseen(c)) : view[c][i] = rec[i]

(* The same without the exceptions: without -Q an overrun of the queue     *)
(* ends the consumer with an error and is never silent.                    *)
OverrunIsReported ==
    \A c \in Consumers \ Ignoring :
        cpc[c] = "poll" /\ last[c] = q_head /\ wpc = "idle" => view[c] = rec

(* An entry still in its slot leads to a record at least as new as the     *)
(* write that queued it: the record is written before its queue entry.     *)
(* Only a revision that a new creation repeats is passed over; a reset     *)
(* zeroes the records before it takes their entries away, and one that is  *)
(* cut short there never takes them away.                                  *)
Emptied(i) == rec[i] = Zero /\ created > 1
EntryLeadsToItsWrite ==
    [][\A c \in Consumers :
          last'[c] = last[c] + 1 /\ cpc[c] = "scan" /\ ~Reused(c) /\ HasEntry(c)
          => LET e == log[last[c] + 1] IN
             view'[c][e.id].n >= e.n \/ e.id \in Unseen(c)' \/ Emptied(e.id)]_vars

(* Except for the sender that ignores overruns (mcast_on_write then sets   *)
(* its position far back), a scan in progress has at most Cap entries      *)
(* left, so that the sender returns to its heartbeats and clients after a  *)
(* bounded number of records, also when the head jumped back.              *)
ScanBounded ==
    \A c \in Consumers \ (Senders \cap Ignoring) :
        cpc[c] = "scan" => last[c] < new[c] /\ new[c] - last[c] <= Cap

(* When the writer pauses, every consumer reaches the head or reports an   *)
(* overrun or the creation, also when the head was set back meanwhile.     *)
CatchesUp ==
    <>[](\A c \in Consumers : cpc[c] \in {"off", "overrun", "recreated"} \/ last[c] = q_head)
=============================================================================
