------------------------- MODULE ChangeQueueProofs -------------------------
(***************************************************************************)
(* Proofs about ChangeQueue for every capacity, every set of identifiers   *)
(* and any number of consumers of every kind, and for any number of        *)
(* creations of the storage.                                               *)
(***************************************************************************)
EXTENDS ChangeQueue, TLAPS

(* Slots of entries less than a capacity apart are different. *)
LEMMA SlotsDiffer ==
    ASSUME NEW i \in Nat, NEW j \in Nat, i < j, j < i + Cap
    PROVE  i % Cap # j % Cap
<1> DEFINE qi == i \div Cap
           qj == j \div Cap
<1>1. /\ qi \in Int /\ qj \in Int
      /\ i = Cap * qi + (i % Cap) /\ j = Cap * qj + (j % Cap)
  BY QueueAssumption
<1>2. SUFFICES ASSUME i % Cap = j % Cap PROVE FALSE
  BY Zenon
<1>3. j - i = Cap * qj - Cap * qi
  BY <1>1, <1>2, QueueAssumption
<1>4. j - i = Cap * (qj - qi)
  BY <1>1, <1>3, QueueAssumption
<1>5. ASSUME NEW n \in Nat, NEW k \in Int, k >= 1 PROVE n * k >= n
  <2>1. n * (k - 1) >= 0
    BY <1>5
  <2>2. n * k = n * (k - 1) + n
    BY <1>5
  <2> QED BY <2>1, <2>2
<1>6. ASSUME NEW n \in Nat, NEW k \in Int, k <= 0 PROVE n * k <= 0
  BY <1>6
<1> HIDE DEF qi, qj
<1>7. CASE qj - qi >= 1
  <2>1. Cap * (qj - qi) >= Cap
    BY <1>1, <1>5, <1>7, QueueAssumption
  <2> QED BY <1>4, <2>1, QueueAssumption
<1>8. CASE qj - qi <= 0
  <2>1. Cap * (qj - qi) <= 0
    BY <1>1, <1>6, <1>8, QueueAssumption
  <2> QED BY <1>4, <2>1, QueueAssumption
<1> QED BY <1>1, <1>7, <1>8

(* A slot index is one of the queue's. *)
LEMMA SlotIndex == ASSUME NEW i \in Int PROVE i % Cap \in 0..(Cap - 1)
BY QueueAssumption

-----------------------------------------------------------------------------
(* Types. *)

(* What Copy leaves behind has the right types. *)
LEMMA CopyType ==
    ASSUME TypeOK, NEW c \in Consumers, NEW lost \in SUBSET Ids, Copy(c, lost)
    PROVE  /\ Slot(c) \in Ids
           /\ view' \in [Consumers -> [Ids -> Contents]]
           /\ missed' \in [Consumers -> SUBSET Ids] /\ stale' \in [Consumers -> SUBSET Ids]
<1>1. Slot(c) \in Ids
  BY SlotIndex, Zenon DEF TypeOK, Slot
<1>2. view' \in [Consumers -> [Ids -> Contents]]
  BY <1>1, Zenon DEF TypeOK, Copy
<1>3. missed' \in [Consumers -> SUBSET Ids]
  BY <1>1, Zenon DEF TypeOK, Copy
<1>4. stale' \in [Consumers -> SUBSET Ids]
  BY <1>1, Zenon DEF TypeOK, Copy
<1> QED BY <1>1, <1>2, <1>3, <1>4, Zenon

LEMMA LogType ==
    ASSUME TypeOK
    PROVE  /\ DOMAIN log = 1..q_head
           /\ \A k \in DOMAIN log : log[k].id \in Ids /\ log[k].n \in Nat
<1> DEFINE E == [id : Ids, n : Nat]
<1>1. log \in Seq(E) /\ Len(log) = q_head
  BY Zenon DEF TypeOK
<1> HIDE DEF E
<1>2. DOMAIN log = 1..Len(log) /\ \A k \in 1..Len(log) : log[k] \in E
  BY <1>1
<1>3. \A e \in E : e.id \in Ids /\ e.n \in Nat
  BY Zenon DEF E
<1> QED BY <1>1, <1>2, <1>3, Zenon

LEMMA MissedType ==
    ASSUME TypeOK, NEW c \in Consumers
    PROVE  Missed(c) \subseteq Ids /\ Skipped(c) \subseteq Ids
<1>1. \A k \in DOMAIN log : log[k].id \in Ids
  BY LogType, Zenon
<1>2. Missed(c) \subseteq Ids
  BY <1>1, Zenon DEF TypeOK, Missed, Reused, HasEntry
<1>3. Skipped(c) \subseteq Ids
  BY <1>1, Zenon DEF Skipped
<1> QED BY <1>2, <1>3, Zenon

LEMMA StaleType ==
    ASSUME TypeOK, NEW C, NEW S \in SUBSET Ids, Stale(C, S)
    PROVE  stale' \in [Consumers -> SUBSET Ids]
BY Zenon DEF TypeOK, Stale

LEMMA WriterType ==
    ASSUME TypeOK, Write \/ Queue \/ Recreate \/ TakeOver
    PROVE  TypeOK'
<1> USE QueueAssumption DEF TypeOK, consumer
<1>1. CASE Write
  BY <1>1 DEF Write, UpdateRecord, Contents
<1>2. CASE StoreSlot
  BY <1>2, SlotIndex, Zenon DEF StoreSlot
<1>3. CASE AdvanceHead
  <2>1. stale' \in [Consumers -> SUBSET Ids]
    BY <1>3, StaleType DEF AdvanceHead
  <2> QED BY <1>3, <2>1 DEF AdvanceHead
<1>4. CASE Recreate
  <2>1. stale' \in [Consumers -> SUBSET Ids]
    BY <1>4, StaleType, Zenon DEF Recreate
  <2> QED BY <1>4, <2>1 DEF Recreate
<1>5. CASE KeepRecords
  BY <1>5, Zenon DEF KeepRecords
<1>6. CASE ZeroRecords
  <2>1. stale' \in [Consumers -> SUBSET Ids]
    BY <1>6, StaleType, Zenon DEF ZeroRecords
  <2> QED BY <1>6, <2>1, Zenon DEF ZeroRecords, Zero, Contents
<1>7. CASE ZeroHead
  BY <1>7 DEF ZeroHead
<1>8. CASE ZeroQueue
  BY <1>8, Zenon DEF ZeroQueue
<1> QED BY <1>1, <1>2, <1>3, <1>4, <1>5, <1>6, <1>7, <1>8, Zenon DEF Queue, TakeOver

LEMMA ConsumerType ==
    ASSUME TypeOK, NEW c \in Consumers, Start(c) \/ Consume(c) \/ EndScan(c)
    PROVE  TypeOK'
<1> USE QueueAssumption DEF TypeOK, queue
<1>0. After(c) \in {"check", "poll"}
  BY Zenon DEF After
<1>1. CASE Start(c)
  BY <1>1 DEF Start
<1>2. CASE Check(c)
  BY <1>2, Zenon DEF Check
<1>3. CASE PollEmpty(c)
  BY <1>0, <1>3 DEF PollEmpty
<1>4. CASE Poll(c)
  <2>1. missed' \in [Consumers -> SUBSET Ids]
    <3>1. Skipped(c) \subseteq Ids
      BY MissedType, Zenon
    <3>2. missed' \in {missed, [missed EXCEPT ![c] = @ \cup Skipped(c)]}
      BY <1>4, Zenon DEF Poll
    <3> QED BY <3>1, <3>2, ZenonT(30)
  <2>2. last' \in [Consumers -> Int] /\ new' \in [Consumers -> Int]
    BY <1>4 DEF Poll, Resume
  <2>3. cpc' \in [Consumers -> {"off", "poll", "scan", "check", "overrun", "recreated"}]
    BY <1>4, Zenon DEF Poll
  <2>4. UNCHANGED <<queue, seen, view, early, stale>>
    BY <1>4, Zenon DEF Poll
  <2> QED BY <2>1, <2>2, <2>3, <2>4, Zenon
<1>5. CASE ReadEntry(c)
  <2>1. Copy(c, Missed(c))
    BY <1>5, Zenon DEF ReadEntry
  <2>2. /\ view' \in [Consumers -> [Ids -> Contents]]
        /\ missed' \in [Consumers -> SUBSET Ids] /\ stale' \in [Consumers -> SUBSET Ids]
    BY <2>1, CopyType, MissedType, Zenon
  <2>3. last' \in [Consumers -> Int]
    BY <1>5 DEF ReadEntry, Advance
  <2>4. cpc' \in [Consumers -> {"off", "poll", "scan", "check", "overrun", "recreated"}]
    BY <1>0, <1>5, Zenon DEF ReadEntry, Advance
  <2> QED BY <1>5, <2>2, <2>3, <2>4, Zenon DEF ReadEntry
<1>6. CASE EndScan(c)
  <2>1. /\ view' \in [Consumers -> [Ids -> Contents]]
        /\ missed' \in [Consumers -> SUBSET Ids] /\ stale' \in [Consumers -> SUBSET Ids]
    <3>1. CASE Copy(c, missed[c])
      BY <3>1, CopyType, Zenon
    <3>2. CASE UNCHANGED <<view, missed, stale>>
      BY <3>2, Zenon
    <3> QED BY <1>6, <3>1, <3>2, Zenon DEF EndScan
  <2> QED BY <1>0, <1>6, <2>1, Zenon DEF EndScan
<1> QED BY <1>1, <1>2, <1>3, <1>4, <1>5, <1>6, Zenon DEF Consume

LEMMA TypeStep == TypeOK /\ [Next]_vars => TypeOK'
<1> SUFFICES ASSUME TypeOK, [Next]_vars PROVE TypeOK'
  BY Zenon
<1>1. CASE UNCHANGED vars
  BY <1>1, Zenon DEF vars, queue, consumer, TypeOK
<1> QED BY <1>1, WriterType, ConsumerType, Zenon DEF Next

LEMMA TypeInit == Init => TypeOK
BY QueueAssumption DEF Init, TypeOK, Contents, Zero

(* The types of the queue, the records, and the positions of consumers     *)
(* (the fields of struct segment and the loops that follow the queue).     *)
THEOREM TypeCorrect == Spec => []TypeOK
BY TypeInit, TypeStep, PTL DEF Spec

-----------------------------------------------------------------------------
(* The window.  The writer's entry is in its slot before the head passes   *)
(* it, and the queue is zeroed only when the head is.                      *)
QInv ==
    /\ WindowIntact
    /\ wpc = "slot" => change_q[q_head % Cap] = wid
    /\ wpc = "head" => q_head = 0

(* The step that can disturb the window is the store of a slot: its index  *)
(* differs from those of the entries less than Cap behind the head.        *)
LEMMA QStep == TypeOK /\ QInv /\ [Next]_vars => QInv'
<1> SUFFICES ASSUME TypeOK, QInv, [Next]_vars PROVE QInv'
  BY Zenon
<1> USE QueueAssumption DEF QInv
<1>1. CASE UNCHANGED <<change_q, q_head, log, wpc, wid>>
  BY <1>1, Zenon DEF WindowIntact
<1>2. CASE Write
  BY <1>2, Zenon DEF Write, UpdateRecord, WindowIntact
<1>3. CASE StoreSlot
  <2>1. change_q' = [change_q EXCEPT ![q_head % Cap] = wid] /\ UNCHANGED <<q_head, log, wid>>
    BY <1>3, Zenon DEF StoreSlot
  <2>2. change_q'[q_head % Cap] = wid
    BY <2>1, SlotIndex DEF TypeOK
  <2>3. ASSUME NEW i \in 0..(q_head - 1), i + Cap > q_head PROVE i % Cap # q_head % Cap
    <3>1. q_head \in Nat /\ i \in Nat /\ i < q_head /\ q_head < i + Cap
      BY <2>3 DEF TypeOK
    <3> QED BY <3>1, SlotsDiffer, Zenon
  <2>4. \A i \in 0..(q_head - 1) : i + Cap > q_head => change_q'[i % Cap] = change_q[i % Cap]
    BY <2>1, <2>3, SlotIndex DEF TypeOK
  <2> QED BY <1>3, <2>1, <2>2, <2>4, Zenon DEF StoreSlot, WindowIntact
<1>4. CASE AdvanceHead
  <2>1. /\ q_head' = q_head + 1 /\ change_q' = change_q /\ wpc' = "idle"
        /\ change_q[q_head % Cap] = wid /\ log' = Append(log, [id |-> wid, n |-> writes])
    BY <1>4, Zenon DEF AdvanceHead
  <2>2. log'[q_head + 1].id = wid
    <3> DEFINE e == [id |-> wid, n |-> writes]
    <3>1. e \in [id : Ids, n : Nat] /\ e.id = wid
      BY Zenon DEF TypeOK
    <3> HIDE DEF e
    <3>2. log'[q_head + 1] = e
      BY <2>1, <3>1 DEF TypeOK, e
    <3> QED BY <3>1, <3>2, Zenon
  <2>3. \A i \in 0..(q_head - 1) : log'[i + 1] = log[i + 1]
    BY <2>1 DEF TypeOK
  <2>4. ASSUME NEW i \in 0..q_head, i + Cap > q_head + 1
        PROVE  change_q[i % Cap] = log'[i + 1].id
    <3>1. CASE i = q_head
      BY <2>1, <2>2, <3>1, Zenon
    <3>2. CASE i < q_head
      <4>1. i \in 0..(q_head - 1) /\ i + Cap > q_head
        BY <2>4, <3>2 DEF TypeOK
      <4> QED BY <4>1, <2>3, Zenon DEF WindowIntact
    <3> QED BY <3>1, <3>2 DEF TypeOK
  <2>5. WindowIntact'
    <3>1. q_head' - 1 = q_head
      BY <2>1 DEF TypeOK
    <3> QED BY <2>1, <2>4, <3>1, Zenon DEF WindowIntact
  <2> QED BY <2>1, <2>5, Zenon
<1>5. CASE Recreate
  BY <1>5, Zenon DEF Recreate, WindowIntact
<1>6. CASE TakeOver
  <2>1. CASE ZeroHead
    BY <2>1 DEF ZeroHead, WindowIntact
  <2>2. CASE ZeroQueue
    BY <2>2 DEF ZeroQueue, WindowIntact
  <2> QED BY <1>6, <2>1, <2>2, Zenon DEF TakeOver, KeepRecords, ZeroRecords, WindowIntact
<1>7. ASSUME NEW c \in Consumers, Start(c) \/ Consume(c) \/ EndScan(c)
      PROVE  UNCHANGED queue
  BY <1>7, Zenon DEF Start, Consume, Check, PollEmpty, Poll, ReadEntry, EndScan
<1> QED BY <1>1, <1>2, <1>3, <1>4, <1>5, <1>6, <1>7, Zenon DEF Next, Queue, vars, queue

(* storage_write_queue keeps every entry less than a capacity behind the   *)
(* head in its slot, whoever dies and takes over.                          *)
THEOREM WindowIntactTheorem == Spec => []WindowIntact
<1>1. Init => QInv
  BY DEF Init, QInv, WindowIntact
<1>2. QInv => WindowIntact
  BY Zenon DEF QInv
<1> QED BY <1>1, <1>2, QStep, TypeInit, TypeStep, PTL DEF Spec

-----------------------------------------------------------------------------
(* The length of a scan. *)

LEMMA ScanStep == TypeOK /\ ScanBounded /\ [Next]_vars => ScanBounded'
<1> SUFFICES ASSUME TypeOK, ScanBounded, [Next]_vars,
                    NEW d \in Consumers \ (Senders \cap Ignoring), cpc'[d] = "scan"
             PROVE  last'[d] < new'[d] /\ new'[d] - last'[d] <= Cap
  BY Zenon DEF ScanBounded
<1> USE QueueAssumption
<1>1. CASE UNCHANGED <<cpc, last, new>>
  BY <1>1, Zenon DEF ScanBounded
<1>2. CASE Write \/ Queue \/ Recreate \/ TakeOver
  BY <1>1, <1>2, Zenon DEF Write, UpdateRecord, Queue, StoreSlot, AdvanceHead, Recreate,
     TakeOver, KeepRecords, ZeroRecords, ZeroHead, ZeroQueue, consumer
<1>3. ASSUME NEW c \in Consumers, Start(c) \/ Consume(c) \/ EndScan(c)
      PROVE  last'[d] < new'[d] /\ new'[d] - last'[d] <= Cap
  <2>1. CASE Start(c) \/ Check(c) \/ PollEmpty(c) \/ EndScan(c)
    <3>1. c # d /\ cpc[d] = "scan"
      BY <2>1, Zenon DEF Start, Check, PollEmpty, EndScan, After, TypeOK
    <3>2. last'[d] = last[d] /\ new'[d] = new[d]
      BY <2>1, <3>1, Zenon DEF Start, Check, PollEmpty, EndScan, TypeOK
    <3> QED BY <3>1, <3>2, Zenon DEF ScanBounded
  <2>2. CASE Poll(c) /\ c = d
    <3>1. /\ ~(Overrun(c) /\ c \notin Ignoring) /\ HasEntries(c)
          /\ last'[c] = IF Overrun(c) THEN Resume(c) ELSE last[c]
          /\ new'[c] = IF c \in Batches /\ q_head - last[c] > Count THEN last[c] + Count ELSE q_head
      BY <2>2, Zenon DEF Poll, TypeOK
    <3>2. CASE Overrun(c)
      <4>1. c \in Ignoring /\ c \notin Senders /\ c \notin Batches
        BY <2>2, <3>1, <3>2, Zenon
      <4> QED BY <2>2, <3>1, <3>2, <4>1 DEF Resume, TypeOK
    <3>3. CASE ~Overrun(c)
      <4>1. last[c] \in Int /\ q_head \in Int /\ last[c] < q_head /\ q_head - last[c] <= Cap
        BY <2>2, <3>1, <3>3 DEF Overrun, HasEntries, TypeOK
      <4> QED BY <2>2, <3>1, <3>3, <4>1
    <3> QED BY <3>2, <3>3, Zenon
  <2>3. CASE ReadEntry(c) /\ c = d
    <3>1. last'[c] = last[c] + 1 /\ last[c] + 1 # new[c] /\ new' = new /\ cpc[c] = "scan"
      BY <2>3, Zenon DEF ReadEntry, Advance, After, TypeOK
    <3> QED BY <2>3, <3>1 DEF ScanBounded, TypeOK
  <2>4. CASE (Poll(c) \/ ReadEntry(c)) /\ c # d
    <3>1. cpc'[d] = cpc[d] /\ last'[d] = last[d] /\ new'[d] = new[d]
      BY <2>4, Zenon DEF Poll, ReadEntry, Advance, TypeOK
    <3> QED BY <3>1, Zenon DEF ScanBounded
  <2> QED BY <1>3, <2>1, <2>2, <2>3, <2>4, Zenon DEF Consume
<1> QED BY <1>1, <1>2, <1>3, Zenon DEF Next, vars, consumer

(* A scan that has begun has at most Cap entries left, for every consumer  *)
(* but the sender with -Q, also when the head is set back (the comparison  *)
(* with the capacity in mcast_on_write, reader.c and batch.c).             *)
THEOREM ScanBoundedTheorem == Spec => []ScanBounded
<1>1. Init => ScanBounded
  BY Zenon DEF Init, ScanBounded
<1> QED BY <1>1, ScanStep, TypeInit, TypeStep, PTL DEF Spec

-----------------------------------------------------------------------------
(* What a consumer will still be told of record i: an entry beyond its     *)
(* position, or the update the writer is in.                               *)
Pending(c, i) == \E k \in DOMAIN log : k > last[c] /\ log[k].id = i
Writing(i) == wpc \in {"record", "slot"} /\ wid = i
Told(c) ==
    \A i \in Ids \ (missed[c] \cup stale[c]) : view[c][i] = rec[i] \/ Pending(c, i) \/ Writing(i)

(* When the records are zeroed and the head is not, no entry counts.       *)
Zeroed(c) == wpc = "records" => \A i \in Ids \ stale[c] : view[c][i] = rec[i]

(* A consumer that has seen the whole of the current creation: no surprise *)
(* is left for it, and a revision stands for one write only.               *)
Current(c) == created = seen[c] /\ c \notin early
Sound(c) ==
    /\ wpc \notin {"created", "records"} /\ stale[c] = {} /\ last[c] <= q_head
    /\ c \in Senders => last[c] >= 0
    /\ cpc[c] = "scan" => last[c] < new[c] /\ new[c] <= q_head
    /\ \A i \in Ids : /\ view[c][i].rev <= rec[i].rev
                      /\ view[c][i].rev = rec[i].rev => view[c][i] = rec[i]

CInv(c) ==
    IF cpc[c] = "off" THEN stale[c] = {}
    ELSE Told(c) /\ Zeroed(c) /\ seen[c] <= created /\ (Current(c) => Sound(c))

LInv == \A c \in Consumers : CInv(c)

LEMMA Fields ==
    ASSUME TypeOK, NEW c \in Consumers
    PROVE  /\ last[c] \in Int /\ new[c] \in Int /\ seen[c] \in Nat
           /\ view[c] \in [Ids -> Contents] /\ stale[c] \subseteq Ids /\ missed[c] \subseteq Ids
           /\ q_head \in Nat /\ created \in Nat /\ wid \in Ids
BY Zenon DEF TypeOK

(* A writer changes nothing of a consumer but what history says of it. *)
LEMMA WriterKeeps ==
    ASSUME TypeOK, LInv, NEW c \in Consumers, Write \/ Queue \/ Recreate \/ TakeOver
    PROVE  CInv(c)'
<1>0. CInv(c)
  BY Zenon DEF LInv
<1> USE DEF consumer
<1>1. CASE Write
  <2>1. PICK i \in Ids : UpdateRecord(i)
    BY <1>1, Zenon DEF Write
  <2>2. /\ wpc = "idle" /\ wpc' = "record" /\ wid' = i /\ UNCHANGED <<consumer, stale, log, q_head, created>>
        /\ rec' = [rec EXCEPT ![i] = [rev |-> @.rev + 1, n |-> writes + 1]]
    BY <2>1, Zenon DEF UpdateRecord
  <2>3. CASE cpc[c] = "off"
    BY <1>0, <2>2, <2>3, Zenon DEF CInv
  <2>4. CASE cpc[c] # "off"
    <3>1. Told(c)'
      <4>1. \A j \in Ids \ {i} : rec'[j] = rec[j]
        BY <2>2, Zenon DEF TypeOK
      <4> QED BY <1>0, <2>2, <2>4, <4>1, Zenon DEF CInv, Told, Pending, Writing
    <3>2. Current(c)' => Sound(c)'
      <4> SUFFICES ASSUME Current(c)' PROVE Sound(c)'
        BY Zenon
      <4>1. Sound(c)
        BY <1>0, <2>2, <2>4, Zenon DEF CInv, Current
      <4>2. ASSUME NEW j \in Ids
            PROVE  /\ view'[c][j].rev <= rec'[j].rev
                   /\ view'[c][j].rev = rec'[j].rev => view'[c][j] = rec'[j]
        <5>1. /\ view[c][j].rev \in Nat /\ rec[j].rev \in Nat /\ view' = view
              /\ view[c][j].rev <= rec[j].rev
              /\ view[c][j].rev = rec[j].rev => view[c][j] = rec[j]
          BY <2>2, <4>1, Zenon DEF Sound, TypeOK, Contents
        <5>2. CASE j # i
          BY <2>2, <5>1, <5>2, Zenon DEF TypeOK
        <5>3. CASE j = i
          <6>1. rec'[j].rev = rec[j].rev + 1
            BY <2>2, <5>3, Zenon DEF TypeOK
          <6> QED BY <5>1, <6>1
        <5> QED BY <5>2, <5>3, Zenon
      <4> QED BY <2>2, <4>1, <4>2, Zenon DEF Sound
    <3> QED BY <1>0, <2>2, <2>4, <3>1, <3>2, Zenon DEF CInv, Zeroed
  <2> QED BY <2>3, <2>4, Zenon
<1>2. CASE StoreSlot
  <2>1. wpc = "record" /\ wpc' = "slot" /\ UNCHANGED <<consumer, stale, log, q_head, created, rec, wid>>
    BY <1>2, Zenon DEF StoreSlot
  <2> QED BY <1>0, <2>1, Zenon DEF CInv, Told, Pending, Writing, Zeroed, Current, Sound
<1>3. CASE AdvanceHead
  <2>1. /\ wpc = "slot" /\ wpc' = "idle" /\ UNCHANGED <<consumer, created, rec, wid>>
        /\ q_head' = q_head + 1 /\ log' = Append(log, [id |-> wid, n |-> writes])
        /\ Stale({d \in Following : last[d] > q_head}, {wid})
    BY <1>3, Zenon DEF AdvanceHead
  <2>2. /\ DOMAIN log = 1..q_head /\ DOMAIN log' = 1..(q_head + 1) /\ log'[q_head + 1].id = wid
        /\ \A k \in DOMAIN log : log'[k] = log[k]
    <3> DEFINE E == [id : Ids, n : Nat]
               e == [id |-> wid, n |-> writes]
    <3>1. e \in E /\ e.id = wid /\ log \in Seq(E) /\ Len(log) = q_head
      BY Zenon DEF TypeOK
    <3> HIDE DEF E, e
    <3>2. log' = Append(log, e)
      BY <2>1, Zenon DEF e
    <3>3. /\ DOMAIN log = 1..q_head /\ DOMAIN log' = 1..(q_head + 1) /\ log'[q_head + 1] = e
          /\ \A k \in 1..q_head : log'[k] = log[k]
      BY <3>1, <3>2
    <3> QED BY <3>1, <3>3, Zenon
  <2>3. CASE cpc[c] = "off"
    BY <1>0, <2>1, <2>3, Zenon DEF CInv, Stale, Following
  <2>4. CASE cpc[c] # "off"
    <3>1. stale'[c] = IF last[c] > q_head THEN stale[c] \cup {wid} ELSE stale[c]
      BY <2>1, <2>4, Zenon DEF Stale, Following
    <3>2. ASSUME NEW i \in Ids \ (missed[c] \cup stale'[c])
          PROVE  view[c][i] = rec[i] \/ \E k \in DOMAIN log' : k > last[c] /\ log'[k].id = i
      <4>1. view[c][i] = rec[i] \/ Pending(c, i) \/ Writing(i)
        BY <1>0, <2>4, <3>1, <3>2, Zenon DEF CInv, Told
      <4>2. CASE Pending(c, i)
        <5>1. PICK k \in DOMAIN log : k > last[c] /\ log[k].id = i
          BY <4>2, Zenon DEF Pending
        <5>2. k \in DOMAIN log' /\ log'[k].id = i
          BY <2>2, <5>1, Fields
        <5> QED BY <5>1, <5>2, Zenon
      <4>3. CASE Writing(i)
        <5>1. i = wid /\ last[c] <= q_head /\ q_head + 1 \in DOMAIN log'
          BY <2>2, <3>1, <3>2, <4>3, Fields DEF Writing
        <5>2. q_head + 1 > last[c] /\ log'[q_head + 1].id = i
          BY <2>2, <5>1, Fields
        <5> QED BY <5>1, <5>2, Zenon
      <4> QED BY <4>1, <4>2, <4>3, Zenon
    <3>3. Told(c)'
      BY <2>1, <3>2, Zenon DEF Told, Pending
    <3>4. Current(c)' => Sound(c)'
      <4> SUFFICES ASSUME Current(c)' PROVE Sound(c)'
        BY Zenon
      <4>1. Sound(c)
        BY <1>0, <2>1, <2>4, Zenon DEF CInv, Current
      <4>2. stale'[c] = {} /\ last[c] <= q_head' /\ (cpc[c] = "scan" => new[c] <= q_head')
        BY <2>1, <3>1, <4>1, Fields DEF Sound
      <4> QED BY <2>1, <4>1, <4>2, Zenon DEF Sound
    <3> QED BY <1>0, <2>1, <2>4, <3>3, <3>4, Zenon DEF CInv, Zeroed
  <2> QED BY <2>3, <2>4, Zenon
<1>4. CASE Recreate
  <2>1. /\ wpc' = "created" /\ UNCHANGED <<consumer, rec, wid, log, q_head>> /\ created' = created + 1
        /\ Stale(Following, IF wpc \in {"record", "slot"} THEN {wid} ELSE {})
    BY <1>4, Zenon DEF Recreate
  <2>2. CASE cpc[c] = "off"
    BY <1>0, <2>1, <2>2, Zenon DEF CInv, Stale, Following
  <2>3. CASE cpc[c] # "off"
    <3>1. stale'[c] = stale[c] \cup IF wpc \in {"record", "slot"} THEN {wid} ELSE {}
      BY <2>1, <2>3, Zenon DEF Stale, Following
    <3>2. Told(c)'
      BY <1>0, <2>1, <2>3, <3>1, Zenon DEF CInv, Told, Pending, Writing
    <3>3. seen'[c] <= created' /\ ~Current(c)'
      BY <1>0, <2>1, <2>3, Fields DEF CInv, Current
    <3> QED BY <2>1, <2>3, <3>2, <3>3, Zenon DEF CInv, Zeroed
  <2> QED BY <2>2, <2>3, Zenon
<1>5. CASE KeepRecords
  <2>1. wpc = "created" /\ wpc' = "idle" /\ UNCHANGED <<consumer, stale, log, q_head, created, rec, wid>>
    BY <1>5, Zenon DEF KeepRecords
  <2> QED BY <1>0, <2>1, Zenon DEF CInv, Told, Pending, Writing, Zeroed, Current, Sound
<1>6. CASE ZeroRecords
  <2>1. /\ wpc = "created" /\ wpc' = "records" /\ UNCHANGED <<consumer, log, q_head, created, wid>>
        /\ Stale(Following, Ids)
    BY <1>6, Zenon DEF ZeroRecords
  <2>2. CASE cpc[c] = "off"
    BY <1>0, <2>1, <2>2, Zenon DEF CInv, Stale, Following
  <2>3. CASE cpc[c] # "off"
    <3>1. stale'[c] = stale[c] \cup Ids
      BY <2>1, <2>3, Zenon DEF Stale, Following
    <3>2. Told(c)' /\ Zeroed(c)'
      BY <3>1, Zenon DEF Told, Zeroed
    <3>3. ~Current(c)' /\ seen'[c] <= created'
      BY <1>0, <2>1, <2>3, Zenon DEF CInv, Current, Sound
    <3> QED BY <2>1, <2>3, <3>2, <3>3, Zenon DEF CInv
  <2> QED BY <2>2, <2>3, Zenon
<1>7. CASE ZeroHead
  <2>1. wpc = "records" /\ wpc' = "head" /\ UNCHANGED <<consumer, stale, created, rec, wid>>
    BY <1>7, Zenon DEF ZeroHead
  <2> QED BY <1>0, <2>1, Zenon DEF CInv, Told, Zeroed, Current, Sound
<1>8. CASE ZeroQueue
  <2>1. wpc = "head" /\ wpc' = "idle" /\ UNCHANGED <<consumer, stale, log, q_head, created, rec, wid>>
    BY <1>8, Zenon DEF ZeroQueue
  <2> QED BY <1>0, <2>1, Zenon DEF CInv, Told, Pending, Writing, Zeroed, Current, Sound
<1> QED BY <1>1, <1>2, <1>3, <1>4, <1>5, <1>6, <1>7, <1>8, Zenon DEF Queue, TakeOver

(* What copying a record does to one consumer: the record it names is the  *)
(* current one afterwards, or known to be stale; nothing else changes.     *)
LEMMA CopyEffect ==
    ASSUME TypeOK, NEW c \in Consumers, NEW lost \in SUBSET Ids, Copy(c, lost)
    PROVE  LET i == Slot(c) IN
           /\ i \in Ids /\ i \notin missed'[c]
           /\ view'[c][i] = rec[i] \/ i \in stale'[c]
           /\ view'[c][i].rev = rec[i].rev
           /\ (view[c][i].rev = rec[i].rev => view[c][i] = rec[i])
              => view'[c][i] = rec[i] /\ stale'[c] = stale[c] \ {i}
           /\ \A j \in Ids \ {i} :
                 /\ view'[c][j] = view[c][j]
                 /\ j \in stale'[c] <=> j \in stale[c]
                 /\ j \in missed'[c] <=> j \in lost
<1> DEFINE i == Slot(c)
<1>1. i \in Ids
  BY CopyType, Zenon
<1> HIDE DEF i
<1>2. /\ view' = IF Passes(c) THEN view ELSE [view EXCEPT ![c][i] = rec[i]]
      /\ missed' = [missed EXCEPT ![c] = lost \ {i}]
      /\ stale' = [stale EXCEPT ![c] = IF view'[c][i] = rec[i] THEN @ \ {i} ELSE @ \cup {i}]
  BY Zenon DEF Copy, i
<1>3. Passes(c) => view[c][i].rev = rec[i].rev
  BY Zenon DEF Passes, i
<1>4. /\ view'[c][i] = IF Passes(c) THEN view[c][i] ELSE rec[i]
      /\ \A j \in Ids \ {i} : view'[c][j] = view[c][j]
  BY <1>1, <1>2, Zenon DEF TypeOK
<1>5. stale'[c] = IF view'[c][i] = rec[i] THEN stale[c] \ {i} ELSE stale[c] \cup {i}
  BY <1>2, Zenon DEF TypeOK
<1>6. missed'[c] = lost \ {i}
  BY <1>2, Zenon DEF TypeOK
<1>7. view'[c][i].rev = rec[i].rev
  BY <1>3, <1>4, Zenon
<1>8. (view[c][i].rev = rec[i].rev => view[c][i] = rec[i])
      => view'[c][i] = rec[i] /\ stale'[c] = stale[c] \ {i}
  BY <1>3, <1>4, <1>5, Zenon
<1> QED BY <1>1, <1>4, <1>5, <1>6, <1>7, <1>8, Zenon DEF i

(* A step of another consumer leaves this one alone. *)
LEMMA OthersKeep ==
    ASSUME TypeOK, LInv, NEW c \in Consumers, NEW d \in Consumers, c # d,
           Start(d) \/ Consume(d) \/ EndScan(d)
    PROVE  CInv(c)'
<1>1. CInv(c)
  BY Zenon DEF LInv
<1>2. UNCHANGED queue
  BY Zenon DEF Start, Consume, Check, PollEmpty, Poll, ReadEntry, EndScan
<1>3. /\ cpc'[c] = cpc[c] /\ last'[c] = last[c] /\ new'[c] = new[c] /\ seen'[c] = seen[c]
      /\ (c \in early') = (c \in early)
  BY DEF Start, Consume, Check, PollEmpty, Poll, ReadEntry, Advance, EndScan, TypeOK
<1>4. view'[c] = view[c] /\ missed'[c] = missed[c] /\ stale'[c] = stale[c]
  BY Zenon DEF Start, Consume, Check, PollEmpty, Poll, ReadEntry, EndScan, Copy, TypeOK
<1> QED BY <1>1, <1>2, <1>3, <1>4, Zenon
       DEF CInv, Told, Pending, Writing, Zeroed, Current, Sound, queue

-----------------------------------------------------------------------------
(* Where an entry leads. *)

(* An entry is no newer than the record it names, unless a reset emptied   *)
(* that record; a write after the reset is newer again.                    *)
NInv ==
    /\ created >= 1
    /\ \A i \in Ids : rec[i].n <= writes
    /\ wpc \in {"record", "slot"} => rec[wid].n = writes
    /\ wpc \in {"created", "records"} => created > 1
    /\ \A k \in DOMAIN log :
          log[k].n <= writes /\ (log[k].n <= rec[log[k].id].n \/ Emptied(log[k].id))

LEMMA NStep == TypeOK /\ NInv /\ [Next]_vars => NInv'
<1> SUFFICES ASSUME TypeOK, NInv, [Next]_vars PROVE NInv'
  BY Zenon
<1>0. /\ writes \in Nat /\ wid \in Ids /\ created \in Nat /\ \A i \in Ids : rec[i].n \in Nat
      /\ DOMAIN log = 1..q_head /\ \A k \in DOMAIN log : log[k].id \in Ids /\ log[k].n \in Nat
  BY LogType, Zenon DEF TypeOK, Contents
<1>1. CASE UNCHANGED queue
  BY <1>1, Zenon DEF queue, NInv, Emptied
<1>2. ASSUME NEW i \in Ids, UpdateRecord(i) PROVE NInv'
  <2>1. /\ wpc = "idle" /\ wpc' = "record" /\ wid' = i /\ writes' = writes + 1
        /\ log' = log /\ created' = created
        /\ rec' = [rec EXCEPT ![i] = [rev |-> @.rev + 1, n |-> writes + 1]]
    BY <1>2, Zenon DEF UpdateRecord
  <2>2. rec'[i].n = writes + 1 /\ \A j \in Ids \ {i} : rec'[j] = rec[j]
    BY <2>1, Zenon DEF TypeOK
  <2>3. \A j \in Ids : rec'[j].n <= writes + 1
    BY <1>0, <2>2 DEF NInv
  <2>4. ASSUME NEW k \in DOMAIN log
        PROVE  log[k].n <= writes + 1 /\ (log[k].n <= rec'[log[k].id].n \/ Emptied(log[k].id)')
    <3>1. CASE log[k].id = i
      BY <1>0, <2>2, <3>1 DEF NInv
    <3>2. CASE log[k].id # i
      BY <1>0, <2>1, <2>2, <3>2 DEF NInv, Emptied
    <3> QED BY <3>1, <3>2, Zenon
  <2> QED BY <2>1, <2>2, <2>3, <2>4, Zenon DEF NInv
<1>3. CASE AdvanceHead
  <2>1. /\ wpc = "slot" /\ wpc' = "idle" /\ UNCHANGED <<rec, wid, writes, created>>
        /\ log' = Append(log, [id |-> wid, n |-> writes])
    BY <1>3, Zenon DEF AdvanceHead
  <2>2. /\ DOMAIN log' = 1..(q_head + 1)
        /\ log'[q_head + 1].id = wid /\ log'[q_head + 1].n = writes
        /\ \A k \in 1..q_head : log'[k] = log[k]
    <3> DEFINE E == [id : Ids, n : Nat]
               e == [id |-> wid, n |-> writes]
    <3>1. e \in E /\ e.id = wid /\ e.n = writes /\ log \in Seq(E) /\ Len(log) = q_head
      BY Zenon DEF TypeOK
    <3> HIDE DEF E, e
    <3>2. log' = Append(log, e)
      BY <2>1, Zenon DEF e
    <3>3. /\ DOMAIN log' = 1..(q_head + 1) /\ log'[q_head + 1] = e
          /\ \A k \in 1..q_head : log'[k] = log[k]
      BY <3>1, <3>2
    <3> QED BY <3>1, <3>3, Zenon
  <2>3. ASSUME NEW k \in DOMAIN log'
        PROVE  log'[k].n <= writes /\ (log'[k].n <= rec[log'[k].id].n \/ Emptied(log'[k].id))
    <3>1. CASE k = q_head + 1
      BY <1>0, <2>1, <2>2, <3>1, Zenon DEF NInv
    <3>2. CASE k \in 1..q_head
      BY <1>0, <2>1, <2>2, <3>2, Zenon DEF NInv
    <3> QED BY <2>2, <3>1, <3>2 DEF TypeOK
  <2> QED BY <2>1, <2>3, Zenon DEF NInv, Emptied
<1>4. CASE StoreSlot \/ KeepRecords \/ ZeroQueue
  <2>1. UNCHANGED <<rec, wid, writes, log, created>>
    BY <1>4, Zenon DEF StoreSlot, KeepRecords, ZeroQueue
  <2>2. (wpc' = "slot" => wpc = "record") /\ wpc' \in {"slot", "idle"}
    BY <1>4, Zenon DEF StoreSlot, KeepRecords, ZeroQueue
  <2> QED BY <2>1, <2>2, Zenon DEF NInv, Emptied
<1>5. CASE Recreate
  <2>1. UNCHANGED <<rec, wid, writes, log>> /\ wpc' = "created" /\ created' = created + 1
    BY <1>5, Zenon DEF Recreate
  <2> QED BY <1>0, <2>1 DEF NInv, Emptied
<1>6. CASE ZeroRecords
  <2>1. /\ rec' = [i \in Ids |-> Zero] /\ wpc = "created" /\ wpc' = "records"
        /\ UNCHANGED <<writes, log, created>>
    BY <1>6, Zenon DEF ZeroRecords
  <2>2. \A i \in Ids : rec'[i] = Zero /\ rec'[i].n <= writes
    BY <1>0, <2>1 DEF Zero
  <2> QED BY <1>0, <2>1, <2>2, Zenon DEF NInv, Emptied
<1>7. CASE ZeroHead
  <2>1. log' = <<>> /\ wpc' = "head" /\ UNCHANGED <<rec, wid, writes, created>>
    BY <1>7, Zenon DEF ZeroHead
  <2> QED BY <2>1 DEF NInv
<1>8. ASSUME NEW c \in Consumers, Start(c) \/ Consume(c) \/ EndScan(c) PROVE UNCHANGED queue
  BY <1>8, Zenon DEF Start, Consume, Check, PollEmpty, Poll, ReadEntry, EndScan
<1> QED BY <1>1, <1>2, <1>3, <1>4, <1>5, <1>6, <1>7, <1>8, Zenon DEF Next, Write, Queue, TakeOver, vars

-----------------------------------------------------------------------------
(* A consumer passes an entry only to read its record or to count it as    *)
(* missed.                                                                 *)
LEMMA ConsumerKeeps ==
    ASSUME TypeOK, LInv, NEW c \in Consumers, Start(c) \/ Consume(c) \/ EndScan(c)
    PROVE  CInv(c)'
<1>q. UNCHANGED <<q_head, rec, created, wpc, wid, log>>
  BY Zenon DEF Start, Consume, Check, PollEmpty, Poll, ReadEntry, EndScan, queue
<1>0. CInv(c)
  BY Zenon DEF LInv
<1>b. /\ last[c] \in Int /\ new[c] \in Int /\ seen[c] \in Nat
      /\ view[c] \in [Ids -> Contents] /\ stale[c] \subseteq Ids /\ missed[c] \subseteq Ids
      /\ q_head \in Nat /\ created \in Nat /\ wid \in Ids
  BY Zenon DEF TypeOK
<1>a. After(c) \in {"check", "poll"}
  BY Zenon DEF After
<1>1. CASE Start(c)
  <2>1. /\ cpc[c] = "off" /\ cpc'[c] = "poll" /\ last'[c] = q_head /\ seen'[c] = created
        /\ view'[c] = rec /\ early' = IF wpc \in {"created", "records"} THEN early \cup {c} ELSE early
        /\ UNCHANGED <<q_head, rec, created, wpc, wid, log, stale>>
    BY <1>q, <1>1, Zenon DEF Start, TypeOK
  <2>2. stale[c] = {}
    BY <1>0, <2>1, Zenon DEF CInv
  <2>3. Current(c)' => Sound(c)'
    BY <2>1, <2>2, <1>b DEF Current, Sound, TypeOK, Contents
  <2> QED BY <2>1, <2>2, <2>3, <1>b DEF CInv, Told, Zeroed
<1>2. CASE Check(c)
  <2>1. /\ cpc[c] = "check" /\ cpc'[c] \in {"recreated", "poll"}
        /\ UNCHANGED <<q_head, rec, created, wpc, wid, log, last, new, seen, view, missed, early, stale>>
    BY <1>q, <1>2, Zenon DEF Check, TypeOK
  <2> QED BY <1>0, <2>1, Zenon DEF CInv, Told, Pending, Writing, Zeroed, Current, Sound
<1>3. CASE PollEmpty(c)
  <2>1. /\ cpc[c] = "poll" /\ cpc'[c] \in {"check", "poll"} /\ last'[c] = q_head /\ q_head <= last[c]
        /\ UNCHANGED <<q_head, rec, created, wpc, wid, log, new, seen, view, missed, early, stale>>
    BY <1>q, <1>a, <1>3, <1>b DEF PollEmpty, TypeOK
  <2>2. Told(c) /\ Zeroed(c) /\ seen[c] <= created /\ (Current(c) => Sound(c))
    BY <1>0, <2>1, Zenon DEF CInv
  <2>3. ASSUME NEW i \in Ids, Pending(c, i) PROVE Pending(c, i)'
    <3>1. PICK k \in DOMAIN log : k > last[c] /\ log[k].id = i
      BY <2>3, Zenon DEF Pending
    <3>2. k > last'[c]
      BY <2>1, <3>1, <1>b, LogType
    <3> QED BY <2>1, <3>1, <3>2, Zenon DEF Pending
  <2>4. Told(c)'
    BY <2>1, <2>2, <2>3, Zenon DEF Told, Writing
  <2>5. Current(c)' => Sound(c)'
    BY <2>1, <2>2, <1>b DEF Current, Sound
  <2> QED BY <2>1, <2>2, <2>4, <2>5, Zenon DEF CInv, Zeroed
<1>4. CASE Poll(c)
  <2>1. cpc[c] = "poll" /\ q_head # last[c] /\ UNCHANGED <<q_head, rec, created, wpc, wid, log, seen, view, early, stale>>
    BY <1>q, <1>4, Zenon DEF Poll, HasEntries
  <2>2. Told(c) /\ Zeroed(c) /\ seen[c] <= created /\ (Current(c) => Sound(c))
    BY <1>0, <2>1, Zenon DEF CInv
  <2>3. CASE Overrun(c) /\ c \notin Ignoring
    <3>1. cpc'[c] = "overrun" /\ UNCHANGED <<last, new, missed>>
      BY <1>4, <2>3, Zenon DEF Poll, TypeOK
    <3> QED BY <2>1, <2>2, <3>1, Zenon DEF CInv, Told, Pending, Writing, Zeroed, Current, Sound
  <2>4. CASE ~(Overrun(c) /\ c \notin Ignoring)
    <3>1. /\ cpc'[c] = "scan" /\ missed'[c] = missed[c] \cup Skipped(c)
          /\ last'[c] = IF Overrun(c) THEN Resume(c) ELSE last[c]
          /\ new'[c] = IF c \in Batches /\ q_head - last[c] > Count THEN last[c] + Count ELSE q_head
      BY <1>4, <2>4, Zenon DEF Poll, TypeOK
    <3>2. ASSUME NEW i \in Ids \ (missed'[c] \cup stale'[c]), Pending(c, i) PROVE Pending(c, i)'
      <4>1. PICK k \in DOMAIN log : k > last[c] /\ log[k].id = i
        BY <3>2, Zenon DEF Pending
      <4>2. k \in Int /\ last[c] \in Int /\ Resume(c) \in Int
        BY <1>b, LogType, QueueAssumption DEF Resume
      <4>3. Overrun(c) => ~(k <= Resume(c))
        BY <3>1, <3>2, <4>1, <4>2, Zenon DEF Skipped
      <4>4. k > last'[c]
        BY <3>1, <4>1, <4>2, <4>3
      <4> QED BY <2>1, <4>1, <4>4, Zenon DEF Pending
    <3>3. Told(c)'
      BY <2>1, <2>2, <3>1, <3>2, Zenon DEF Told, Writing
    <3>4. Current(c)' => Sound(c)'
      <4> SUFFICES ASSUME Current(c)' PROVE Sound(c)'
        BY Zenon
      <4>1. Sound(c)
        BY <2>1, <2>2, Zenon DEF Current
      <4>2. last[c] < q_head
        BY <2>1, <4>1, <1>b DEF Sound
      <4>3. last'[c] < new'[c] /\ new'[c] <= q_head
        <5>1. CASE Overrun(c)
          <6>1. c \notin Batches
            BY <2>4, <5>1, QueueAssumption, Zenon
          <6>2. Resume(c) < q_head
            <7> DEFINE l == last[c]
            <7>1. l \in Int /\ q_head \in Nat /\ Cap \in Nat /\ Cap > 0 /\ l < q_head
              BY <4>2, <1>b, QueueAssumption, Zenon
            <7>2. q_head - l > Cap
              BY <5>1, <7>1 DEF Overrun
            <7>3. Resume(c) = IF c \in Senders THEN (q_head - l) - Cap ELSE q_head - Cap
              BY Zenon DEF Resume
            <7>4. c \in Senders => l >= 0
              BY <4>1, Zenon DEF Sound
            <7> HIDE DEF l
            <7> QED BY <7>1, <7>2, <7>3, <7>4
          <6> QED BY <3>1, <5>1, <6>1, <6>2, <1>b
        <5>2. CASE ~Overrun(c)
          BY <3>1, <4>2, <5>2, <1>b, QueueAssumption
        <5> QED BY <5>1, <5>2, Zenon
      <4>4. last'[c] <= q_head
        BY <3>1, <4>3, <1>b, QueueAssumption DEF Resume
      <4>5. c \in Senders => last'[c] >= 0
        <5>1. c \in Senders /\ Overrun(c) => Resume(c) >= 0
          BY <1>b, QueueAssumption DEF Overrun, Resume
        <5> QED BY <3>1, <4>1, <5>1, Zenon DEF Sound
      <4> QED BY <2>1, <4>1, <4>3, <4>4, <4>5, Zenon DEF Sound
    <3> QED BY <2>1, <2>2, <3>1, <3>3, <3>4, Zenon DEF CInv, Zeroed
  <2> QED BY <2>3, <2>4, Zenon
<1>5. CASE ReadEntry(c)
  <2>1. /\ cpc[c] = "scan" /\ cpc'[c] \in {"scan", "check", "poll"} /\ last'[c] = last[c] + 1
        /\ cpc'[c] = "scan" => last[c] + 1 # new[c]
        /\ Copy(c, Missed(c)) /\ UNCHANGED <<q_head, rec, created, wpc, wid, log, new, seen, early>>
    BY <1>q, <1>a, <1>5, Zenon DEF ReadEntry, Advance, TypeOK
  <2>2. Told(c) /\ Zeroed(c) /\ seen[c] <= created /\ (Current(c) => Sound(c))
    BY <1>0, <2>1, Zenon DEF CInv
  <2> DEFINE s == Slot(c)
  <2>3. /\ s \in Ids /\ s \notin missed'[c]
        /\ view'[c][s] = rec[s] \/ s \in stale'[c]
        /\ view'[c][s].rev = rec[s].rev
        /\ (view[c][s].rev = rec[s].rev => view[c][s] = rec[s])
           => view'[c][s] = rec[s] /\ stale'[c] = stale[c] \ {s}
        /\ \A j \in Ids \ {s} : /\ view'[c][j] = view[c][j]
                                /\ j \in stale'[c] <=> j \in stale[c]
                                /\ j \in missed'[c] <=> j \in Missed(c)
    BY <2>1, CopyEffect, MissedType, Zenon
  <2>4. ASSUME NEW j \in Ids \ {s}, j \notin missed'[c], Pending(c, j) PROVE Pending(c, j)'
    <3>1. PICK k \in DOMAIN log : k > last[c] /\ log[k].id = j
      BY <2>4, Zenon DEF Pending
    <3>2. k # last[c] + 1
      <4> SUFFICES ASSUME k = last[c] + 1 PROVE FALSE
        BY Zenon
      <4>1. Reused(c)
        BY <3>1, Zenon DEF Reused, HasEntry
      <4>2. j \in Missed(c)
        BY <3>1, <4>1, Zenon DEF Missed
      <4> QED BY <2>3, <2>4, <4>2, Zenon
    <3>3. k > last'[c]
      BY <2>1, <3>1, <3>2, <1>b, LogType
    <3> QED BY <2>1, <3>1, <3>3, Zenon DEF Pending
  <2>5. missed[c] \subseteq Missed(c)
    BY Zenon DEF Missed
  <2> HIDE DEF s
  <2>6. Told(c)'
    <3> SUFFICES ASSUME NEW j \in Ids \ (missed'[c] \cup stale'[c])
                 PROVE  view'[c][j] = rec'[j] \/ Pending(c, j)' \/ Writing(j)'
      BY Zenon DEF Told
    <3>1. CASE j = s
      BY <2>1, <2>3, <3>1, Zenon
    <3>2. CASE j # s
      <4>1. j \in Ids \ (missed[c] \cup stale[c])
        BY <2>3, <2>5, <3>2, Zenon
      <4> QED BY <2>1, <2>2, <2>3, <2>4, <3>2, <4>1, Zenon DEF Told, Writing
    <3> QED BY <3>1, <3>2, Zenon
  <2>7. Zeroed(c)'
    BY <2>1, <2>2, <2>3, Zenon DEF Zeroed
  <2>8. Current(c)' => Sound(c)'
    <3> SUFFICES ASSUME Current(c)' PROVE Sound(c)'
      BY Zenon
    <3>1. Sound(c)
      BY <2>1, <2>2, Zenon DEF Current
    <3>2. view'[c][s] = rec[s] /\ stale'[c] = {}
      BY <2>3, <3>1, Zenon DEF Sound
    <3>3. \A j \in Ids : /\ view'[c][j].rev <= rec'[j].rev
                         /\ view'[c][j].rev = rec'[j].rev => view'[c][j] = rec'[j]
      <4>1. rec' = rec /\ \A j \in Ids : rec[j].rev \in Nat /\ rec[j].rev <= rec[j].rev
        BY <2>1 DEF TypeOK, Contents
      <4>2. view'[c][s].rev <= rec[s].rev
        BY <2>3, <3>2, <4>1, Zenon
      <4> QED BY <2>3, <3>1, <3>2, <4>1, <4>2, Zenon DEF Sound
    <3>4. /\ last'[c] <= q_head /\ (c \in Senders => last'[c] >= 0)
          /\ cpc'[c] = "scan" => last'[c] < new[c] /\ new[c] <= q_head
      BY <2>1, <3>1, <1>b DEF Sound
    <3> QED BY <2>1, <3>1, <3>2, <3>3, <3>4, Zenon DEF Sound
  <2> QED BY <2>1, <2>2, <2>6, <2>7, <2>8, Zenon DEF CInv
<1>6. CASE EndScan(c)
  <2>1. /\ cpc[c] = "scan" /\ cpc'[c] \in {"check", "poll"}
        /\ Copy(c, missed[c]) \/ UNCHANGED <<view, missed, stale>>
        /\ UNCHANGED <<q_head, rec, created, wpc, wid, log, last, new, seen, early>>
    BY <1>q, <1>a, <1>6, Zenon DEF EndScan, TypeOK
  <2>2. Told(c) /\ Zeroed(c) /\ seen[c] <= created /\ (Current(c) => Sound(c))
    BY <1>0, <2>1, Zenon DEF CInv
  <2>3. CASE UNCHANGED <<view, missed, stale>>
    BY <2>1, <2>2, <2>3, Zenon DEF CInv, Told, Pending, Writing, Zeroed, Current, Sound
  <2>4. CASE Copy(c, missed[c])
    <3> DEFINE s == Slot(c)
    <3>3. /\ s \in Ids /\ s \notin missed'[c]
          /\ view'[c][s] = rec[s] \/ s \in stale'[c]
          /\ view'[c][s].rev = rec[s].rev
          /\ (view[c][s].rev = rec[s].rev => view[c][s] = rec[s])
             => view'[c][s] = rec[s] /\ stale'[c] = stale[c] \ {s}
          /\ \A j \in Ids \ {s} : /\ view'[c][j] = view[c][j]
                                  /\ j \in stale'[c] <=> j \in stale[c]
                                  /\ j \in missed'[c] <=> j \in missed[c]
      BY <2>4, CopyEffect, <1>b, Zenon
    <3> HIDE DEF s
    <3>4. Told(c)'
      BY <2>1, <2>2, <3>3, Zenon DEF Told, Pending, Writing
    <3>5. Zeroed(c)'
      BY <2>1, <2>2, <3>3, Zenon DEF Zeroed
    <3>6. Current(c)' => Sound(c)'
      <4> SUFFICES ASSUME Current(c)' PROVE Sound(c)'
        BY Zenon
      <4>1. Sound(c)
        BY <2>1, <2>2, Zenon DEF Current
      <4>2. view'[c][s] = rec[s] /\ stale'[c] = {}
        BY <3>3, <4>1, Zenon DEF Sound
      <4>3. \A j \in Ids : /\ view'[c][j].rev <= rec'[j].rev
                           /\ view'[c][j].rev = rec'[j].rev => view'[c][j] = rec'[j]
        <5>1. rec' = rec /\ \A j \in Ids : rec[j].rev \in Nat /\ rec[j].rev <= rec[j].rev
          BY <2>1 DEF TypeOK, Contents
        <5>2. view'[c][s].rev <= rec[s].rev
          BY <3>3, <4>2, <5>1, Zenon
        <5> QED BY <3>3, <4>1, <4>2, <5>1, <5>2, Zenon DEF Sound
      <4> QED BY <2>1, <4>1, <4>2, <4>3, Zenon DEF Sound
    <3> QED BY <2>1, <2>2, <3>4, <3>5, <3>6, Zenon DEF CInv
  <2> QED BY <2>1, <2>3, <2>4, Zenon
<1> QED BY <1>1, <1>2, <1>3, <1>4, <1>5, <1>6, Zenon DEF Consume

LEMMA LStep == TypeOK /\ LInv /\ [Next]_vars => LInv'
<1> SUFFICES ASSUME TypeOK, LInv, [Next]_vars, NEW c \in Consumers PROVE CInv(c)'
  BY Zenon DEF LInv
<1>1. CASE UNCHANGED vars
  BY <1>1 DEF vars, queue, consumer, LInv, CInv, Told, Pending, Writing, Zeroed, Current, Sound
<1> QED BY <1>1, WriterKeeps, ConsumerKeeps, OthersKeep, Zenon DEF Next

(* Bounded as it is, the queue loses a change only by being lapped: a      *)
(* consumer at the head (mcast_on_write, reader.c, batch.c) holds what     *)
(* every record holds but for the exceptions LossOnlyByLap names, for      *)
(* every capacity, any number of consumers and of creations.               *)
THEOREM LossOnlyByLapTheorem == Spec => []LossOnlyByLap
<1>1. Init => LInv
  BY Zenon DEF Init, LInv, CInv
<1>2. TypeOK /\ LInv => LossOnlyByLap
  <2> SUFFICES ASSUME TypeOK, LInv, NEW c \in Consumers,
                      cpc[c] = "poll", last[c] = q_head, wpc = "idle",
                      NEW i \in Ids \ (missed[c] \cup Unseen(c))
               PROVE  view[c][i] = rec[i]
    BY Zenon DEF LossOnlyByLap
  <2>1. Told(c) /\ (Current(c) => Sound(c))
    BY Zenon DEF LInv, CInv
  <2>2. i \notin stale[c]
    BY <2>1, Zenon DEF Unseen, Current, Sound
  <2>3. ~Pending(c, i) /\ ~Writing(i)
    BY LogType, Fields DEF Pending, Writing
  <2> QED BY <2>1, <2>2, <2>3, Zenon DEF Told
<1> QED BY <1>1, <1>2, LStep, TypeInit, TypeStep, PTL DEF Spec

-----------------------------------------------------------------------------
(* The step of EntryLeadsToItsWrite, as an action. *)
Leads ==
    \A c \in Consumers :
        last'[c] = last[c] + 1 /\ cpc[c] = "scan" /\ ~Reused(c) /\ HasEntry(c)
        => LET e == log[last[c] + 1] IN
           view'[c][e.id].n >= e.n \/ e.id \in Unseen(c)' \/ Emptied(e.id)

LEMMA LeadsStep == TypeOK /\ LInv /\ NInv /\ [Next]_vars => [Leads]_vars
<1> SUFFICES ASSUME TypeOK, LInv, NInv, Next, NEW c \in Consumers,
                    last'[c] = last[c] + 1, cpc[c] = "scan", ~Reused(c), HasEntry(c)
             PROVE  LET e == log[last[c] + 1] IN
                    view'[c][e.id].n >= e.n \/ e.id \in Unseen(c)' \/ Emptied(e.id)
  BY Zenon DEF Leads
<1> DEFINE i == log[last[c] + 1].id
           n == log[last[c] + 1].n
<1>0. i = Slot(c) /\ i \in Ids /\ n \in Nat /\ rec[i].n \in Nat /\ (n <= rec[i].n \/ Emptied(i))
  BY LogType, Zenon DEF Reused, HasEntry, NInv, TypeOK, Contents
<1> HIDE DEF i, n
<1>b. last[c] \in Int
  BY Zenon DEF TypeOK
<1>1. last'[c] # last[c]
  BY <1>b
<1>2. ReadEntry(c)
  <2>1. ASSUME Write \/ Queue \/ Recreate \/ TakeOver PROVE last' = last
    BY <2>1, Zenon DEF Write, UpdateRecord, Queue, StoreSlot, AdvanceHead, Recreate,
       TakeOver, KeepRecords, ZeroRecords, ZeroHead, ZeroQueue, consumer
  <2>2. ASSUME NEW d \in Consumers, d # c, Start(d) \/ Consume(d) \/ EndScan(d)
        PROVE  last'[c] = last[c]
    BY <2>2, Zenon DEF Start, Consume, Check, PollEmpty, Poll, ReadEntry, Advance, EndScan, TypeOK
  <2>3. ASSUME Start(c) \/ Check(c) \/ PollEmpty(c) \/ Poll(c) PROVE FALSE
    BY <2>3, Zenon DEF Start, Check, PollEmpty, Poll, HasEntries
  <2>4. ~EndScan(c)
    BY <1>1, Zenon DEF EndScan
  <2> QED BY <1>1, <2>1, <2>2, <2>3, <2>4, Zenon DEF Next, Consume
<1>3. /\ view'[c][i] = rec[i] \/ i \in stale'[c]
      /\ (view[c][i].rev = rec[i].rev => view[c][i] = rec[i]) => view'[c][i] = rec[i]
  BY <1>0, <1>2, CopyEffect, MissedType, Zenon DEF ReadEntry
<1>4. Current(c) => view'[c][i] = rec[i]
  BY <1>0, <1>3, Zenon DEF LInv, CInv, Sound
<1>5. Current(c)' = Current(c)
  BY <1>2, Zenon DEF ReadEntry, Current, queue
<1>6. view'[c][i] = rec[i] \/ i \in Unseen(c)'
  BY <1>3, <1>4, <1>5, Zenon DEF Current, Unseen
<1> QED BY <1>0, <1>6, Zenon DEF i, n

(* An entry found in its slot leads to the write that queued it or to a    *)
(* later one (update of writer.c stores the record before it queues it),   *)
(* but for what another creation of the storage has repeated or emptied.   *)
THEOREM EntryLeadsTheorem == Spec => EntryLeadsToItsWrite
<1>1. Init => LInv /\ NInv
  BY DEF Init, LInv, CInv, NInv, Zero
<1>2. EntryLeadsToItsWrite <=> [][Leads]_vars
  BY PTL DEF EntryLeadsToItsWrite, Leads
<1> QED BY <1>1, <1>2, LStep, NStep, LeadsStep, TypeInit, TypeStep, PTL DEF Spec
=============================================================================
