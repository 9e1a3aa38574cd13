--------------------------- MODULE StorageProofs ---------------------------
(***************************************************************************)
(* Proofs about a storage.  Of one record (RecordLock): for any sets of    *)
(* writers, erasers, readers and words, any number of writes below the     *)
(* wrap of the revision and any number of crashes and recreations.  Of the *)
(* slots (Slots): for any length of the storage and of the one a grower    *)
(* makes, any used slots, any copiers and sources, and any lists of        *)
(* records to erase and to copy.                                           *)
(***************************************************************************)
EXTENDS RecordLock, Slots, FiniteSetTheorems, TLAPS

-----------------------------------------------------------------------------
(* One record. *)

(* Revisions are counted by writes, so they stay below the wrap. *)
RevInv ==
    /\ rev <= writes
    /\ \A w \in Writers : wpc[w] = "copy" => wrev[w] < writes

(* A writer between lock and unlock holds the lock bit, the revision has   *)
(* not moved since it locked, and the words it has done are its own.       *)
WriterInv ==
    \A w \in Writers :
        wpc[w] = "copy" => /\ locked /\ wrev[w] = rev
                           /\ \A x \in wdone[w] : val[x] = wstamp[w]
                           /\ \A v \in Writers : wpc[v] = "copy" => v = w

(* The lock bit is held by a live writer or was left by a dead one, and an *)
(* unlocked record is whole unless a writer died in it at this revision.   *)
RecordInv ==
    /\ locked => rev \in broken \/ \E w \in Writers : wpc[w] = "copy"
    /\ ~locked => rev \in broken \/ Whole(val)

(* A reader that has met no erasure holds the current words as long as its *)
(* revision is current and the record is not locked.                       *)
ReaderInv ==
    \A r \in Readers : rpc[r] = "copy" /\ r \notin erased =>
        /\ rrev[r] <= rev
        /\ ~locked /\ rrev[r] = rev /\ rev \notin broken
           => \A x \in rdone[r] : rbuf[r][x] = val[x]

(* What the lock protects, until the storage is recreated under a live     *)
(* holder of the lock: from then on only types and bounds are kept.        *)
LockInv == WriterInv /\ RecordInv /\ ReaderInv /\ NoTornRead

IInv == TypeOK /\ RevInv /\ (underneath \/ LockInv)

LEMMA InitInv == Init => IInv
<1> SUFFICES ASSUME Init PROVE IInv
  BY Zenon
<1> USE ConstantsAssumption
<1>1. TypeOK
  <2>1. Zeroes \in [Words -> Nat]
    BY Zenon DEF Zeroes
  <2>2. /\ 0 \in 0..SPIN_MAX /\ 0 \in 0..MaxWrites /\ 0 \in 0..MaxCrashes
        /\ {} \subseteq 0..SPIN_MAX
    OBVIOUS
  <2>3. /\ locked \in BOOLEAN /\ rev \in 0..SPIN_MAX /\ val \in [Words -> Nat]
        /\ wpc \in [Writers -> {"idle", "copy", "dead"}]
        /\ wrev \in [Writers -> 0..SPIN_MAX] /\ wstamp \in [Writers -> Nat]
        /\ wdone \in [Writers -> SUBSET Words]
    BY <2>1, <2>2, Zenon DEF Init
  <2>4. /\ rpc \in [Readers -> {"idle", "copy"}]
        /\ rrev \in [Readers -> 0..SPIN_MAX]
        /\ rbuf \in [Readers -> [Words -> Nat]]
        /\ rdone \in [Readers -> SUBSET Words]
    BY <2>1, <2>2, Zenon DEF Init
  <2>5. /\ seenRev \in [Readers -> 0..SPIN_MAX]
        /\ seenBuf \in [Readers -> [Words -> Nat]]
        /\ seenErased \subseteq Readers
        /\ writes \in 0..MaxWrites /\ crashes \in 0..MaxCrashes
        /\ broken \subseteq 0..SPIN_MAX /\ underneath \in BOOLEAN
        /\ erased \subseteq Readers
    BY <2>1, <2>2, Zenon DEF Init
  <2> HIDE DEF Init
  <2> QED BY <2>3, <2>4, <2>5, Zenon DEF TypeOK
<1>2. RevInv /\ LockInv
  BY DEF Init, RevInv, LockInv, WriterInv, RecordInv, ReaderInv, NoTornRead, Whole, Zeroes
<1> QED BY <1>1, <1>2, Zenon DEF IInv

(* Below the bound on writes the revision never wraps to 0, "unused". *)
LEMMA NextRevIsSuccessor ==
    ASSUME NEW v \in Nat, v < SPIN_MAX
    PROVE  NEXT_REV(v) = v + 1 /\ NEXT_REV(v) \in 0..SPIN_MAX
BY ConstantsAssumption DEF NEXT_REV

LEMMA TypeStep == IInv /\ [Next]_vars => TypeOK'
<1> SUFFICES ASSUME IInv, [Next]_vars PROVE TypeOK'
  BY Zenon
<1> USE ConstantsAssumption DEF IInv, TypeOK, record, writer, reader, seen
<1>1. ASSUME NEW w \in Writers, WriteLock(w) PROVE TypeOK'
  BY <1>1 DEF WriteLock
<1>2. ASSUME NEW w \in Writers, NEW x \in Words, WriteWord(w, x) PROVE TypeOK'
  BY <1>2, Zenon DEF WriteWord
<1>3. ASSUME NEW w \in Writers, WriteUnlock(w) PROVE TypeOK'
  <2>1. wrev[w] \in Nat /\ wrev[w] < SPIN_MAX
    BY <1>3 DEF WriteUnlock, RevInv
  <2>2. rev' \in 0..SPIN_MAX
    BY <1>3, <2>1, NextRevIsSuccessor DEF WriteUnlock
  <2> QED BY <1>3, <2>2, Zenon DEF WriteUnlock, Copying
<1>4. ASSUME NEW w \in Writers, Crash(w) PROVE TypeOK'
  BY <1>4 DEF Crash
<1>5. ASSUME NEW w \in Writers, Recreate(w) PROVE TypeOK'
  BY <1>5, Zenon DEF Recreate
<1>6. ASSUME NEW r \in Readers, ReadLock(r) PROVE TypeOK'
  BY <1>6, Zenon DEF ReadLock
<1>7. ASSUME NEW r \in Readers, NEW x \in Words, ReadWord(r, x) PROVE TypeOK'
  BY <1>7, Zenon DEF ReadWord
<1>8. ASSUME NEW r \in Readers, ReadCheck(r) PROVE TypeOK'
  BY <1>8, Zenon DEF ReadCheck
<1>9. CASE UNCHANGED vars
  BY <1>9, Zenon DEF vars
<1> QED
  BY <1>1, <1>2, <1>3, <1>4, <1>5, <1>6, <1>7, <1>8, <1>9, Zenon
  DEF Next, WriterStep, ReaderStep

LEMMA RevStep == IInv /\ [Next]_vars => RevInv'
<1> SUFFICES ASSUME IInv, [Next]_vars PROVE RevInv'
  BY Zenon
<1> USE ConstantsAssumption DEF IInv, TypeOK, RevInv, record, writer, reader, seen
<1>1. ASSUME NEW w \in Writers, WriteLock(w) PROVE RevInv'
  BY <1>1 DEF WriteLock
<1>2. ASSUME NEW w \in Writers, WriteUnlock(w) PROVE RevInv'
  <2>1. rev' <= writes
    BY <1>2, NextRevIsSuccessor DEF WriteUnlock
  <2> QED BY <1>2, <2>1, Zenon DEF WriteUnlock
<1>3. ASSUME NEW w \in Writers, Crash(w) \/ Recreate(w) \/ \E x \in Words : WriteWord(w, x)
      PROVE  RevInv'
  BY <1>3 DEF Crash, Recreate, WriteWord
<1>4. ASSUME NEW r \in Readers, ReaderStep(r) PROVE RevInv'
  BY <1>4, Zenon DEF ReaderStep, ReadLock, ReadWord, ReadCheck
<1>5. CASE UNCHANGED vars
  BY <1>5, Zenon DEF vars
<1> QED BY <1>1, <1>2, <1>3, <1>4, <1>5, Zenon DEF Next, WriterStep

LEMMA LockStep ==
    ASSUME IInv, [Next]_vars, ~underneath'
    PROVE  LockInv'
<1>0. TypeOK' /\ RevInv' /\ ~underneath /\ LockInv
  <2>1. ~underneath
    BY Zenon DEF IInv, TypeOK, Next, WriterStep, ReaderStep, WriteLock, WriteWord, WriteUnlock,
           Crash, Recreate, ReadLock, ReadWord, ReadCheck, vars
  <2> QED BY <2>1, TypeStep, RevStep, Zenon DEF IInv
<1> USE <1>0, ConstantsAssumption
    DEF IInv, TypeOK, RevInv, LockInv, record, writer, reader, seen
<1>1. ASSUME NEW w \in Writers, WriteLock(w) PROVE LockInv'
  <2>1. WriterInv'
    <3>1. \A v \in Writers : wpc[v] # "copy"
      BY <1>1, Zenon DEF WriteLock, WriterInv
    <3> QED BY <1>1, <3>1, Zenon DEF WriteLock, WriterInv, RecordInv
  <2>2. RecordInv' /\ ReaderInv' /\ NoTornRead'
    BY <1>1 DEF WriteLock, RecordInv, ReaderInv, NoTornRead, Whole
  <2> QED BY <2>1, <2>2, Zenon
<1>2. ASSUME NEW w \in Writers, NEW x \in Words, WriteWord(w, x) PROVE LockInv'
  <2>1. WriterInv'
    BY <1>2, Zenon DEF WriteWord, WriterInv
  <2>2. RecordInv' /\ ReaderInv' /\ NoTornRead'
    BY <1>2, Zenon DEF WriteWord, WriterInv, RecordInv, ReaderInv, NoTornRead, Whole
  <2> QED BY <2>1, <2>2, Zenon
<1>3. ASSUME NEW w \in Writers, WriteUnlock(w) PROVE LockInv'
  <2>1. wrev[w] = rev /\ Whole(val)
    BY <1>3, Zenon DEF WriteUnlock, WriterInv, Whole
  <2>2. rev' = 0 \/ (w \notin Erasers /\ rev' = rev + 1)
    BY <1>3, <2>1, NextRevIsSuccessor DEF WriteUnlock
  <2>3. WriterInv'
    BY <1>3, Zenon DEF WriteUnlock, WriterInv
  <2>4. RecordInv'
    BY <1>3, <2>1, <2>2, Zenon DEF WriteUnlock, RecordInv, Whole
  <2>5. ReaderInv'
    <3>1. CASE w \in Erasers
      BY <1>3, <3>1, Zenon DEF WriteUnlock, ReaderInv, Copying
    <3>2. CASE w \notin Erasers
      <4>1. rev' = rev + 1
        BY <1>3, <2>1, <3>2, NextRevIsSuccessor DEF WriteUnlock
      <4> QED BY <1>3, <3>2, <4>1 DEF WriteUnlock, ReaderInv
    <3> QED BY <3>1, <3>2, Zenon
  <2>6. NoTornRead'
    BY <1>3, Zenon DEF WriteUnlock, NoTornRead, Whole
  <2> QED BY <2>3, <2>4, <2>5, <2>6, Zenon
<1>4. ASSUME NEW w \in Writers, Crash(w) PROVE LockInv'
  <2>1. WriterInv' /\ RecordInv'
    BY <1>4, Zenon DEF Crash, WriterInv, RecordInv, Whole
  <2>2. ReaderInv' /\ NoTornRead'
    BY <1>4 DEF Crash, ReaderInv, NoTornRead, Whole
  <2> QED BY <2>1, <2>2, Zenon
<1>5. ASSUME NEW w \in Writers, Recreate(w) PROVE LockInv'
  <2>1. \A v \in Writers : wpc[v] # "copy"
    BY <1>5, Zenon DEF Recreate
  <2>2. rev \in broken \/ ~locked
    BY <2>1, Zenon DEF RecordInv
  <2>3. WriterInv' /\ RecordInv'
    BY <1>5, <2>1, <2>2, Zenon DEF Recreate, WriterInv, RecordInv, Whole
  <2>4. ReaderInv' /\ NoTornRead'
    BY <1>5, <2>2 DEF Recreate, ReaderInv, NoTornRead, Whole
  <2> QED BY <2>3, <2>4, Zenon
<1>6. ASSUME NEW r \in Readers, ReadLock(r) PROVE LockInv'
  BY <1>6 DEF ReadLock, WriterInv, RecordInv, ReaderInv, NoTornRead, Whole
<1>7. ASSUME NEW r \in Readers, NEW x \in Words, ReadWord(r, x) PROVE LockInv'
  <2>1. WriterInv' /\ RecordInv' /\ NoTornRead'
    <3>1. UNCHANGED <<locked, rev, val, wpc, wrev, wstamp, wdone, seenRev, seenBuf, seenErased,
                      broken, underneath>>
      BY <1>7, Zenon DEF ReadWord
    <3>2. WriterInv /\ RecordInv /\ NoTornRead
      BY Zenon
    <3> HIDE <1>0 DEF IInv, TypeOK, LockInv
    <3>3. WriterInv'
      BY <3>1, <3>2, Zenon DEF WriterInv
    <3>4. RecordInv'
      BY <3>1, <3>2, Zenon DEF RecordInv, Whole
    <3>5. NoTornRead'
      BY <3>1, <3>2, Zenon DEF NoTornRead, Whole
    <3> QED BY <3>3, <3>4, <3>5, Zenon
  <2>2. ReaderInv'
    BY <1>7 DEF ReadWord, ReaderInv
  <2> QED BY <2>1, <2>2, Zenon
<1>8. ASSUME NEW r \in Readers, ReadCheck(r) PROVE LockInv'
  <2>1. WriterInv' /\ RecordInv' /\ ReaderInv'
    BY <1>8 DEF ReadCheck, WriterInv, RecordInv, ReaderInv, Whole
  <2>2. NoTornRead'
    <3>1. CASE RevisionUnchanged(r)
      <4>1. rev \in broken \/ Whole(val)
        BY <3>1, Zenon DEF RecordInv, RevisionUnchanged
      <4>2. r \in erased \/ rev \in broken \/ \A x \in Words : rbuf[r][x] = val[x]
        BY <1>8, <3>1, Zenon DEF ReadCheck, ReaderInv, RevisionUnchanged
      <4>3. Whole(rbuf[r]) \/ rrev[r] \in broken \/ r \in erased
        BY <3>1, <4>1, <4>2, Zenon DEF RevisionUnchanged, Whole
      <4>4. \A q \in Readers \ {r} : /\ seenBuf'[q] = seenBuf[q] /\ seenRev'[q] = seenRev[q]
                                     /\ q \in seenErased => q \in seenErased'
        BY <1>8, <3>1 DEF ReadCheck
      <4>5. /\ seenBuf'[r] = rbuf[r] /\ seenRev'[r] = rrev[r]
            /\ r \in erased => r \in seenErased'
        BY <1>8, <3>1 DEF ReadCheck
      <4>6. broken' = broken
        BY <1>8, Zenon DEF ReadCheck
      <4>7. \A q \in Readers : Whole(seenBuf[q]) \/ seenRev[q] \in broken \/ q \in seenErased
        BY Zenon DEF NoTornRead
      <4> HIDE <1>0 DEF IInv, TypeOK, LockInv
      <4> QED BY <4>3, <4>4, <4>5, <4>6, <4>7 DEF NoTornRead, Whole
    <3>2. CASE ~RevisionUnchanged(r)
      BY <1>8, <3>2 DEF ReadCheck, NoTornRead, Whole
    <3> QED BY <3>1, <3>2, Zenon
  <2> QED BY <2>1, <2>2, Zenon
<1>9. CASE UNCHANGED vars
  BY <1>9 DEF vars, WriterInv, RecordInv, ReaderInv, NoTornRead, Whole
<1> QED
  BY <1>1, <1>2, <1>3, <1>4, <1>5, <1>6, <1>7, <1>8, <1>9, Zenon
  DEF Next, WriterStep, ReaderStep

LEMMA InductiveStep == IInv /\ [Next]_vars => IInv'
BY TypeStep, RevStep, LockStep, Zenon DEF IInv

LEMMA Invariance == Spec => []IInv
BY InitInv, InductiveStep, PTL DEF Spec

(* The types of the record and of the processes at work on it; the         *)
(* revision stays in the range of NEXT_REV (spin.h).                       *)
THEOREM TypeCorrect == Spec => []TypeOK
<1>1. IInv => TypeOK
  BY Zenon DEF IInv
<1> QED BY <1>1, Invariance, PTL

(* The read loop never returns a torn value (spin_read_lock, copy,         *)
(* record_get_revision), for any number of processes, words and crashes,   *)
(* with the three exceptions that NoTornRead names.                        *)
THEOREM NoTornReadTheorem == Spec => []NoTornRead
<1>1. IInv => NoTornRead
  BY Zenon DEF IInv, LockInv, NoTornRead
<1> QED BY <1>1, Invariance, PTL

(* At most one live writer or eraser is inside the lock (spin_write_lock), *)
(* until storage_create clears the lock of a live one.                     *)
THEOREM MutualExclusionTheorem == Spec => []MutualExclusion
<1>1. IInv => MutualExclusion
  BY Zenon DEF IInv, LockInv, WriterInv, MutualExclusion
<1> QED BY <1>1, Invariance, PTL

(* A successful read returns what the record holds when it is checked      *)
(* (the final comparison of the read loops), with the same exceptions.     *)
THEOREM ReadIsCurrentTheorem == Spec => ReadIsCurrent
<1> DEFINE Current == \A r \in Readers :
                         seenBuf'[r] # seenBuf[r]
                         => \/ seenBuf'[r] = val
                            \/ rrev[r] \in broken \/ r \in erased \/ underneath
<1>1. ASSUME IInv, [Next]_vars PROVE [Current]_vars
  <2> SUFFICES ASSUME NEW r \in Readers, seenBuf'[r] # seenBuf[r],
                      rrev[r] \notin broken, r \notin erased, ~underneath
               PROVE  seenBuf'[r] = val
    BY Zenon
  <2> USE <1>1 DEF IInv, TypeOK, LockInv
  <2>1. CASE \E q \in Readers : ReadCheck(q)
    <3>1. PICK q \in Readers : ReadCheck(q)
      BY <2>1, Zenon
    <3>2. q = r /\ RevisionUnchanged(r)
      BY <3>1, Zenon DEF ReadCheck, seen
    <3>3. \A x \in Words : rbuf[r][x] = val[x]
      BY <3>1, <3>2, Zenon DEF ReadCheck, ReaderInv, RevisionUnchanged
    <3>4. rbuf[r] = val
      BY <3>3
    <3> QED BY <3>1, <3>2, <3>4, Zenon DEF ReadCheck
  <2>2. CASE ~\E q \in Readers : ReadCheck(q)
    BY <2>2, Zenon DEF Next, WriterStep, ReaderStep, WriteLock, WriteWord, WriteUnlock,
                Crash, Recreate, ReadLock, ReadWord, seen, vars
  <2> QED BY <2>1, <2>2, Zenon
<1>2. Spec => [][Current]_vars
  BY <1>1, Invariance, PTL DEF Spec
<1> QED BY <1>2, Zenon DEF ReadIsCurrent

-----------------------------------------------------------------------------
(* The slots. *)

Holders == {Nobody, Eraser} \cup Copiers
Values  == {Empty} \cup {Old(i) : i \in Slot} \cup {Copied(s) : s \in Sources}
Erases  == {"erase", "clear"}
Moves   == {"place", "move", "vacate", "settle"}
Copies  == {"pass", "source", "copy", "release"}

(* The types, with where the indices point in each phase of the eraser and *)
(* of a copier.                                                            *)
SlotsType ==
    /\ revs \in [Slot -> Nat] /\ lock \in [Slot -> Holders] /\ vals \in [Slot -> Values]
    /\ slock \in [Sources -> {Nobody} \cup Copiers]
    /\ args \in Seq(Slot) /\ args # <<>> /\ compact \in BOOLEAN
    /\ \A c \in Copiers : work[c] \in Seq(Sources)
    /\ epc \in Erases \cup Moves \cup {"find", "pass", "done", "failed"}
    /\ k \in 1..(Len(args) + 1) /\ (epc # "done" => k <= Len(args))
    /\ last \in 1..(N + 1) /\ (epc \in Moves \cup {"pass"} => last <= N) /\ last_rev \in Nat
    /\ cpc \in [Copiers -> Copies \cup {"find", "done", "failed"}]
    /\ job \in [Copiers -> Nat \ {0}] /\ dest \in [Copiers -> 0..N]
    /\ \A c \in Copiers :
          /\ cpc[c] \in Copies \cup {"find"} => job[c] <= Len(work[c])
          /\ cpc[c] \in Copies => dest[c] # 0

EraserHolds(i) ==
    \/ epc = "clear" /\ i = Target
    \/ epc \in {"pass", "place", "move", "vacate"} /\ i = last
    \/ epc \in {"move", "vacate", "settle"} /\ i = Target

(* Who holds which lock follows from where each program is, and the two    *)
(* locks of the eraser are of two slots.                                   *)
HoldInv ==
    /\ \A i \in Slot : lock[i] = Eraser <=> EraserHolds(i)
    /\ \A c \in Copiers, i \in Slot :
          lock[i] = c <=> (cpc[c] \in {"pass", "source", "copy"} /\ i = dest[c])
    /\ \A c \in Copiers, s \in Sources :
          slock[s] = c <=> (cpc[c] \in {"copy", "release"} /\ s = Source(c))
    /\ epc \in {"move", "vacate", "settle"} => Target < last

(* What a program noted of a slot it has locked is still so. *)
WordInv ==
    /\ epc \in {"pass", "place", "move", "vacate"} => revs[last] = last_rev
    /\ epc \in Moves => last_rev # 0
    /\ epc = "pass" => last_rev = 0
    /\ \A c \in Copiers : cpc[c] \in {"source", "copy"} => revs[dest[c]] = 0

-----------------------------------------------------------------------------
storage == <<slots, slock, eraser, copier>>

EraserActs ==
    \/ EraseLock \/ EraseClear \/ PrevUsed \/ PassUnused \/ NoneUsed \/ LeaveLast
    \/ LockHole \/ CopyLast \/ Vacate \/ Settle \/ EraserGivesUp
CopierActs(c) ==
    \/ NextUnused(c) \/ PassUsed(c) \/ Full(c) \/ LockSource(c) \/ CopyRecord(c)
    \/ ReleaseSource(c) \/ CopierGivesUp(c)

(* What program p may do to the slots: take and give back locks that are   *)
(* free or its own, and change what it has locked.                         *)
TouchedBy(p) ==
    \A i \in Slot :
        /\ lock'[i] = lock[i] \/ (lock[i] = Nobody /\ lock'[i] = p)
                              \/ (lock[i] = p /\ lock'[i] = Nobody)
        /\ lock[i] # p => revs'[i] = revs[i] /\ vals'[i] = vals[i]

(* The steps by whom they change: a grower leaves the storage alone.       *)
LEMMA SlotsCases ==
  ASSUME [SlotsNext]_slotsVars
  PROVE \/ EraseLock \/ EraseClear \/ PrevUsed \/ PassUnused \/ NoneUsed \/ LeaveLast
        \/ LockHole \/ CopyLast \/ Vacate \/ Settle \/ EraserGivesUp
        \/ \E c \in Copiers : \/ NextUnused(c) \/ PassUsed(c) \/ Full(c) \/ LockSource(c)
                              \/ CopyRecord(c) \/ ReleaseSource(c) \/ CopierGivesUp(c)
        \/ UNCHANGED storage
<1>1. Growing \/ GrowerGivesUp \/ UNCHANGED slotsVars => UNCHANGED storage
  BY Zenon DEF Growing, GrowLock, GrowCopyWord, GrowCopyValue, GrowCheck, GrowEnd, GrowerGivesUp,
         GrowerKeeps, slotsVars, storage
<1> QED BY <1>1, Zenon DEF SlotsNext, Erasing, GivingUp, Filling

LEMMA Sizes ==
  ASSUME SlotsType
  PROVE /\ N \in Nat /\ Slot = 1..N /\ Slot \subseteq Int /\ Used \subseteq Slot
        /\ Len(args) \in Nat /\ k \in Nat /\ last \in Nat
        /\ \A j \in 1..Len(args) : args[j] \in Slot
        /\ \A j \in k..Len(args) : j \in 1..Len(args)
        /\ epc \in Moves \cup {"pass"} => last \in Slot
<1>1. N \in Nat /\ Used \subseteq Slot
  BY SlotsAssumption, Zenon
<1>2. args \in Seq(Slot) /\ k \in 1..(Len(args) + 1) /\ last \in 1..(N + 1) /\ (epc \in Moves \cup {"pass"} => last <= N)
  BY Zenon DEF SlotsType
<1>3. Slot = 1..N /\ Slot \subseteq Int
  BY <1>1 DEF Slot
<1>4. Len(args) \in Nat /\ \A j \in 1..Len(args) : args[j] \in Slot
  BY <1>2
<1>5. k \in Nat /\ \A j \in k..Len(args) : j \in 1..Len(args)
  BY <1>2, <1>4
<1>6. last \in Nat /\ (epc \in Moves \cup {"pass"} => last \in Slot)
  BY <1>1, <1>2, <1>3
<1> QED BY <1>1, <1>3, <1>4, <1>5, <1>6, Zenon

LEMMA TargetIn ==
  ASSUME SlotsType, epc # "done"
  PROVE k \in 1..Len(args) /\ Target \in Slot
<1>1. Len(args) \in Nat /\ k \in 1..Len(args)
  BY DEF SlotsType
<1> QED BY <1>1 DEF SlotsType, Target

LEMMA SourceIn ==
  ASSUME SlotsType, NEW c \in Copiers, cpc[c] \in Copies \cup {"find"}
  PROVE job[c] \in 1..Len(work[c]) /\ Len(work[c]) \in Nat /\ Source(c) \in Sources
<1>1. work[c] \in Seq(Sources) /\ job[c] \in Nat \ {0} /\ job[c] <= Len(work[c])
  BY Zenon DEF SlotsType
<1>2. Len(work[c]) \in Nat /\ job[c] \in 1..Len(work[c])
  BY <1>1
<1> QED BY <1>1, <1>2 DEF Source

LEMMA SlotsTypeInit == SlotsInit => SlotsType
<1> SUFFICES ASSUME SlotsInit PROVE SlotsType
  BY Zenon
<1>0. PICK in \in Inputs : args = in.args /\ work = in.work
  BY Zenon DEF SlotsInit
<1>1. args \in Seq(Slot) /\ args # <<>> /\ \A c \in Copiers : work[c] \in Seq(Sources)
  BY <1>0, SlotsAssumption, Zenon
<1>2. Len(args) \in Nat /\ 1 <= Len(args) /\ N \in Nat
  BY <1>1, SlotsAssumption
<1>3. \A c \in Copiers : work[c] # <<>> => 1 <= Len(work[c])
  BY <1>1
<1>4. /\ revs \in [Slot -> Nat] /\ lock \in [Slot -> Holders]
      /\ slock \in [Sources -> {Nobody} \cup Copiers] /\ compact \in BOOLEAN
  BY Zenon DEF SlotsInit, Holders
<1>5. vals \in [Slot -> Values]
  BY Zenon DEF SlotsInit, Values
<1>6. /\ epc \in Erases \cup Moves \cup {"find", "pass", "done", "failed"}
      /\ k \in 1..(Len(args) + 1) /\ (epc # "done" => k <= Len(args))
      /\ last \in 1..(N + 1) /\ (epc \in Moves \cup {"pass"} => last <= N) /\ last_rev \in Nat
  BY <1>2 DEF SlotsInit, Erases, Moves
<1>7. /\ cpc \in [Copiers -> Copies \cup {"find", "done", "failed"}]
      /\ job \in [Copiers -> Nat \ {0}] /\ dest \in [Copiers -> 0..N]
  BY <1>2 DEF SlotsInit, Copies
<1>8. \A c \in Copiers :
          /\ cpc[c] \in Copies \cup {"find"} => job[c] <= Len(work[c])
          /\ cpc[c] \in Copies => dest[c] # 0
  BY <1>3, Zenon DEF SlotsInit, Copies
<1> QED BY <1>1, <1>4, <1>5, <1>6, <1>7, <1>8, Zenon DEF SlotsType

LEMMA SlotsTypeStep == SlotsType /\ [SlotsNext]_slotsVars => SlotsType'
<1> SUFFICES ASSUME SlotsType, [SlotsNext]_slotsVars PROVE SlotsType'
  BY Zenon
<1> USE DEF slots, input, eraser, copier
<1>0. N \in Nat /\ Len(args) \in Nat /\ 0 \in Nat /\ Nobody \in Holders /\ Eraser \in Holders
         /\ Empty \in Values /\ \A c \in Copiers : c \in Holders
  BY SlotsAssumption DEF SlotsType, Holders, Values
<1>1. CASE EraseLock
  BY <1>0, <1>1, TargetIn, Zenon DEF EraseLock, Acquire, SlotsType, Erases, Moves
<1>2. CASE EraseClear
  <2>1. Target \in Slot /\ k \in 1..Len(args)
    BY <1>2, TargetIn, Zenon DEF EraseClear
  <2>2. revs' \in [Slot -> Nat] /\ lock' \in [Slot -> Holders] /\ vals' \in [Slot -> Values]
    BY <1>0, <1>2, <2>1, Zenon DEF EraseClear, Clear, Release, SlotsType
  <2>3. /\ epc' \in {"erase", "find", "done"} /\ k' \in 1..(Len(args) + 1)
        /\ epc' # "done" => k' <= Len(args)
    BY <1>0, <1>2, <2>1 DEF EraseClear
  <2> QED BY <1>2, <2>2, <2>3, Zenon DEF EraseClear, SlotsType, Erases, Moves
<1>3. CASE PrevUsed
  <2>1. last \in 1..(N + 1)
    BY Zenon DEF SlotsType
  <2>2. last - 1 \in Slot
    BY <1>0, <1>3, <2>1 DEF PrevUsed, FindPrevUsed, Slot
  <2>3. lock' \in [Slot -> Holders] /\ last_rev' \in Nat
    BY <1>0, <1>3, <2>2, Zenon DEF PrevUsed, FindPrevUsed, Acquire, SlotsType
  <2>4. last' \in 1..(N + 1) /\ last' <= N
    BY <1>0, <1>3, <2>2 DEF PrevUsed, Slot
  <2>5. epc = "find" /\ epc' \in {"place", "pass"}
    BY <1>3, Zenon DEF PrevUsed
  <2> QED BY <1>3, <2>3, <2>4, <2>5, Zenon DEF PrevUsed, SlotsType, Erases, Moves
<1>a. CASE PassUnused \/ NoneUsed
  <2>1. revs' \in [Slot -> Nat] /\ lock' \in [Slot -> Holders]
    BY <1>0, <1>a, Zenon DEF PassUnused, NoneUsed, Release, SlotsType
  <2> QED BY <1>a, <2>1, Zenon DEF PassUnused, NoneUsed, SlotsType, Erases, Moves
<1>4. CASE LeaveLast \/ Settle
  <2>1. Target \in Slot /\ k \in 1..Len(args) /\ last \in Slot
    BY <1>4, TargetIn, Sizes, Zenon DEF LeaveLast, Settle, Moves
  <2>2. revs' \in [Slot -> Nat] /\ lock' \in [Slot -> Holders]
    BY <1>0, <1>4, <2>1, Zenon DEF LeaveLast, Settle, Release, SlotsType
  <2>3. epc' \in {"find", "done"} /\ k' \in 1..(Len(args) + 1) /\ (epc' # "done" => k' <= Len(args))
    BY <1>0, <1>4, <2>1 DEF LeaveLast, Settle, NextTarget
  <2> QED BY <1>4, <2>2, <2>3, Zenon DEF LeaveLast, Settle, SlotsType, Erases, Moves
<1>5. CASE LockHole
  BY <1>0, <1>5, TargetIn, Zenon DEF LockHole, Acquire, SlotsType, Erases, Moves
<1>6. CASE CopyLast
  <2>1. Target \in Slot /\ last \in Slot
    BY <1>6, TargetIn, Sizes, Zenon DEF CopyLast, Moves
  <2>2. vals' \in [Slot -> Values]
    BY <1>6, <2>1, Zenon DEF CopyLast, SlotsType
  <2> QED BY <1>6, <2>2, Zenon DEF CopyLast, SlotsType, Erases, Moves
<1>7. CASE Vacate
  <2>1. last \in Slot
    BY <1>7, Sizes, Zenon DEF Vacate, Moves
  <2>2. revs' \in [Slot -> Nat] /\ lock' \in [Slot -> Holders] /\ vals' \in [Slot -> Values]
    BY <1>0, <1>7, <2>1, Zenon DEF Vacate, Clear, Release, SlotsType
  <2> QED BY <1>7, <2>2, Zenon DEF Vacate, SlotsType, Erases, Moves
<1>8. CASE EraserGivesUp
  <2>1. revs' \in [Slot -> Nat] /\ lock' \in [Slot -> Holders]
    BY <1>0, <1>8, Zenon DEF EraserGivesUp, Release, SlotsType
  <2>2. epc # "done"
    BY <1>8, Zenon DEF EraserGivesUp
  <2> QED BY <1>8, <2>1, <2>2, Zenon DEF EraserGivesUp, SlotsType, Erases, Moves
<1>9. ASSUME NEW c \in Copiers, NextUnused(c) PROVE SlotsType'
  <2>1. dest[c] \in 0..N /\ dest[c] + 1 \in Slot
    BY <1>0, <1>9 DEF NextUnused, FindNextUnused, SlotsType, Slot
  <2>2. lock' \in [Slot -> Holders] /\ dest' \in [Copiers -> 0..N]
    <3>1. dest[c] + 1 \in 0..N
      BY <1>0, <2>1 DEF Slot
    <3> QED BY <1>0, <1>9, <2>1, <3>1, Zenon DEF NextUnused, FindNextUnused, Acquire, SlotsType
  <2>3. cpc' \in [Copiers -> Copies \cup {"find", "done", "failed"}]
    BY <1>9, Zenon DEF NextUnused, Goto, SlotsType, Copies
  <2>4. /\ cpc'[c] \in {"pass", "source"} /\ \A b \in Copiers \ {c} : cpc'[b] = cpc[b]
        /\ \A b \in Copiers \ {c} : dest'[b] = dest[b]
    BY <1>9 DEF NextUnused, Goto, SlotsType
  <2>5. dest'[c] # 0
    BY <1>0, <1>9, <2>1 DEF NextUnused, SlotsType
  <2>6. \A b \in Copiers :
          /\ cpc'[b] \in Copies \cup {"find"} => job[b] <= Len(work[b])
          /\ cpc'[b] \in Copies => dest'[b] # 0
    BY <1>9, <2>4, <2>5, Zenon DEF NextUnused, SlotsType
  <2> QED BY <1>9, <2>2, <2>3, <2>6, Zenon DEF NextUnused, SlotsType
<1>b. ASSUME NEW c \in Copiers, PassUsed(c) PROVE SlotsType'
  <2>1. revs' \in [Slot -> Nat] /\ lock' \in [Slot -> Holders]
    <3>1. dest[c] \in Slot
      BY <1>0, <1>b DEF PassUsed, SlotsType, Copies, Slot
    <3> QED BY <1>0, <1>b, <3>1, Zenon DEF PassUsed, Release, SlotsType
  <2>2. cpc' \in [Copiers -> Copies \cup {"find", "done", "failed"}]
    BY <1>b, Zenon DEF PassUsed, Goto, SlotsType, Copies
  <2>3. cpc[c] = "pass" /\ cpc'[c] = "find" /\ \A b \in Copiers \ {c} : cpc'[b] = cpc[b]
    BY <1>b, Zenon DEF PassUsed, Goto, SlotsType
  <2> QED BY <1>b, <2>1, <2>2, <2>3, Zenon DEF PassUsed, SlotsType, Copies
<1>10. ASSUME NEW c \in Copiers, Full(c) PROVE SlotsType'
  BY <1>10, Zenon DEF Full, Goto, SlotsType, Copies
<1>11. ASSUME NEW c \in Copiers, LockSource(c) PROVE SlotsType'
  <2>1. slock' \in [Sources -> {Nobody} \cup Copiers]
    BY <1>11, SourceIn, Zenon DEF LockSource, SlotsType, Copies
  <2>2. cpc' \in [Copiers -> Copies \cup {"find", "done", "failed"}]
    BY <1>11, Zenon DEF LockSource, Goto, SlotsType, Copies
  <2>3. cpc[c] = "source" /\ \A b \in Copiers \ {c} : cpc'[b] = cpc[b]
    BY <1>11, Zenon DEF LockSource, Goto, SlotsType
  <2> QED BY <1>11, <2>1, <2>2, <2>3, Zenon DEF LockSource, SlotsType, Copies
<1>12. ASSUME NEW c \in Copiers, CopyRecord(c) PROVE SlotsType'
  <2>1. Source(c) \in Sources /\ dest[c] \in Slot /\ SourceRevs[Source(c)] \in Nat
    <3>1. Source(c) \in Sources /\ dest[c] \in 0..N /\ dest[c] # 0
      BY <1>12, SourceIn, Zenon DEF CopyRecord, SlotsType, Copies
    <3> QED BY <1>0, <3>1, SlotsAssumption DEF Slot
  <2>2. revs' \in [Slot -> Nat] /\ lock' \in [Slot -> Holders] /\ vals' \in [Slot -> Values]
    BY <1>0, <1>12, <2>1, Zenon DEF CopyRecord, Release, SlotsType, Values
  <2>3. cpc' \in [Copiers -> Copies \cup {"find", "done", "failed"}]
    BY <1>12, Zenon DEF CopyRecord, Goto, SlotsType, Copies
  <2>4. cpc[c] = "copy" /\ \A b \in Copiers \ {c} : cpc'[b] = cpc[b]
    BY <1>12, Zenon DEF CopyRecord, Goto, SlotsType
  <2> QED BY <1>12, <2>2, <2>3, <2>4, Zenon DEF CopyRecord, SlotsType, Copies
<1>13. ASSUME NEW c \in Copiers, ReleaseSource(c) PROVE SlotsType'
  <2>1. job[c] \in 1..Len(work[c]) /\ Len(work[c]) \in Nat
    BY <1>13, SourceIn, Zenon DEF ReleaseSource, Copies
  <2>2. slock' \in [Sources -> {Nobody} \cup Copiers] /\ job' \in [Copiers -> Nat \ {0}]
    <3>1. job[c] + 1 \in Nat \ {0}
      BY <2>1
    <3> QED BY <1>13, <3>1, Zenon DEF ReleaseSource, SlotsType
  <2>3. cpc' \in [Copiers -> Copies \cup {"find", "done", "failed"}]
    BY <1>13, Zenon DEF ReleaseSource, Goto, SlotsType, Copies
  <2>4. /\ \A b \in Copiers \ {c} : cpc'[b] = cpc[b] /\ job'[b] = job[b]
        /\ cpc'[c] \in {"find", "done"} /\ (cpc'[c] = "find" => job'[c] <= Len(work[c]))
    BY <1>13, <2>1 DEF ReleaseSource, Goto, SlotsType
  <2>5. \A b \in Copiers :
          /\ cpc'[b] \in Copies \cup {"find"} => job'[b] <= Len(work[b])
          /\ cpc'[b] \in Copies => dest[b] # 0
    BY <2>4, Zenon DEF SlotsType, Copies
  <2> QED BY <1>13, <2>2, <2>3, <2>5, Zenon DEF ReleaseSource, SlotsType
<1>14. ASSUME NEW c \in Copiers, CopierGivesUp(c) PROVE SlotsType'
  <2>1. revs' \in [Slot -> Nat] /\ lock' \in [Slot -> Holders]
    <3>1. CASE UNCHANGED <<revs, lock>>
      BY <3>1, Zenon DEF SlotsType
    <3>2. CASE cpc[c] = "source" /\ Release(dest[c], revs[dest[c]])
      <4>1. dest[c] \in Slot
        BY <1>0, <3>2 DEF SlotsType, Copies, Slot
      <4> QED BY <1>0, <3>2, <4>1, Zenon DEF Release, SlotsType
    <3> QED BY <1>14, <3>1, <3>2, Zenon DEF CopierGivesUp
  <2>2. cpc' \in [Copiers -> Copies \cup {"find", "done", "failed"}]
    BY <1>14, Zenon DEF CopierGivesUp, Goto, SlotsType, Copies
  <2>3. cpc'[c] = "failed" /\ \A b \in Copiers \ {c} : cpc'[b] = cpc[b]
    BY <1>14, Zenon DEF CopierGivesUp, Goto, SlotsType
  <2> QED BY <1>14, <2>1, <2>2, <2>3, Zenon DEF CopierGivesUp, SlotsType, Copies
<1>15. CASE UNCHANGED storage
  BY <1>15, Zenon DEF storage, SlotsType
<1> QED BY SlotsCases, <1>1, <1>2, <1>3, <1>a, <1>4, <1>5, <1>6, <1>7, <1>8, <1>9, <1>b, <1>10,
           <1>11, <1>12, <1>13, <1>14, <1>15, Zenon

-----------------------------------------------------------------------------
LEMMA HeldSlots ==
  ASSUME SlotsType, HoldInv
  PROVE /\ epc \in Moves \cup {"pass"} => last \in Slot
        /\ epc \in {"pass", "place", "move", "vacate"} => lock[last] = Eraser
        /\ epc \in {"clear", "move", "vacate", "settle"} => Target \in Slot /\ lock[Target] = Eraser
        /\ \A c \in Copiers : cpc[c] \in Copies => dest[c] \in Slot
        /\ \A c \in Copiers : cpc[c] \in {"pass", "source", "copy"} => lock[dest[c]] = c
        /\ Nobody # Eraser /\ \A c \in Copiers : c # Nobody /\ c # Eraser
<1>0. N \in Nat
  BY SlotsAssumption, Zenon
<1>1. epc \in Moves \cup {"pass"} => last \in Slot
  BY <1>0 DEF SlotsType, Slot
<1>2. epc \in {"clear", "move", "vacate", "settle"} => Target \in Slot
  BY TargetIn, Zenon
<1>3. \A c \in Copiers : cpc[c] \in Copies => dest[c] \in Slot
  BY <1>0 DEF SlotsType, Slot
<1>4. Nobody # Eraser /\ \A c \in Copiers : c # Nobody /\ c # Eraser
  BY SlotsAssumption, Zenon
<1>5. epc \in {"pass", "place", "move", "vacate"} => lock[last] = Eraser
  BY <1>1, Zenon DEF HoldInv, EraserHolds, Moves
<1>6. epc \in {"clear", "move", "vacate", "settle"} => lock[Target] = Eraser
  BY <1>2, Zenon DEF HoldInv, EraserHolds
<1>7. \A c \in Copiers : cpc[c] \in {"pass", "source", "copy"} => lock[dest[c]] = c
  BY <1>3, Zenon DEF HoldInv, Copies
<1> QED BY <1>1, <1>2, <1>3, <1>4, <1>5, <1>6, <1>7, Zenon

LEMMA Apart ==
  ASSUME SlotsType, HoldInv, epc \in {"move", "vacate", "settle"}
  PROVE Target # last
<1>1. Target < last /\ Target \in Int /\ last \in Int
  BY HeldSlots, Sizes, Zenon DEF HoldInv, Moves
<1> QED BY <1>1

LEMMA EraserTouches ==
  ASSUME SlotsType, HoldInv, EraserActs
  PROVE TouchedBy(Eraser) /\ UNCHANGED <<slock, input, copier>>
<1> USE DEF slots, input, eraser, copier
<1>0. UNCHANGED <<slock, input, copier>>
  BY Zenon DEF EraserActs, EraseLock, EraseClear, PrevUsed, PassUnused, NoneUsed, LeaveLast, LockHole,
               CopyLast, Vacate, Settle, EraserGivesUp
<1>1. /\ DOMAIN lock = Slot /\ DOMAIN revs = Slot /\ DOMAIN vals = Slot
      /\ epc # "done" => Target \in Slot
  BY TargetIn, Zenon DEF SlotsType
<1>2. CASE EraseLock \/ LockHole
  BY <1>1, <1>2, Zenon DEF EraseLock, LockHole, Acquire, TouchedBy
<1>3. CASE EraseClear
  BY <1>1, <1>3, HeldSlots, Zenon DEF EraseClear, Clear, Release, TouchedBy
<1>4. CASE PrevUsed
  BY <1>1, <1>4, Zenon DEF PrevUsed, FindPrevUsed, Acquire, TouchedBy
<1>a. CASE PassUnused \/ NoneUsed
  BY <1>1, <1>a, HeldSlots, Zenon DEF PassUnused, NoneUsed, Release, TouchedBy
<1>5. CASE LeaveLast \/ Vacate
  BY <1>1, <1>5, HeldSlots, Zenon DEF LeaveLast, Vacate, Clear, Release, TouchedBy
<1>6. CASE CopyLast
  BY <1>1, <1>6, HeldSlots, Zenon DEF CopyLast, TouchedBy
<1>7. CASE Settle
  BY <1>1, <1>7, HeldSlots, Zenon DEF Settle, Release, TouchedBy
<1>8. CASE EraserGivesUp
  <2>1. CASE UNCHANGED <<revs, lock>>
    BY <1>8, <2>1, Zenon DEF EraserGivesUp, TouchedBy
  <2>2. CASE epc = "place" /\ Release(last, last_rev)
    BY <1>1, <1>8, <2>2, HeldSlots, Zenon DEF EraserGivesUp, Release, TouchedBy
  <2> QED BY <1>8, <2>1, <2>2, Zenon DEF EraserGivesUp
<1> QED BY <1>0, <1>2, <1>3, <1>4, <1>a, <1>5, <1>6, <1>7, <1>8, Zenon DEF EraserActs

LEMMA CopierTouches ==
  ASSUME SlotsType, HoldInv, NEW c \in Copiers, CopierActs(c)
  PROVE /\ TouchedBy(c) /\ UNCHANGED eraser
        /\ \A b \in Copiers \ {c} : cpc'[b] = cpc[b] /\ job'[b] = job[b] /\ dest'[b] = dest[b]
<1> USE DEF slots, copier
<1>0. UNCHANGED eraser
  BY Zenon DEF CopierActs, NextUnused, PassUsed, Full, LockSource, CopyRecord, ReleaseSource,
               CopierGivesUp
<1>1. /\ DOMAIN lock = Slot /\ DOMAIN revs = Slot /\ DOMAIN vals = Slot
      /\ cpc[c] \in {"pass", "source", "copy"} => dest[c] \in Slot /\ lock[dest[c]] = c
  BY HeldSlots, Zenon DEF SlotsType, Copies
<1>2. DOMAIN cpc = Copiers /\ DOMAIN job = Copiers /\ DOMAIN dest = Copiers
  BY Zenon DEF SlotsType
<1>3. \A b \in Copiers \ {c} : cpc'[b] = cpc[b] /\ job'[b] = job[b] /\ dest'[b] = dest[b]
  BY <1>2, Zenon DEF CopierActs, NextUnused, PassUsed, Full, LockSource, CopyRecord, ReleaseSource,
              CopierGivesUp, Goto
<1>4. ASSUME NextUnused(c) PROVE TouchedBy(c)
  BY <1>1, <1>4, Zenon DEF NextUnused, FindNextUnused, Acquire, TouchedBy
<1>a. ASSUME PassUsed(c) PROVE TouchedBy(c)
  BY <1>1, <1>a, Zenon DEF PassUsed, Release, TouchedBy
<1>5. ASSUME Full(c) \/ LockSource(c) \/ ReleaseSource(c) PROVE TouchedBy(c)
  BY <1>5, Zenon DEF Full, LockSource, ReleaseSource, TouchedBy
<1>6. ASSUME CopyRecord(c) PROVE TouchedBy(c)
  BY <1>1, <1>6, Zenon DEF CopyRecord, Release, TouchedBy
<1>7. ASSUME CopierGivesUp(c) PROVE TouchedBy(c)
  <2>1. CASE UNCHANGED <<revs, lock>>
    BY <1>7, <2>1, Zenon DEF CopierGivesUp, TouchedBy
  <2>2. CASE cpc[c] = "source" /\ Release(dest[c], revs[dest[c]])
    BY <1>1, <1>7, <2>2, Zenon DEF CopierGivesUp, Release, TouchedBy
  <2> QED BY <1>7, <2>1, <2>2, Zenon DEF CopierGivesUp
<1> QED BY <1>0, <1>3, <1>4, <1>a, <1>5, <1>6, <1>7, Zenon DEF CopierActs

LEMMA HoldInit == SlotsInit => HoldInv
<1> SUFFICES ASSUME SlotsInit PROVE HoldInv
  BY Zenon
<1>1. Nobody # Eraser /\ \A c \in Copiers : c # Nobody
  BY SlotsAssumption, Zenon
<1>2. epc = "erase" /\ \A c \in Copiers : cpc[c] \in {"done", "find"}
  BY Zenon DEF SlotsInit
<1> QED BY <1>1, <1>2, Zenon DEF SlotsInit, HoldInv, EraserHolds

LEMMA HoldStep == SlotsType /\ HoldInv /\ [SlotsNext]_slotsVars => HoldInv'
<1> SUFFICES ASSUME SlotsType, HoldInv, [SlotsNext]_slotsVars PROVE HoldInv'
  BY Zenon
<1>0. Nobody # Eraser /\ \A c \in Copiers : c # Nobody /\ c # Eraser
  BY HeldSlots, Zenon
<1>1. ASSUME EraserActs PROVE HoldInv'
  <2>0. TouchedBy(Eraser) /\ UNCHANGED <<slock, input, copier>>
    BY <1>1, EraserTouches, Zenon
  <2>1. \A c \in Copiers, i \in Slot :
          lock'[i] = c <=> (cpc'[c] \in {"pass", "source", "copy"} /\ i = dest'[c])
    <3>1. \A c \in Copiers, i \in Slot : lock'[i] = c <=> lock[i] = c
      BY <1>0, <2>0, Zenon DEF TouchedBy
    <3>2. \A c \in Copiers, i \in Slot :
            lock[i] = c <=> (cpc[c] \in {"pass", "source", "copy"} /\ i = dest[c])
      BY Zenon DEF HoldInv
    <3> QED BY <2>0, <3>1, <3>2, Zenon DEF copier
  <2>2. \A c \in Copiers, s \in Sources :
          slock'[s] = c <=> (cpc'[c] \in {"copy", "release"} /\ s = Source(c)')
    BY <2>0, Zenon DEF HoldInv, copier, input, Source
  <2>3. \A i \in Slot : lock'[i] = Eraser <=> EraserHolds(i)'
    <3>0. /\ DOMAIN lock = Slot /\ (epc # "done" => Target \in Slot)
          /\ \A i \in Slot : lock[i] = Eraser <=> EraserHolds(i)
      BY TargetIn, Zenon DEF SlotsType, HoldInv
    <3>1. CASE EraseLock \/ LockHole
      BY <1>0, <3>0, <3>1, Zenon DEF EraseLock, LockHole, Acquire, EraserHolds, Target, input
    <3>2. CASE EraseClear
      BY <1>0, <3>0, <3>2, Zenon DEF EraseClear, Clear, Release, EraserHolds, Target, input
    <3>3. CASE PrevUsed
      BY <1>0, <3>0, <3>3 DEF PrevUsed, FindPrevUsed, Acquire, EraserHolds, Target, input
    <3>a. CASE PassUnused \/ NoneUsed
      BY <1>0, <3>0, <3>a, Zenon DEF PassUnused, NoneUsed, Release, EraserHolds, Target, input, slots
    <3>4. CASE LeaveLast
      BY <1>0, <3>0, <3>4, Zenon DEF LeaveLast, Release, NextTarget, EraserHolds, Target, input
    <3>5. CASE CopyLast
      BY <3>0, <3>5, Zenon DEF CopyLast, EraserHolds, Target, input
    <3>6. CASE Vacate
      <4>1. Target # last
        <5>1. Target < last /\ Target \in Int /\ last \in Int
          BY <3>6, TargetIn, Sizes, Zenon DEF Vacate, HoldInv, Moves
        <5> QED BY <5>1
      <4> QED BY <1>0, <3>0, <3>6, <4>1, Zenon DEF Vacate, Clear, Release, EraserHolds, Target, input
    <3>7. CASE Settle
      BY <1>0, <3>0, <3>7, Zenon DEF Settle, Release, NextTarget, EraserHolds, Target, input
    <3>8. CASE EraserGivesUp
      BY <1>0, <3>0, <3>8, Zenon DEF EraserGivesUp, Release, EraserHolds, Target, input
    <3> QED BY <1>1, <3>1, <3>2, <3>3, <3>a, <3>4, <3>5, <3>6, <3>7, <3>8, Zenon DEF EraserActs
  <2>4. epc' \in {"move", "vacate", "settle"} => Target' < last'
    <3>1. CASE LockHole
      <4>1. Target < last
        <5>1. ~(Target >= last) /\ Target \in Slot /\ last \in 1..(N + 1) /\ N \in Nat
          BY <3>1, TargetIn, SlotsAssumption, Zenon DEF LockHole, Behind, SlotsType
        <5> QED BY <5>1 DEF Slot
      <4> QED BY <3>1, <4>1, Zenon DEF LockHole, Target, input
    <3>2. CASE CopyLast \/ Vacate
      BY <3>2, Zenon DEF CopyLast, Vacate, HoldInv, Target, input
    <3>3. CASE EraseLock \/ EraseClear \/ PrevUsed \/ PassUnused \/ NoneUsed
      BY <3>3, Zenon DEF EraseLock, EraseClear, PrevUsed, PassUnused, NoneUsed
    <3>4. CASE LeaveLast \/ Settle \/ EraserGivesUp
      BY <3>4, Zenon DEF LeaveLast, Settle, EraserGivesUp, NextTarget
    <3> QED BY <1>1, <3>1, <3>2, <3>3, <3>4, Zenon DEF EraserActs
  <2> QED BY <2>1, <2>2, <2>3, <2>4, Zenon DEF HoldInv
<1>2. ASSUME NEW c \in Copiers, CopierActs(c) PROVE HoldInv'
  <2>0. /\ TouchedBy(c) /\ UNCHANGED eraser
        /\ \A b \in Copiers \ {c} : cpc'[b] = cpc[b] /\ job'[b] = job[b] /\ dest'[b] = dest[b]
    BY <1>2, CopierTouches, Zenon
  <2>1. \A i \in Slot : lock'[i] = Eraser <=> EraserHolds(i)'
    <3>1. \A i \in Slot : lock'[i] = Eraser <=> lock[i] = Eraser
      BY <1>0, <2>0, Zenon DEF TouchedBy
    <3>2. \A i \in Slot : EraserHolds(i)' <=> EraserHolds(i)
      BY <2>0, Zenon DEF EraserHolds, Target, eraser, input
    <3> QED BY <3>1, <3>2, Zenon DEF HoldInv
  <2>2. \A b \in Copiers \ {c}, i \in Slot :
          lock'[i] = b <=> (cpc'[b] \in {"pass", "source", "copy"} /\ i = dest'[b])
    <3>1. \A b \in Copiers \ {c}, i \in Slot : lock'[i] = b <=> lock[i] = b
      BY <1>0, <2>0 DEF TouchedBy
    <3>2. \A b \in Copiers, i \in Slot :
            lock[i] = b <=> (cpc[b] \in {"pass", "source", "copy"} /\ i = dest[b])
      BY Zenon DEF HoldInv
    <3> TAKE b \in Copiers \ {c}, i \in Slot
    <3>3. cpc'[b] = cpc[b] /\ dest'[b] = dest[b]
      BY <2>0, Zenon
    <3>4. lock'[i] = b <=> lock[i] = b
      BY <3>1, Zenon
    <3>5. lock[i] = b <=> (cpc[b] \in {"pass", "source", "copy"} /\ i = dest[b])
      BY <3>2, Zenon
    <3> QED BY <3>3, <3>4, <3>5
  <2>3. /\ DOMAIN lock = Slot /\ DOMAIN cpc = Copiers /\ DOMAIN dest = Copiers
        /\ DOMAIN slock = Sources /\ DOMAIN job = Copiers /\ UNCHANGED work
        /\ cpc[c] \in Copies \cup {"find"} => Source(c) \in Sources
        /\ \A i \in Slot : lock[i] = c <=> (cpc[c] \in {"pass", "source", "copy"} /\ i = dest[c])
        /\ \A b \in Copiers, s \in Sources :
              slock[s] = b <=> (cpc[b] \in {"copy", "release"} /\ s = Source(b))
    BY <2>0, SourceIn, Zenon DEF SlotsType, HoldInv, eraser, input
  <2>4. /\ \A i \in Slot : lock'[i] = c <=> (cpc'[c] \in {"pass", "source", "copy"} /\ i = dest'[c])
        /\ \A s \in Sources : slock'[s] = c <=> (cpc'[c] \in {"copy", "release"} /\ s = Source(c)')
        /\ \A s \in Sources, b \in Copiers \ {c} : slock'[s] = b <=> slock[s] = b
    <3>1. CASE NextUnused(c)
      <4>1. dest[c] + 1 # dest[c]
        <5>1. dest[c] \in 0..N /\ N \in Nat
          BY Sizes, Zenon DEF SlotsType
        <5> QED BY <5>1
      <4> QED BY <1>0, <2>3, <3>1, <4>1
              DEF NextUnused, FindNextUnused, Acquire, Goto, Source
    <3>a. CASE PassUsed(c)
      BY <1>0, <2>3, <3>a, Zenon DEF PassUsed, Release, Goto, Source
    <3>2. CASE Full(c)
      BY <1>0, <2>3, <3>2, Zenon DEF Full, Goto, Source, slots
    <3>3. CASE LockSource(c)
      <4>1. /\ cpc[c] = "source" /\ slock[Source(c)] = Nobody /\ Source(c) \in Sources
            /\ UNCHANGED <<lock, dest>> /\ Source(c)' = Source(c)
            /\ cpc'[c] = "copy" /\ slock' = [slock EXCEPT ![Source(c)] = c]
        BY <2>3, <3>3, Zenon DEF LockSource, Goto, Source, slots, Copies
      <4>2. \A s \in Sources : slock'[s] = IF s = Source(c) THEN c ELSE slock[s]
        BY <2>3, <4>1, Zenon
      <4> QED BY <1>0, <2>3, <4>1, <4>2, ZenonT(30)
    <3>4. CASE CopyRecord(c)
      BY <1>0, <2>3, <3>4, Zenon DEF CopyRecord, Release, Goto, Source
    <3>5. CASE ReleaseSource(c)
      BY <1>0, <2>3, <3>5, Zenon DEF ReleaseSource, Goto, Source, slots, Copies
    <3>6. CASE CopierGivesUp(c)
      BY <1>0, <2>3, <3>6 DEF CopierGivesUp, Release, Goto, Source
    <3> QED BY <1>2, <3>1, <3>a, <3>2, <3>3, <3>4, <3>5, <3>6, Zenon DEF CopierActs
  <2>5. \A b \in Copiers \ {c} : Source(b)' = Source(b)
    BY <2>0, <2>3, Zenon DEF Source
  <2>6. \A b \in Copiers, s \in Sources :
          slock'[s] = b <=> (cpc'[b] \in {"copy", "release"} /\ s = Source(b)')
    BY <2>0, <2>3, <2>4, <2>5
  <2>7. \A b \in Copiers, i \in Slot :
          lock'[i] = b <=> (cpc'[b] \in {"pass", "source", "copy"} /\ i = dest'[b])
    <3> TAKE b \in Copiers, i \in Slot
    <3>1. CASE b = c
      BY <2>4, <3>1, Zenon
    <3>2. CASE b # c
      BY <2>2, <3>2, Zenon
    <3> QED BY <3>1, <3>2, Zenon
  <2>8. epc' \in {"move", "vacate", "settle"} => Target' < last'
    BY <2>0, Zenon DEF HoldInv, eraser, input, Target
  <2> QED BY <2>1, <2>6, <2>7, <2>8, Zenon DEF HoldInv
<1>3. CASE UNCHANGED storage
  <2>1. \A i \in Slot : lock'[i] = lock[i] /\ (EraserHolds(i)' <=> EraserHolds(i))
    BY <1>3, Zenon DEF storage, slots, eraser, input, EraserHolds, Target
  <2>2. \A c \in Copiers : cpc'[c] = cpc[c] /\ dest'[c] = dest[c] /\ Source(c)' = Source(c)
    BY <1>3, Zenon DEF storage, eraser, input, copier, Source
  <2>3. slock' = slock /\ (epc' \in {"move", "vacate", "settle"} => Target' < last')
    BY <1>3, Zenon DEF storage, eraser, input, HoldInv, Target
  <2>4. \A i \in Slot : lock'[i] = Eraser <=> EraserHolds(i)'
    BY <2>1 DEF HoldInv
  <2>5. \A c \in Copiers, i \in Slot :
           lock'[i] = c <=> (cpc'[c] \in {"pass", "source", "copy"} /\ i = dest'[c])
    BY <2>1, <2>2 DEF HoldInv
  <2>6. \A c \in Copiers, s \in Sources :
           slock'[s] = c <=> (cpc'[c] \in {"copy", "release"} /\ s = Source(c)')
    BY <2>2, <2>3 DEF HoldInv
  <2> QED BY <2>3, <2>4, <2>5, <2>6, Zenon DEF HoldInv
<1> QED BY SlotsCases, <1>1, <1>2, <1>3, Zenon DEF EraserActs, CopierActs

Moving(i) == epc \in {"vacate", "settle"} /\ i = Target

(* The revision of a slot goes with its value, but in the hole into which  *)
(* a record is being moved.                                                *)
PairInv ==
    /\ \A i \in Slot : Moving(i) \/ revs[i] \in RevisionOf(vals[i])
    /\ epc \in {"vacate", "settle"} => last_rev \in RevisionOf(vals[Target])
    /\ epc = "vacate" => vals[Target] = vals[last]

(* A program that has ended, by an error or not, holds no lock: every path *)
(* of eraser.c and copier.c that ends gives back what it had locked.       *)
THEOREM NoLockLeftTheorem == SlotsSpec => []NoLockLeft
<1>1. SlotsInit => SlotsType /\ HoldInv
  BY SlotsTypeInit, HoldInit, Zenon
<1>2. SlotsType /\ HoldInv /\ [SlotsNext]_slotsVars => (SlotsType /\ HoldInv)'
  BY SlotsTypeStep, HoldStep, Zenon
<1>3. SlotsType /\ HoldInv => NoLockLeft
  BY Zenon DEF HoldInv, EraserHolds, NoLockLeft
<1> QED BY <1>1, <1>2, <1>3, PTL DEF SlotsSpec

-----------------------------------------------------------------------------
LEMMA WordInit == SlotsInit => WordInv
<1> SUFFICES ASSUME SlotsInit PROVE WordInv
  BY Zenon
<1>1. epc = "erase" /\ \A c \in Copiers : cpc[c] \in {"done", "find"}
  BY Zenon DEF SlotsInit
<1> QED BY <1>1, Zenon DEF WordInv, Moves

LEMMA WordStep == SlotsType /\ HoldInv /\ WordInv /\ [SlotsNext]_slotsVars => WordInv'
<1> SUFFICES ASSUME SlotsType, HoldInv, WordInv, [SlotsNext]_slotsVars PROVE WordInv'
  BY Zenon
<1>0. Nobody # Eraser /\ \A c \in Copiers : c # Nobody /\ c # Eraser
  BY HeldSlots, Zenon
<1>1. ASSUME EraserActs PROVE WordInv'
  <2>0. TouchedBy(Eraser) /\ UNCHANGED <<slock, input, copier>>
    BY <1>1, EraserTouches, Zenon
  <2>1. \A c \in Copiers : cpc'[c] \in {"source", "copy"} => revs'[dest'[c]] = 0
    BY <1>0, <2>0, HeldSlots, Zenon DEF TouchedBy, WordInv, copier, Copies
  <2>2. /\ epc' \in {"pass", "place", "move", "vacate"} => revs'[last'] = last_rev'
        /\ epc' \in Moves => last_rev' # 0
        /\ epc' = "pass" => last_rev' = 0
    <3>1. CASE EraseLock \/ EraseClear \/ LeaveLast \/ Settle \/ EraserGivesUp
      <4>1. epc' \notin Moves /\ epc' # "pass"
        BY <3>1, Zenon DEF EraseLock, EraseClear, LeaveLast, Settle, EraserGivesUp, NextTarget, Moves
      <4> QED BY <4>1, Zenon DEF Moves
    <3>a. CASE PassUnused \/ NoneUsed
      <4>1. epc' \in {"find", "done"}
        BY <3>a, Zenon DEF PassUnused, NoneUsed
      <4> QED BY <4>1, Zenon DEF Moves
    <3>2. CASE PrevUsed
      <4>1. revs'[last'] = last_rev' /\ epc' = IF last_rev' # 0 THEN "place" ELSE "pass"
        BY <3>2, Zenon DEF PrevUsed
      <4> QED BY <4>1, Zenon DEF Moves
    <3>3. CASE LockHole \/ CopyLast \/ Vacate
      BY <3>3, Zenon DEF LockHole, CopyLast, Vacate, WordInv, Moves
    <3> QED BY <1>1, <3>1, <3>a, <3>2, <3>3, Zenon DEF EraserActs
  <2> QED BY <2>1, <2>2, Zenon DEF WordInv
<1>2. ASSUME NEW c \in Copiers, CopierActs(c) PROVE WordInv'
  <2>0. /\ TouchedBy(c) /\ UNCHANGED eraser
        /\ \A b \in Copiers \ {c} : cpc'[b] = cpc[b] /\ job'[b] = job[b] /\ dest'[b] = dest[b]
    BY <1>2, CopierTouches, Zenon
  <2>1. epc \in {"pass", "place", "move", "vacate"} => last \in Slot /\ lock[last] = Eraser
    BY HeldSlots, Zenon DEF Moves
  <2>2. epc \in {"pass", "place", "move", "vacate"} => revs'[last] = revs[last]
    BY <1>0, <2>0, <2>1, Zenon DEF TouchedBy
  <2>3. /\ epc' \in {"pass", "place", "move", "vacate"} => revs'[last'] = last_rev'
        /\ epc' \in Moves => last_rev' # 0
        /\ epc' = "pass" => last_rev' = 0
    BY <2>0, <2>2, Zenon DEF WordInv, eraser
  <2>4. \A b \in Copiers \ {c} : cpc[b] \in {"source", "copy"} =>
            dest[b] \in Slot /\ lock[dest[b]] = b
    BY HeldSlots, Zenon DEF Copies
  <2>5. \A b \in Copiers \ {c} : cpc'[b] \in {"source", "copy"} => revs'[dest'[b]] = 0
    <3> SUFFICES ASSUME NEW b \in Copiers \ {c}, cpc'[b] \in {"source", "copy"}
                 PROVE revs'[dest'[b]] = 0
      BY Zenon
    <3>1. cpc'[b] = cpc[b] /\ dest'[b] = dest[b] /\ dest[b] \in Slot /\ lock[dest[b]] = b
      BY <2>0, <2>4, Zenon
    <3> QED BY <2>0, <3>1, Zenon DEF TouchedBy, WordInv
  <2>6. cpc'[c] \in {"source", "copy"} => revs'[dest'[c]] = 0
    <3>0. DOMAIN cpc = Copiers /\ DOMAIN dest = Copiers
      BY Zenon DEF SlotsType
    <3>1. CASE NextUnused(c)
      BY <3>0, <3>1, Zenon DEF NextUnused, FindNextUnused, Goto
    <3>2. CASE LockSource(c)
      BY <3>0, <3>2, Zenon DEF LockSource, Goto, WordInv, slots
    <3>3. CASE PassUsed(c) \/ Full(c) \/ CopyRecord(c) \/ ReleaseSource(c) \/ CopierGivesUp(c)
      BY <3>0, <3>3, Zenon DEF PassUsed, Full, CopyRecord, ReleaseSource, CopierGivesUp, Goto
    <3> QED BY <1>2, <3>1, <3>2, <3>3, Zenon DEF CopierActs
  <2>7. \A b \in Copiers : cpc'[b] \in {"source", "copy"} => revs'[dest'[b]] = 0
    BY <2>5, <2>6, Zenon
  <2> QED BY <2>3, <2>7, Zenon DEF WordInv
<1>3. CASE UNCHANGED storage
  BY <1>3, Zenon DEF storage, slots, eraser, copier, WordInv
<1> QED BY SlotsCases, <1>1, <1>2, <1>3, Zenon DEF EraserActs, CopierActs

(* The only slots a copier changes are unused ones it has locked. *)
LEMMA CopierFills ==
  ASSUME SlotsType, HoldInv, WordInv, NEW c \in Copiers, CopierActs(c), NEW i \in Slot
  PROVE \/ revs'[i] = revs[i] /\ vals'[i] = vals[i]
        \/ /\ CopyRecord(c) /\ i = dest[c] /\ lock[i] = c /\ revs[i] = 0
           /\ revs'[i] = SourceRevs[Source(c)] /\ vals'[i] = Copied(Source(c))
<1>1. ASSUME ~CopyRecord(c) PROVE revs'[i] = revs[i] /\ vals'[i] = vals[i]
  BY <1>1, Zenon DEF CopierActs, NextUnused, PassUsed, Full, LockSource, ReleaseSource, CopierGivesUp,
              Release, slots, SlotsType
<1>2. ASSUME CopyRecord(c), i # dest[c] PROVE revs'[i] = revs[i] /\ vals'[i] = vals[i]
  BY <1>2, Zenon DEF CopyRecord, Release, SlotsType
<1>3. ASSUME CopyRecord(c), i = dest[c]
      PROVE /\ lock[i] = c /\ revs[i] = 0
            /\ revs'[i] = SourceRevs[Source(c)] /\ vals'[i] = Copied(Source(c))
  <2>1. cpc[c] = "copy" /\ lock[i] = c /\ revs[i] = 0
    BY <1>3, HeldSlots, Zenon DEF CopyRecord, WordInv
  <2> QED BY <1>3, <2>1, Zenon DEF CopyRecord, Release, SlotsType
<1> QED BY <1>1, <1>2, <1>3, Zenon

-----------------------------------------------------------------------------
LEMMA ValuesDiffer ==
  /\ \A i : Old(i) # Empty
  /\ \A s : Copied(s) # Empty
  /\ \A i, s : Old(i) # Copied(s)
  /\ \A i, j : Old(i) = Old(j) => i = j
  /\ \A r, s : Copied(r) = Copied(s) => r = s
<1>1. \A i : Len(Old(i)) = 2 /\ Old(i)[1] = "old" /\ Old(i)[2] = i
  BY Zenon DEF Old
<1>2. \A s : Len(Copied(s)) = 2 /\ Copied(s)[1] = "copied" /\ Copied(s)[2] = s
  BY Zenon DEF Copied
<1>3. Len(Empty) = 1
  BY Zenon DEF Empty
<1>4. \A i : Old(i) # Empty
  BY <1>1, <1>3
<1>5. \A s : Copied(s) # Empty
  BY <1>2, <1>3
<1>6. \A i, s : Old(i) # Copied(s)
  <2> TAKE i, s
  <2>1. Old(i)[1] = "old" /\ Copied(s)[1] = "copied"
    BY <1>1, <1>2, Zenon
  <2> QED BY <2>1, Zenon
<1>7. \A i, j : Old(i) = Old(j) => i = j
  <2> TAKE i, j
  <2>1. Old(i)[2] = i /\ Old(j)[2] = j
    BY <1>1, Zenon
  <2> QED BY <2>1, Zenon
<1>8. \A r, s : Copied(r) = Copied(s) => r = s
  <2> TAKE r, s
  <2>1. Copied(r)[2] = r /\ Copied(s)[2] = s
    BY <1>2, Zenon
  <2> QED BY <2>1, Zenon
<1> QED BY <1>4, <1>5, <1>6, <1>7, <1>8, Zenon

(* RevisionOf by kind of value *)
LEMMA RevisionIs ==
  /\ RevisionOf(Empty) = {0}
  /\ \A i \in Slot : RevisionOf(Old(i)) = {1}
  /\ \A s \in Sources : RevisionOf(Copied(s)) = {SourceRevs[s]}
<1>1. RevisionOf(Empty) = {0}
  <2>1. Empty \notin {Old(i) : i \in Slot}
    BY ValuesDiffer, Zenon
  <2> QED BY <2>1, Zenon DEF RevisionOf
<1>2. ASSUME NEW i \in Slot PROVE RevisionOf(Old(i)) = {1}
  <2>1. Old(i) # Empty /\ Old(i) \in {Old(j) : j \in Slot}
    BY ValuesDiffer, Zenon
  <2> QED BY <2>1, Zenon DEF RevisionOf
<1>3. ASSUME NEW s \in Sources PROVE RevisionOf(Copied(s)) = {SourceRevs[s]}
  <2>1. Copied(s) # Empty /\ Copied(s) \notin {Old(i) : i \in Slot}
    BY ValuesDiffer, Zenon
  <2>2. {t \in Sources : Copied(s) = Copied(t)} = {s}
    BY ValuesDiffer, Zenon
  <2>3. {SourceRevs[t] : t \in {t \in Sources : Copied(s) = Copied(t)}} = {SourceRevs[s]}
    BY <2>2, Zenon
  <2>4. RevisionOf(Copied(s)) = {SourceRevs[t] : t \in {t \in Sources : Copied(s) = Copied(t)}}
    BY <2>1, Zenon DEF RevisionOf
  <2> QED BY <2>3, <2>4, Zenon
<1> QED BY <1>1, <1>2, <1>3, Zenon

LEMMA PairInit == SlotsInit => PairInv
<1> SUFFICES ASSUME SlotsInit PROVE PairInv
  BY Zenon
<1>1. epc = "erase"
  BY Zenon DEF SlotsInit
<1>2. ASSUME NEW i \in Slot PROVE revs[i] \in RevisionOf(vals[i])
  BY RevisionIs, Zenon DEF SlotsInit
<1> QED BY <1>1, <1>2, Zenon DEF PairInv

LEMMA PairStep ==
  SlotsType /\ HoldInv /\ WordInv /\ PairInv /\ [SlotsNext]_slotsVars => PairInv'
<1> SUFFICES ASSUME SlotsType, HoldInv, WordInv, PairInv, [SlotsNext]_slotsVars PROVE PairInv'
  BY Zenon
<1>0. Nobody # Eraser /\ \A c \in Copiers : c # Nobody /\ c # Eraser
  BY HeldSlots, Zenon
<1>1. ASSUME EraserActs PROVE PairInv'
  <2>0. DOMAIN lock = Slot /\ DOMAIN revs = Slot /\ DOMAIN vals = Slot
    BY Zenon DEF SlotsType
  <2>1. CASE EraseLock \/ PrevUsed \/ NoneUsed \/ LockHole
    <3>1. /\ UNCHANGED <<revs, vals>> /\ epc \notin {"vacate", "settle"}
          /\ epc' \notin {"vacate", "settle"}
      BY <2>1, Zenon DEF EraseLock, PrevUsed, NoneUsed, LockHole, slots
    <3> QED BY <3>1, Zenon DEF PairInv, Moving
  <2>2. CASE EraseClear
    <3>1. Target \in Slot /\ epc = "clear" /\ epc' \notin {"vacate", "settle"}
      BY <2>2, TargetIn, Zenon DEF EraseClear
    <3>2. \A i \in Slot : \/ i # Target /\ revs'[i] = revs[i] /\ vals'[i] = vals[i]
                          \/ revs'[i] = 0 /\ vals'[i] = Empty
      BY <2>0, <2>2, <3>1, Zenon DEF EraseClear, Clear, Release
    <3>3. \A i \in Slot : revs'[i] \in RevisionOf(vals'[i])
      BY <3>1, <3>2, RevisionIs, Zenon DEF PairInv, Moving
    <3> QED BY <3>1, <3>3, Zenon DEF PairInv
  <2>3. CASE PassUnused \/ LeaveLast \/ EraserGivesUp
    <3>1. epc \notin {"vacate", "settle"} /\ epc' \notin {"vacate", "settle"} /\ vals' = vals
      BY <2>3, Zenon DEF PassUnused, LeaveLast, EraserGivesUp, NextTarget
    <3>2. revs' = revs
      <4>1. CASE UNCHANGED revs
        BY <4>1, Zenon
      <4>2. CASE epc \in {"pass", "place"} /\ Release(last, last_rev)
        <5>1. last \in Slot /\ revs[last] = last_rev
          BY <4>2, HeldSlots, Zenon DEF WordInv, Moves
        <5>2. revs \in [Slot -> Nat]
          BY Zenon DEF SlotsType
        <5> QED BY <4>2, <5>1, <5>2, Zenon DEF Release
      <4> QED BY <2>3, <4>1, <4>2, Zenon DEF PassUnused, LeaveLast, EraserGivesUp
    <3> QED BY <3>1, <3>2, Zenon DEF PairInv, Moving
  <2>4. CASE CopyLast
    <3>1. /\ Target \in Slot /\ last \in Slot /\ epc = "move" /\ epc' = "vacate"
          /\ revs[last] = last_rev /\ Target # last
      BY <2>4, HeldSlots, Apart, Zenon DEF CopyLast, WordInv, Moves
    <3>2. /\ UNCHANGED <<revs, last, last_rev>> /\ Target' = Target
          /\ vals'[Target] = vals[last] /\ \A i \in Slot : i # Target => vals'[i] = vals[i]
      BY <2>0, <2>4, <3>1, Zenon DEF CopyLast, Target, input
    <3>3. last_rev \in RevisionOf(vals[last])
      BY <3>1, Zenon DEF PairInv, Moving
    <3> QED BY <3>1, <3>2, <3>3, Zenon DEF PairInv, Moving
  <2>5. CASE Vacate
    <3>1. /\ Target \in Slot /\ last \in Slot /\ epc = "vacate" /\ epc' = "settle" /\ Target # last
      BY <2>5, HeldSlots, Apart, Zenon DEF Vacate, Moves
    <3>2. /\ Target' = Target /\ last_rev' = last_rev
          /\ \A i \in Slot : \/ i # last /\ revs'[i] = revs[i] /\ vals'[i] = vals[i]
                             \/ i = last /\ revs'[i] = 0 /\ vals'[i] = Empty
      BY <2>0, <2>5, <3>1, Zenon DEF Vacate, Clear, Release, Target, input
    <3>3. \A i \in Slot : i = Target \/ revs'[i] \in RevisionOf(vals'[i])
      BY <3>1, <3>2, RevisionIs, Zenon DEF PairInv, Moving
    <3> QED BY <3>1, <3>2, <3>3, Zenon DEF PairInv, Moving
  <2>6. CASE Settle
    <3>1. Target \in Slot /\ epc = "settle" /\ epc' \in {"find", "done"}
      BY <2>6, HeldSlots, Zenon DEF Settle, NextTarget
    <3>2. /\ vals' = vals /\ revs'[Target] = last_rev
          /\ \A i \in Slot : i # Target => revs'[i] = revs[i]
      BY <2>0, <2>6, <3>1, Zenon DEF Settle, Release
    <3>3. \A i \in Slot : revs'[i] \in RevisionOf(vals'[i])
      BY <3>1, <3>2, Zenon DEF PairInv, Moving
    <3> QED BY <3>1, <3>3, Zenon DEF PairInv
  <2> QED BY <1>1, <2>1, <2>2, <2>3, <2>4, <2>5, <2>6, Zenon DEF EraserActs
<1>2. ASSUME NEW c \in Copiers, CopierActs(c) PROVE PairInv'
  <2>0. TouchedBy(c) /\ UNCHANGED eraser
    BY <1>2, CopierTouches, Zenon
  <2>1. /\ Target' = Target /\ epc' = epc /\ last' = last /\ last_rev' = last_rev
    BY <2>0, Zenon DEF eraser, input, Target
  <2>2. /\ epc \in {"vacate", "settle"} => vals'[Target] = vals[Target]
        /\ epc = "vacate" => vals'[last] = vals[last]
    BY <1>0, <2>0, HeldSlots, Zenon DEF TouchedBy, Moves
  <2>3. ASSUME NEW i \in Slot, ~Moving(i) PROVE revs'[i] \in RevisionOf(vals'[i])
    <3>0. revs[i] \in RevisionOf(vals[i])
      BY <2>3, Zenon DEF PairInv
    <3>1. CASE revs'[i] = revs[i] /\ vals'[i] = vals[i]
      BY <3>0, <3>1, Zenon
    <3>2. CASE /\ CopyRecord(c)
               /\ revs'[i] = SourceRevs[Source(c)] /\ vals'[i] = Copied(Source(c))
      <4>1. Source(c) \in Sources
        BY <3>2, SourceIn, Zenon DEF CopyRecord, Copies
      <4> QED BY <3>2, <4>1, RevisionIs, Zenon
    <3> QED BY <1>2, <3>1, <3>2, CopierFills, Zenon
  <2> QED BY <2>1, <2>2, <2>3, Zenon DEF PairInv, Moving
<1>3. CASE UNCHANGED storage
  BY <1>3, Zenon DEF storage, slots, eraser, input, PairInv, Moving, Target
<1> QED BY SlotsCases, <1>1, <1>2, <1>3, Zenon DEF EraserActs, CopierActs

-----------------------------------------------------------------------------
Entry == [was : Nat, rev : Nat, locked : BOOLEAN, val : Values]
Reads == {"word", "value", "check"}

GrowerType ==
    /\ gpc \in Reads \cup {"none", "lock", "done", "failed"}
    /\ old_r \in Nat \ {0} /\ (gpc \in Reads => old_r \in Slot)
    /\ buf \in Entry /\ grown \in Seq(Entry) /\ Len(grown) = old_r - 1

(* Without compaction nothing moves. *)
StayInv ==
    ~compact => /\ epc \in Erases \cup {"done", "failed"}
                /\ \A i \in Used \ ToErase : vals[i] = Old(i) /\ revs[i] = 1

(* If the slot is free with the revision the grower waited for, and was    *)
(* not given back with it meanwhile, what the grower has copied so far is  *)
(* what the slot holds.                                                    *)
ReadInv ==
    /\ gpc \in Reads /\ old_r \notin restored /\ Unchanged =>
          /\ gpc \in {"value", "check"} => buf.rev = buf.was /\ ~buf.locked
          /\ gpc = "check" => buf.val = vals[old_r]
    /\ gpc = "check" /\ old_r \in Used \ ToErase /\ ~compact => buf.val = Old(old_r)

(* And if it was not changed meanwhile, however often it was locked, the   *)
(* revision the grower has copied goes with its value.                     *)
SameInv ==
    gpc \in Reads /\ old_r \notin rewritten =>
        /\ revs[old_r] \in RevisionOf(vals[old_r])
        /\ gpc \in {"value", "check"} => buf.rev \in RevisionOf(vals[old_r])
        /\ gpc = "check" => buf.val = vals[old_r]

LEMMA GrowerCases ==
  ASSUME [SlotsNext]_slotsVars
  PROVE \/ EraserActs /\ GrowerAside
        \/ \E c \in Copiers : CopierActs(c) /\ GrowerAside
        \/ GrowLock \/ GrowCopyWord \/ GrowCopyValue \/ GrowCheck
        \/ GrowEnd \/ GrowerGivesUp \/ UNCHANGED slotsVars
BY Zenon DEF SlotsNext, Erasing, Filling, GivingUp, Growing, EraserActs, CopierActs

(* The two kinds of steps that change the slots, as steps of a program p.  *)
LEMMA SomeoneTouches ==
  ASSUME SlotsType, HoldInv, EraserActs \/ \E c \in Copiers : CopierActs(c)
  PROVE /\ \E p : p # Nobody /\ TouchedBy(p)
        /\ UNCHANGED <<args, compact, work>>
<1>1. Nobody # Eraser /\ \A c \in Copiers : c # Nobody
  BY HeldSlots, Zenon
<1>2. CASE EraserActs
  BY <1>1, <1>2, EraserTouches, Zenon DEF input
<1>3. ASSUME NEW c \in Copiers, CopierActs(c)
      PROVE (\E p : p # Nobody /\ TouchedBy(p)) /\ UNCHANGED <<args, compact, work>>
  BY <1>1, <1>3, CopierTouches, Zenon DEF eraser, input
<1> QED BY <1>2, <1>3, Zenon

LEMMA StayInit == SlotsInit => StayInv
<1> SUFFICES ASSUME SlotsInit PROVE StayInv
  BY Zenon
<1>1. epc = "erase"
  BY Zenon DEF SlotsInit
<1>2. Used \subseteq Slot
  BY SlotsAssumption, Zenon
<1>3. \A i \in Used \ ToErase : vals[i] = Old(i) /\ revs[i] = 1
  BY <1>2, Zenon DEF SlotsInit
<1> QED BY <1>1, <1>3, Zenon DEF StayInv, Erases

LEMMA StayStep ==
  SlotsType /\ HoldInv /\ WordInv /\ StayInv /\ [SlotsNext]_slotsVars => StayInv'
<1> SUFFICES ASSUME SlotsType, HoldInv, WordInv, StayInv, [SlotsNext]_slotsVars, ~compact'
             PROVE StayInv'
  BY Zenon DEF StayInv
<1>0. Used \subseteq Slot
  BY SlotsAssumption, Zenon
<1>1. ASSUME EraserActs PROVE StayInv'
  <2>1. UNCHANGED <<args, compact>> /\ ~compact
    <3>1. UNCHANGED <<args, compact>>
      BY <1>1, EraserTouches, Zenon DEF input
    <3> QED BY <3>1, Zenon
  <2>2. ToErase' = ToErase /\ epc \in {"erase", "clear", "done", "failed"}
    BY <2>1, Zenon DEF ToErase, StayInv, Erases
  <2>3. CASE EraseClear
    <3>1. Target \in Slot /\ Target \in ToErase
      BY <2>3, TargetIn, Zenon DEF EraseClear, Target, ToErase
    <3>2. \A i \in Slot : i # Target => revs'[i] = revs[i] /\ vals'[i] = vals[i]
      BY <2>3, <3>1, Zenon DEF EraseClear, Clear, Release, SlotsType
    <3>3. epc' \in {"erase", "done"}
      BY <2>1, <2>3, Zenon DEF EraseClear
    <3> QED BY <1>0, <2>1, <2>2, <3>1, <3>2, <3>3, Zenon DEF StayInv, Erases
  <2>4. CASE EraseLock \/ EraserGivesUp
    <3>1. UNCHANGED <<revs, vals>> /\ epc' \in {"clear", "failed"}
      BY <2>2, <2>4, Zenon DEF EraseLock, EraserGivesUp
    <3> QED BY <2>1, <2>2, <3>1, Zenon DEF StayInv, Erases
  <2>5. EraseClear \/ EraseLock \/ EraserGivesUp
    BY <1>1, <2>2, Zenon DEF EraserActs, PrevUsed, PassUnused, NoneUsed, LeaveLast, LockHole, CopyLast,
                        Vacate, Settle
  <2> QED BY <2>3, <2>4, <2>5, Zenon
<1>2. ASSUME NEW c \in Copiers, CopierActs(c) PROVE StayInv'
  <2>1. TouchedBy(c) /\ UNCHANGED <<args, compact, epc>>
    BY <1>2, CopierTouches, Zenon DEF eraser, input
  <2>2. ToErase' = ToErase /\ ~compact
    BY <2>1, Zenon DEF ToErase
  <2>3. \A i \in Used \ ToErase : i \in Slot /\ vals[i] = Old(i) /\ revs[i] = 1
    BY <1>0, <2>2, Zenon DEF StayInv
  <2>4. \A i \in Used \ ToErase : vals'[i] = Old(i) /\ revs'[i] = 1
    <3>1. \A i \in Slot : revs[i] = 1 => revs'[i] = revs[i] /\ vals'[i] = vals[i]
      BY <1>2, CopierFills
    <3> QED BY <2>3, <3>1, Zenon
  <2> QED BY <2>1, <2>2, <2>4, Zenon DEF StayInv
<1>3. CASE UNCHANGED storage
  BY <1>3, Zenon DEF storage, slots, eraser, input, StayInv, ToErase
<1> QED BY SlotsCases, <1>1, <1>2, <1>3, Zenon DEF EraserActs, CopierActs

LEMMA GrowerTypeInit == SlotsInit => GrowerType
<1> SUFFICES ASSUME SlotsInit PROVE GrowerType
  BY Zenon
<1>1. gpc \in {"lock", "none"} /\ old_r = 1 /\ buf = Unread /\ grown = <<>>
  BY Zenon DEF SlotsInit
<1>2. Unread \in Entry
  BY Zenon DEF Unread, Entry, Values
<1> QED BY <1>1, <1>2 DEF GrowerType, Reads

LEMMA GrowerTypeStep == SlotsType /\ GrowerType /\ [SlotsNext]_slotsVars => GrowerType'
<1> SUFFICES ASSUME SlotsType, GrowerType, [SlotsNext]_slotsVars PROVE GrowerType'
  BY Zenon
<1>0. /\ buf \in Entry /\ grown \in Seq(Entry) /\ Len(grown) = old_r - 1 /\ old_r \in Nat \ {0}
      /\ gpc \in Reads => old_r \in Slot
  BY Zenon DEF GrowerType
<1>1. Unread \in Entry
  BY Zenon DEF Unread, Entry, Values
<1>2. CASE GrowLock
  <2>1. old_r \in Slot
    BY <1>0, <1>2, SlotsAssumption DEF GrowLock, Growable, Slot
  <2>2. buf' \in Entry
    BY <1>1, <1>2, <2>1, Zenon DEF GrowLock, Entry, SlotsType
  <2> QED BY <1>0, <1>2, <2>1, <2>2, Zenon DEF GrowLock, GrowerType, Reads
<1>3. CASE GrowCopyWord
  <2>1. buf' \in Entry
    BY <1>0, <1>3, Zenon DEF GrowCopyWord, Entry, SlotsType, Reads
  <2> QED BY <1>0, <1>3, <2>1, Zenon DEF GrowCopyWord, GrowerType, Reads
<1>4. CASE GrowCopyValue
  <2>1. buf' \in Entry
    BY <1>0, <1>4, Zenon DEF GrowCopyValue, Entry, SlotsType, Reads
  <2> QED BY <1>0, <1>4, <2>1, Zenon DEF GrowCopyValue, GrowerType, Reads
<1>5. CASE GrowCheck
  <2>1. gpc' = "lock" /\ buf' \in Entry
    BY <1>1, <1>5, Zenon DEF GrowCheck
  <2>2. CASE Unchanged
    <3>1. [buf EXCEPT !.was = 0] \in Entry
      BY <1>0, Zenon DEF Entry
    <3>2. grown' = Append(grown, [buf EXCEPT !.was = 0]) /\ old_r' = old_r + 1
      BY <1>5, <2>2, Zenon DEF GrowCheck
    <3>3. grown' \in Seq(Entry) /\ Len(grown') = old_r' - 1 /\ old_r' \in Nat \ {0}
      BY <1>0, <3>1, <3>2
    <3> QED BY <2>1, <3>3, Zenon DEF GrowerType, Reads
  <2>3. CASE ~Unchanged
    BY <1>0, <1>5, <2>1, <2>3, Zenon DEF GrowCheck, GrowerType, Reads
  <2> QED BY <2>2, <2>3, Zenon
<1>6. CASE GrowEnd \/ GrowerGivesUp
  BY <1>0, <1>6, Zenon DEF GrowEnd, GrowerGivesUp, GrowerType, Reads
<1>7. CASE GrowerAside \/ UNCHANGED slotsVars
  BY <1>7, Zenon DEF GrowerAside, slotsVars, grower, GrowerType
<1> QED BY GrowerCases, <1>2, <1>3, <1>4, <1>5, <1>6, <1>7, Zenon

GrowInv == SlotsType /\ HoldInv /\ WordInv /\ PairInv /\ StayInv /\ GrowerType

LEMMA GrowInvStep == GrowInv /\ [SlotsNext]_slotsVars => GrowInv'
BY SlotsTypeStep, HoldStep, WordStep, PairStep, StayStep, GrowerTypeStep, Zenon DEF GrowInv

LEMMA ReadStep == GrowInv /\ ReadInv /\ [SlotsNext]_slotsVars => ReadInv'
<1> SUFFICES ASSUME GrowInv, ReadInv, [SlotsNext]_slotsVars PROVE ReadInv'
  BY Zenon
<1> USE DEF Reads
<1>0. SlotsType /\ HoldInv /\ StayInv /\ buf \in Entry /\ (gpc \in Reads => old_r \in Slot)
  BY Zenon DEF GrowInv, GrowerType
<1>1. ASSUME GrowerAside, EraserActs \/ \E c \in Copiers : CopierActs(c) PROVE ReadInv'
  <2>1. UNCHANGED <<gpc, old_r, buf>> /\ UNCHANGED <<args, compact>>
    BY <1>0, <1>1, SomeoneTouches, Zenon DEF GrowerAside, grower
  <2>2. PICK p : p # Nobody /\ TouchedBy(p)
    BY <1>0, <1>1, SomeoneTouches, Zenon
  <2>3. ASSUME gpc' \in Reads, old_r' \notin restored', Unchanged'
        PROVE /\ gpc' \in {"value", "check"} => buf'.rev = buf'.was /\ ~buf'.locked
              /\ gpc' = "check" => buf'.val = vals'[old_r']
    <3>1. old_r \in Slot /\ gpc \in Reads /\ lock'[old_r] = Nobody /\ revs'[old_r] = buf.was
      BY <1>0, <2>1, <2>3, Zenon DEF Unchanged
    <3>2. lock[old_r] = Nobody /\ old_r \notin restored
      BY <1>1, <2>1, <2>3, <3>1, Zenon DEF GrowerAside
    <3>3. revs'[old_r] = revs[old_r] /\ vals'[old_r] = vals[old_r]
      BY <2>2, <3>1, <3>2, Zenon DEF TouchedBy
    <3>4. Unchanged
      BY <3>1, <3>2, <3>3, Zenon DEF Unchanged
    <3> QED BY <2>1, <3>1, <3>2, <3>3, <3>4, Zenon DEF ReadInv
  <2>4. gpc' = "check" /\ old_r' \in Used \ ToErase' /\ ~compact' => buf'.val = Old(old_r')
    BY <2>1, Zenon DEF ReadInv, ToErase
  <2> QED BY <2>3, <2>4, Zenon DEF ReadInv
<1>2. CASE GrowLock \/ GrowCheck \/ GrowEnd \/ GrowerGivesUp
  <2>1. gpc' \in {"word", "lock", "done", "failed"}
    BY <1>2, Zenon DEF GrowLock, GrowCheck, GrowEnd, GrowerGivesUp
  <2> QED BY <2>1, Zenon DEF ReadInv
<1>3. CASE GrowCopyWord
  <2>1. /\ buf'.rev = revs[old_r] /\ buf'.locked = (lock[old_r] # Nobody) /\ buf'.was = buf.was
    BY <1>0, <1>3, Zenon DEF GrowCopyWord, Entry
  <2>2. gpc' = "value" /\ old_r' = old_r /\ revs' = revs /\ lock' = lock
    BY <1>3, Zenon DEF GrowCopyWord, GrowerKeeps, slots
  <2> QED BY <2>1, <2>2, Zenon DEF ReadInv, Unchanged
<1>4. CASE GrowCopyValue
  <2>1. buf'.rev = buf.rev /\ buf'.locked = buf.locked /\ buf'.was = buf.was
          /\ buf'.val = vals[old_r]
    BY <1>0, <1>4, Zenon DEF GrowCopyValue, Entry
  <2>2. /\ gpc = "value" /\ gpc' = "check" /\ UNCHANGED <<old_r, restored, revs, lock, vals>>
        /\ UNCHANGED <<args, compact>>
    BY <1>4, Zenon DEF GrowCopyValue, GrowerKeeps, slots, eraser, input
  <2>3. old_r' \notin restored' /\ Unchanged' => buf'.rev = buf'.was /\ ~buf'.locked
    BY <2>1, <2>2, Zenon DEF ReadInv, Unchanged
  <2>4. old_r' \in Used \ ToErase' /\ ~compact' => buf'.val = Old(old_r')
    BY <1>0, <2>1, <2>2, Zenon DEF StayInv, ToErase
  <2> QED BY <2>1, <2>2, <2>3, <2>4, Zenon DEF ReadInv
<1>5. CASE UNCHANGED slotsVars
  BY <1>5, Zenon DEF slotsVars, slots, grower, eraser, input, ReadInv, Unchanged, ToErase
<1> QED BY GrowerCases, <1>1, <1>2, <1>3, <1>4, <1>5, Zenon

(* A hole keeps its revision while a record is moved into it. *)
LEMMA MovingKeeps ==
  ASSUME SlotsType, HoldInv, EraserActs \/ \E c \in Copiers : CopierActs(c),
         NEW i \in Slot, Moving(i)'
  PROVE revs'[i] = revs[i]
<1>1. CASE EraserActs
  <2>1. CopyLast \/ Vacate
    BY <1>1, Zenon DEF EraserActs, EraseLock, EraseClear, PrevUsed, PassUnused, NoneUsed, LeaveLast,
                LockHole, Settle, EraserGivesUp, NextTarget, Moving
  <2>2. i = Target /\ Target # last
    BY <2>1, Apart, Zenon DEF CopyLast, Vacate, Moving, Target, input
  <2> QED BY <2>1, <2>2, Zenon DEF CopyLast, Vacate, Clear, Release, SlotsType
<1>2. ASSUME NEW c \in Copiers, CopierActs(c) PROVE revs'[i] = revs[i]
  <2>1. TouchedBy(c) /\ epc' = epc /\ Target' = Target
    BY <1>2, CopierTouches, Zenon DEF eraser, input, Target
  <2>2. lock[i] = Eraser /\ c # Eraser
    BY <2>1, HeldSlots, Zenon DEF Moving
  <2> QED BY <2>1, <2>2, Zenon DEF TouchedBy
<1> QED BY <1>1, <1>2, Zenon

LEMMA SameStep == GrowInv /\ SameInv /\ [SlotsNext]_slotsVars => SameInv'
<1> SUFFICES ASSUME GrowInv, SameInv, [SlotsNext]_slotsVars PROVE SameInv'
  BY Zenon
<1> USE DEF Reads
<1>0. SlotsType /\ HoldInv /\ PairInv /\ PairInv' /\ buf \in Entry /\ (gpc \in Reads => old_r \in Slot)
  BY GrowInvStep, Zenon DEF GrowInv, GrowerType
<1>1. ASSUME GrowerAside, EraserActs \/ \E c \in Copiers : CopierActs(c) PROVE SameInv'
  <2> SUFFICES ASSUME gpc' \in Reads, old_r' \notin rewritten'
               PROVE /\ revs'[old_r'] \in RevisionOf(vals'[old_r'])
                     /\ gpc' \in {"value", "check"} => buf'.rev \in RevisionOf(vals'[old_r'])
                     /\ gpc' = "check" => buf'.val = vals'[old_r']
    BY Zenon DEF SameInv
  <2>1. UNCHANGED <<gpc, old_r, buf>> /\ gpc \in Reads /\ old_r \in Slot
    BY <1>0, <1>1, Zenon DEF GrowerAside, grower
  <2>2. old_r \notin rewritten /\ vals'[old_r] = vals[old_r]
    BY <1>1, <2>1, Zenon DEF GrowerAside
  <2>3. /\ revs[old_r] \in RevisionOf(vals[old_r])
        /\ gpc \in {"value", "check"} => buf.rev \in RevisionOf(vals[old_r])
        /\ gpc = "check" => buf.val = vals[old_r]
    BY <2>1, <2>2, Zenon DEF SameInv
  <2>4. revs'[old_r] \in RevisionOf(vals'[old_r])
    <3>1. CASE Moving(old_r)'
      BY <1>0, <1>1, <2>1, <2>2, <2>3, <3>1, MovingKeeps, Zenon
    <3>2. CASE ~Moving(old_r)'
      BY <1>0, <2>1, <3>2, Zenon DEF PairInv, Moving
    <3> QED BY <3>1, <3>2, Zenon
  <2> QED BY <2>1, <2>2, <2>3, <2>4, Zenon
<1>2. CASE GrowLock
  <2>1. gpc' = "word" /\ UNCHANGED <<old_r, revs, vals>> /\ lock[old_r] = Nobody
    BY <1>2, Zenon DEF GrowLock, GrowerKeeps, slots
  <2>2. old_r \in Slot
    BY <2>1, GrowInvStep, Zenon DEF GrowInv, GrowerType
  <2>3. ~Moving(old_r)
    BY <1>0, <2>1, HeldSlots, Zenon DEF Moving
  <2>4. revs[old_r] \in RevisionOf(vals[old_r])
    BY <1>0, <2>2, <2>3, Zenon DEF PairInv
  <2> QED BY <2>1, <2>4, Zenon DEF SameInv
<1>3. CASE GrowCopyWord
  <2>1. /\ gpc = "word" /\ gpc' = "value" /\ buf'.rev = revs[old_r]
        /\ UNCHANGED <<old_r, rewritten, revs, vals>>
    BY <1>0, <1>3, Zenon DEF GrowCopyWord, GrowerKeeps, slots, Entry
  <2> QED BY <2>1, Zenon DEF SameInv
<1>4. CASE GrowCopyValue
  <2>1. /\ gpc = "value" /\ gpc' = "check" /\ buf'.rev = buf.rev /\ buf'.val = vals[old_r]
        /\ UNCHANGED <<old_r, rewritten, revs, vals>>
    BY <1>0, <1>4, Zenon DEF GrowCopyValue, GrowerKeeps, slots, Entry
  <2> QED BY <2>1, Zenon DEF SameInv
<1>5. CASE GrowCheck \/ GrowEnd \/ GrowerGivesUp
  <2>1. gpc' \in {"lock", "done", "failed"}
    BY <1>5, Zenon DEF GrowCheck, GrowEnd, GrowerGivesUp
  <2> QED BY <2>1, Zenon DEF SameInv
<1>6. CASE UNCHANGED slotsVars
  BY <1>6, Zenon DEF slotsVars, slots, grower, SameInv
<1> QED BY GrowerCases, <1>1, <1>2, <1>3, <1>4, <1>5, <1>6, Zenon

LEMMA GrownStep == GrowInv /\ ReadInv /\ SameInv /\ GrownWhole /\ [SlotsNext]_slotsVars => GrownWhole'
<1> SUFFICES ASSUME GrowInv, ReadInv, SameInv, GrownWhole, [SlotsNext]_slotsVars PROVE GrownWhole'
  BY Zenon
<1>0. /\ SlotsType /\ HoldInv /\ PairInv /\ buf \in Entry /\ (gpc \in Reads => old_r \in Slot)
      /\ grown \in Seq(Entry) /\ Len(grown) = old_r - 1 /\ old_r \in Nat
  BY Zenon DEF GrowInv, GrowerType
<1>1. ASSUME GrowerAside, EraserActs \/ \E c \in Copiers : CopierActs(c) PROVE GrownWhole'
  <2>1. UNCHANGED grown /\ UNCHANGED <<args, compact>> /\ restored \subseteq restored'
          /\ rewritten \subseteq rewritten'
    BY <1>0, <1>1, SomeoneTouches, Zenon DEF GrowerAside, grower
  <2> QED BY <2>1, Zenon DEF GrownWhole, ToErase
<1>2. CASE GrowLock
  <2>1. UNCHANGED grown /\ UNCHANGED <<args, compact>> /\ restored' = restored \ {old_r}
        /\ rewritten' = rewritten \ {old_r}
    BY <1>2, Zenon DEF GrowLock, GrowerKeeps, eraser, input
  <2>2. \A i \in DOMAIN grown : i # old_r
    BY <1>0
  <2> QED BY <2>1, <2>2, Zenon DEF GrownWhole, ToErase
<1>3. CASE GrowCopyWord \/ GrowCopyValue \/ GrowEnd \/ GrowerGivesUp
  <2>1. UNCHANGED <<grown, restored, rewritten>> /\ UNCHANGED <<args, compact>>
    BY <1>3, Zenon DEF GrowCopyWord, GrowCopyValue, GrowEnd, GrowerGivesUp, GrowerKeeps, eraser, input
  <2> QED BY <2>1, Zenon DEF GrownWhole, ToErase
<1>4. CASE GrowCheck
  <2>1. gpc = "check" /\ UNCHANGED <<restored, rewritten>> /\ UNCHANGED <<args, compact>>
    BY <1>4, Zenon DEF GrowCheck, GrowerKeeps, eraser, input
  <2>2. CASE ~Unchanged
    BY <1>4, <2>1, <2>2, Zenon DEF GrowCheck, GrownWhole, ToErase
  <2>3. CASE Unchanged
    <3>1. grown' = Append(grown, [buf EXCEPT !.was = 0])
      BY <1>4, <2>3, Zenon DEF GrowCheck
    <3>2. /\ DOMAIN grown' = DOMAIN grown \cup {old_r}
          /\ \A i \in DOMAIN grown : grown'[i] = grown[i]
          /\ grown'[old_r] = [buf EXCEPT !.was = 0]
      BY <1>0, <3>1
    <3>3. /\ grown'[old_r].locked = buf.locked /\ grown'[old_r].rev = buf.rev
          /\ grown'[old_r].val = buf.val
      BY <1>0, <3>2, Zenon DEF Entry
    <3>4. ASSUME old_r \notin restored PROVE ~buf.locked /\ buf.rev \in RevisionOf(buf.val)
      <4>1. ~buf.locked /\ buf.rev = revs[old_r] /\ buf.val = vals[old_r]
        BY <2>1, <2>3, <3>4, Zenon DEF ReadInv, Unchanged, Reads
      <4>2. old_r \in Slot /\ lock[old_r] = Nobody
        BY <1>0, <2>1, <2>3, Zenon DEF Unchanged, Reads
      <4>3. ~Moving(old_r)
        BY <1>0, <4>2, HeldSlots, Zenon DEF Moving
      <4> QED BY <1>0, <4>1, <4>2, <4>3, Zenon DEF PairInv
    <3>5. old_r \in Used \ ToErase /\ ~compact => buf.val = Old(old_r)
      BY <2>1, Zenon DEF ReadInv
    <3>6. ToErase' = ToErase
      BY <2>1, Zenon DEF ToErase
    <3>7. old_r \notin rewritten => buf.rev \in RevisionOf(buf.val)
      BY <2>1, Zenon DEF SameInv, Reads
    <3>8. /\ buf.locked => old_r \in restored
          /\ buf.rev \notin RevisionOf(buf.val) => old_r \in restored \cap rewritten
      BY <3>4, <3>7, Zenon
    <3> QED BY <2>1, <3>2, <3>3, <3>5, <3>6, <3>8, Zenon DEF GrownWhole
  <2> QED BY <2>2, <2>3, Zenon
<1>5. CASE UNCHANGED slotsVars
  BY <1>5, Zenon DEF slotsVars, grower, eraser, input, GrownWhole, ToErase
<1> QED BY GrowerCases, <1>1, <1>2, <1>3, <1>4, <1>5, Zenon

(* What storage_grow copies while others change the storage: an unlocked   *)
(* value with its revision, except from a slot that was given back with    *)
(* the revision the grower waited for, as the searches give back every     *)
(* slot they pass; even then a value with its revision, unless the slot    *)
(* was also changed; and without compaction every record that is not       *)
(* erased.                                                                 *)
THEOREM GrownWholeTheorem == SlotsSpec => []GrownWhole
<1> DEFINE Inv == GrowInv /\ ReadInv /\ SameInv /\ GrownWhole
<1>1. SlotsInit => Inv
  <2> SUFFICES ASSUME SlotsInit PROVE Inv
    BY Zenon
  <2>1. GrowInv
    BY SlotsTypeInit, HoldInit, WordInit, PairInit, StayInit, GrowerTypeInit, Zenon DEF GrowInv
  <2>2. gpc \in {"lock", "none"} /\ grown = <<>>
    BY Zenon DEF SlotsInit
  <2> QED BY <2>1, <2>2 DEF ReadInv, SameInv, GrownWhole, Reads
<1>2. Inv /\ [SlotsNext]_slotsVars => Inv'
  BY GrowInvStep, ReadStep, SameStep, GrownStep, Zenon
<1> QED BY <1>1, <1>2, PTL DEF SlotsSpec

-----------------------------------------------------------------------------
(* Where a record that stays may be: in its slot, or in a hole that        *)
(* compaction has filled or is filling.                                    *)
Home(i, x) == x = i \/ \E j \in 1..Len(args) : x = args[j] /\ (j < k \/ Moving(x))

KeptInv ==
    GivenOnce => \A i \in Used \ ToErase :
        /\ epc \in Erases => vals[i] = Old(i)
        /\ \E x \in Slot : vals[x] = Old(i)
        /\ \A x \in Slot : vals[x] = Old(i) => Home(i, x)
        /\ \A x, y \in Slot : vals[x] = Old(i) /\ vals[y] = Old(i) =>
              x = y \/ (epc = "vacate" /\ {x, y} = {Target, last})

(* Without compaction what is still to be erased is untouched, and a       *)
(* copier has left behind at least as many slots as it has done jobs.      *)
InUse == {s \in Sources : SourceRevs[s] # 0}

CountInv ==
    ~compact /\ GivenOnce /\ GivenUsed =>
        /\ epc \in Erases => \A j \in k..Len(args) : vals[args[j]] = Old(args[j])
        /\ \A c \in Copiers : /\ cpc[c] = "find" => job[c] <= dest[c] + 1
                              /\ cpc[c] \in Copies => job[c] <= dest[c]
        /\ \A s \in InUse : /\ IsFiniteSet(Finished(s))
                            /\ Cardinality(CopiesOf(s)) = Cardinality(Finished(s))

(* A copier fills only slots that hold none of the old records. *)
LEMMA CopierSpares ==
  ASSUME SlotsType, HoldInv, WordInv, PairInv, NEW c \in Copiers, CopierActs(c)
  PROVE \A i, x \in Slot : vals'[x] = Old(i) <=> vals[x] = Old(i)
<1> TAKE i, x \in Slot
<1>1. CASE vals'[x] = vals[x]
  BY <1>1, Zenon
<1>2. CASE lock[x] = c /\ revs[x] = 0 /\ vals'[x] = Copied(Source(c))
  <2>1. ~Moving(x)
    BY <1>2, HeldSlots, Zenon DEF Moving
  <2>2. vals[x] # Old(i)
    <3>1. 0 \in RevisionOf(vals[x])
      BY <1>2, <2>1, Zenon DEF PairInv
    <3>2. RevisionOf(Old(i)) = {1}
      BY RevisionIs, Zenon
    <3> QED BY <3>1, <3>2
  <2> QED BY <1>2, <2>2, ValuesDiffer, Zenon
<1> QED BY <1>1, <1>2, CopierFills, Zenon

LEMMA KeptInit == SlotsInit => KeptInv
<1> SUFFICES ASSUME SlotsInit, NEW i \in Used \ ToErase
             PROVE /\ vals[i] = Old(i) /\ i \in Slot
                   /\ \A x \in Slot : vals[x] = Old(i) => x = i
  BY Zenon DEF KeptInv, Home
<1>1. i \in Slot /\ i \in Used
  BY SlotsAssumption, Zenon
<1>2. \A x \in Slot : vals[x] = Old(x) \/ vals[x] = Empty
  BY Zenon DEF SlotsInit
<1>3. vals[i] = Old(i)
  BY <1>1, Zenon DEF SlotsInit
<1> QED BY <1>1, <1>2, <1>3, ValuesDiffer, Zenon

LEMMA KeptStep ==
  SlotsType /\ HoldInv /\ WordInv /\ PairInv /\ KeptInv /\ [SlotsNext]_slotsVars => KeptInv'
<1> SUFFICES ASSUME SlotsType, HoldInv, WordInv, PairInv, KeptInv, [SlotsNext]_slotsVars
             PROVE KeptInv'
  BY Zenon
<1>0. N \in Nat /\ Used \subseteq Slot /\ Len(args) \in Nat /\ k \in Nat
  BY Sizes, Zenon
<1>1. ASSUME UNCHANGED args, GivenOnce, NEW i \in Used \ ToErase,
             \A x \in Slot : vals'[x] = Old(i) <=> vals[x] = Old(i),
             epc' \in Erases => epc \in Erases, epc # "vacate" \/ UNCHANGED <<epc, k, last>>,
             \A x \in Slot : Home(i, x) => Home(i, x)'
      PROVE /\ epc' \in Erases => vals'[i] = Old(i)
            /\ \E x \in Slot : vals'[x] = Old(i)
            /\ \A x \in Slot : vals'[x] = Old(i) => Home(i, x)'
            /\ \A x, y \in Slot : vals'[x] = Old(i) /\ vals'[y] = Old(i) =>
                  x = y \/ (epc' = "vacate" /\ {x, y} = {Target', last'})
  <2>1. /\ epc \in Erases => vals[i] = Old(i)
        /\ \E x \in Slot : vals[x] = Old(i)
        /\ \A x \in Slot : vals[x] = Old(i) => Home(i, x)
        /\ \A x, y \in Slot : vals[x] = Old(i) /\ vals[y] = Old(i) =>
              x = y \/ (epc = "vacate" /\ {x, y} = {Target, last})
    BY <1>1, Zenon DEF KeptInv
  <2>2. epc = "vacate" => Target' = Target
    BY <1>1, Zenon DEF Target
  <2> QED BY <1>0, <1>1, <2>1, <2>2, Zenon
<1>2. ASSUME EraserActs PROVE KeptInv'
  <2>0. UNCHANGED <<args, compact>>
    BY <1>2, EraserTouches, Zenon DEF input
  <2>1. ToErase' = ToErase /\ (GivenOnce' <=> GivenOnce)
    BY <2>0, Zenon DEF ToErase, GivenOnce
  <2> SUFFICES ASSUME GivenOnce, NEW i \in Used \ ToErase
               PROVE /\ epc' \in Erases => vals'[i] = Old(i)
                     /\ \E x \in Slot : vals'[x] = Old(i)
                     /\ \A x \in Slot : vals'[x] = Old(i) => Home(i, x)'
                     /\ \A x, y \in Slot : vals'[x] = Old(i) /\ vals'[y] = Old(i) =>
                           x = y \/ (epc' = "vacate" /\ {x, y} = {Target', last'})
    BY <2>1, Zenon DEF KeptInv
  <2>2. /\ epc \in Erases => vals[i] = Old(i)
        /\ \E x \in Slot : vals[x] = Old(i)
        /\ \A x \in Slot : vals[x] = Old(i) => Home(i, x)
        /\ \A x, y \in Slot : vals[x] = Old(i) /\ vals[y] = Old(i) =>
              x = y \/ (epc = "vacate" /\ {x, y} = {Target, last})
    BY Zenon DEF KeptInv
  <2>3. CASE EraseLock \/ PrevUsed \/ PassUnused \/ NoneUsed \/ LockHole \/ EraserGivesUp
    <3>1. UNCHANGED <<vals, k>> /\ epc \notin {"vacate", "settle"} /\ (epc' \in Erases => epc \in Erases)
      BY <2>3, Zenon DEF EraseLock, PrevUsed, PassUnused, NoneUsed, LockHole, EraserGivesUp, Erases, slots
    <3>2. \A x \in Slot : Home(i, x) => Home(i, x)'
      BY <2>0, <3>1, Zenon DEF Home, Moving
    <3> QED BY <1>1, <2>0, <3>1, <3>2, Zenon
  <2>4. CASE LeaveLast
    <3>1. UNCHANGED vals /\ k' = k + 1 /\ epc = "place" /\ epc' \in {"find", "done"}
      BY <2>4, Zenon DEF LeaveLast, NextTarget
    <3>2. \A j \in 1..Len(args) : j < k => j < k'
      BY <1>0, <3>1
    <3>3. \A x \in Slot : Home(i, x) => Home(i, x)'
      BY <2>0, <3>1, <3>2, Zenon DEF Home, Moving
    <3>4. epc' \notin Erases /\ epc # "vacate"
      BY <3>1, Zenon DEF Erases
    <3> QED BY <1>1, <2>0, <3>1, <3>3, <3>4, Zenon
  <2>5. CASE Settle
    <3>1. UNCHANGED vals /\ k' = k + 1 /\ epc = "settle" /\ epc' \in {"find", "done"}
      BY <2>5, Zenon DEF Settle, NextTarget
    <3>2. k \in 1..Len(args) /\ \A j \in 1..Len(args) : j < k \/ j = k => j < k'
      BY <1>0, <3>1, TargetIn
    <3>3. \A x \in Slot : Home(i, x) => Home(i, x)'
      BY <2>0, <3>1, <3>2, Zenon DEF Home, Moving, Target
    <3>4. epc' \notin Erases /\ epc # "vacate"
      BY <3>1, Zenon DEF Erases
    <3> QED BY <1>1, <2>0, <3>1, <3>3, <3>4, Zenon
  <2>6. CASE EraseClear
    <3>1. epc = "clear" /\ epc' # "vacate" /\ Target \in Slot /\ Target \in ToErase
      BY <2>6, TargetIn, Zenon DEF EraseClear, Target, ToErase
    <3>2. i \in Slot /\ vals[i] = Old(i) /\ \A x \in Slot : vals[x] = Old(i) => x = i
      BY <1>0, <2>2, <3>1, Zenon DEF Erases
    <3>3. vals'[Target] = Empty /\ \A x \in Slot : x # Target => vals'[x] = vals[x]
      BY <2>6, <3>1, Zenon DEF EraseClear, Clear, SlotsType
    <3>4. vals'[i] = Old(i) /\ \A x \in Slot : vals'[x] = Old(i) => x = i
      BY <3>1, <3>2, <3>3, ValuesDiffer, Zenon
    <3> QED BY <3>2, <3>4, Zenon DEF Home
  <2>7. CASE CopyLast
    <3>1. /\ epc = "move" /\ epc' = "vacate" /\ Target \in Slot /\ last \in Slot /\ Target # last
          /\ UNCHANGED <<k, last>> /\ Target' = Target /\ Target \in ToErase /\ k \in 1..Len(args)
      BY <2>0, <2>7, HeldSlots, TargetIn, Apart, Zenon DEF CopyLast, Moves, Target, ToErase
    <3>2. vals'[Target] = vals[last] /\ \A x \in Slot : x # Target => vals'[x] = vals[x]
      BY <2>7, <3>1, Zenon DEF CopyLast, SlotsType
    <3>3. vals[Target] # Old(i)
      <4>1. ~Home(i, Target)
        <5>1. \A j \in 1..Len(args) : Target = args[j] => j = k
          BY <3>1, Zenon DEF Target, GivenOnce
        <5>2. ~(k < k)
          BY <1>0
        <5> QED BY <3>1, <5>1, <5>2, Zenon DEF Home, Moving
      <4> QED BY <2>2, <3>1, <4>1, Zenon
    <3>4. \A x, y \in Slot : vals[x] = Old(i) /\ vals[y] = Old(i) => x = y
      BY <2>2, <3>1, Zenon
    <3>5. Home(i, Target)'
      BY <2>0, <3>1, Zenon DEF Home, Moving, Target
    <3>6. \A x \in Slot : Home(i, x) => Home(i, x)'
      BY <2>0, <3>1, Zenon DEF Home, Moving
    <3>7. \E x \in Slot : vals'[x] = Old(i)
      BY <2>2, <3>2, <3>3, Zenon
    <3>8. \A x \in Slot : vals'[x] = Old(i) => Home(i, x)'
      BY <2>2, <3>1, <3>2, <3>5, <3>6, Zenon
    <3>9. ASSUME NEW x \in Slot, NEW y \in Slot, vals'[x] = Old(i), vals'[y] = Old(i), x # y
          PROVE {x, y} = {Target, last}
      <4>1. x = Target \/ x = last \/ vals[x] = Old(i)
        BY <3>2, <3>9, Zenon
      <4>2. CASE x = Target
        <5>1. y # Target /\ vals[y] = Old(i) /\ vals[last] = Old(i)
          BY <3>2, <3>9, <4>2, Zenon
        <5>2. y = last
          BY <3>1, <3>4, <5>1, Zenon
        <5> QED BY <4>2, <5>2, Zenon
      <4>3. CASE x # Target
        <5>1. vals[x] = Old(i)
          BY <3>2, <3>9, <4>3, Zenon
        <5>2. y = Target
          BY <3>2, <3>4, <3>9, <5>1, Zenon
        <5>3. x = last
          BY <3>1, <3>2, <3>4, <3>9, <5>1, <5>2, Zenon
        <5> QED BY <5>2, <5>3, Zenon
      <4> QED BY <4>2, <4>3, Zenon
    <3>10. epc' \notin Erases
      BY <3>1, Zenon DEF Erases
    <3> QED BY <3>1, <3>7, <3>8, <3>9, <3>10, Zenon
  <2>8. CASE Vacate
    <3>1. /\ epc = "vacate" /\ epc' = "settle" /\ Target \in Slot /\ last \in Slot /\ Target # last
          /\ UNCHANGED <<k, last>> /\ Target' = Target
      BY <2>0, <2>8, HeldSlots, Apart, Zenon DEF Vacate, Moves, Target
    <3>2. vals'[last] = Empty /\ \A x \in Slot : x # last => vals'[x] = vals[x]
      BY <2>8, <3>1, Zenon DEF Vacate, Clear, SlotsType
    <3>3. vals[Target] = vals[last]
      BY <3>1, Zenon DEF PairInv
    <3>4. \A x \in Slot : Home(i, x) => Home(i, x)'
      BY <2>0, <3>1, Zenon DEF Home, Moving
    <3>5. \E x \in Slot : vals'[x] = Old(i)
      BY <2>2, <3>1, <3>2, <3>3, Zenon
    <3>6. \A x \in Slot : vals'[x] = Old(i) => x # last /\ vals[x] = Old(i)
      BY <3>2, ValuesDiffer, Zenon
    <3>7. \A x \in Slot : vals'[x] = Old(i) => Home(i, x)'
      BY <2>2, <3>4, <3>6, Zenon
    <3>8. \A x, y \in Slot : vals'[x] = Old(i) /\ vals'[y] = Old(i) => x = y
      BY <2>2, <3>6
    <3>9. epc' \notin Erases
      BY <3>1, Zenon DEF Erases
    <3> QED BY <3>5, <3>7, <3>8, <3>9, Zenon
  <2> QED BY <1>2, <2>3, <2>4, <2>5, <2>6, <2>7, <2>8, Zenon DEF EraserActs
<1>3. ASSUME NEW c \in Copiers, CopierActs(c) PROVE KeptInv'
  <2>1. UNCHANGED <<args, k, epc, last>>
    BY <1>3, CopierTouches, Zenon DEF eraser, input
  <2>2. ToErase' = ToErase /\ (GivenOnce' <=> GivenOnce) /\ \A i, x : Home(i, x) => Home(i, x)'
    BY <2>1, Zenon DEF ToErase, GivenOnce, Home, Moving, Target
  <2>3. \A i, x \in Slot : vals'[x] = Old(i) <=> vals[x] = Old(i)
    BY <1>3, CopierSpares, Zenon
  <2> QED BY <1>0, <1>1, <2>1, <2>2, <2>3, Zenon DEF KeptInv
<1>4. CASE UNCHANGED storage
  <2>1. UNCHANGED <<args, k, epc, last, vals>>
    BY <1>4, Zenon DEF storage, slots, eraser, input
  <2>2. ToErase' = ToErase /\ (GivenOnce' <=> GivenOnce) /\ \A i, x : Home(i, x) => Home(i, x)'
    BY <2>1, Zenon DEF ToErase, GivenOnce, Home, Moving, Target
  <2> QED BY <1>0, <1>1, <2>1, <2>2, Zenon DEF KeptInv
<1> QED BY SlotsCases, <1>2, <1>3, <1>4, Zenon DEF EraserActs, CopierActs

-----------------------------------------------------------------------------
LEMMA CountInit == SlotsInit => CountInv
<1> SUFFICES ASSUME SlotsInit, GivenUsed PROVE
        /\ \A j \in k..Len(args) : vals[args[j]] = Old(args[j])
        /\ \A c \in Copiers : job[c] <= dest[c] + 1 /\ cpc[c] \notin Copies
        /\ \A s \in InUse : Finished(s) = {} /\ CopiesOf(s) = {}
  BY FS_EmptySet, Zenon DEF CountInv
<1>1. k = 1 /\ Used \subseteq Slot
  BY SlotsAssumption, Zenon DEF SlotsInit
<1>2. \A j \in k..Len(args) : vals[args[j]] = Old(args[j])
  BY <1>1, Zenon DEF SlotsInit, GivenUsed, ToErase
<1>3. \A c \in Copiers : job[c] = 1 /\ dest[c] = 0 /\ cpc[c] \in {"done", "find"}
  BY Zenon DEF SlotsInit
<1>4. \A c \in Copiers : job[c] <= dest[c] + 1 /\ cpc[c] \notin Copies
  BY <1>3 DEF Copies
<1>5. ASSUME NEW s \in InUse PROVE Finished(s) = {}
  BY <1>3 DEF Finished, CopyDone
<1>6. ASSUME NEW s \in InUse PROVE CopiesOf(s) = {}
  <2>1. \A i \in Slot : vals[i] = Old(i) \/ vals[i] = Empty
    BY Zenon DEF SlotsInit
  <2>2. \A i \in Slot : vals[i] # Copied(s)
    BY <2>1, ValuesDiffer, Zenon
  <2> QED BY <2>2, Zenon DEF CopiesOf
<1> QED BY <1>2, <1>4, <1>5, <1>6, Zenon

(* A finished copy is one more slot and one more job. *)
LEMMA CopyCounted ==
  ASSUME SlotsType, WordInv, NEW c \in Copiers, CopyRecord(c), NEW s \in InUse,
         job[c] <= dest[c], IsFiniteSet(Finished(s)),
         Cardinality(CopiesOf(s)) = Cardinality(Finished(s))
  PROVE IsFiniteSet(Finished(s)') /\ Cardinality(CopiesOf(s)') = Cardinality(Finished(s)')
<1>1. /\ cpc[c] = "copy" /\ cpc' = [cpc EXCEPT ![c] = "release"] /\ UNCHANGED <<job, dest, work>>
      /\ vals' = [vals EXCEPT ![dest[c]] = Copied(Source(c))]
      /\ revs' = [revs EXCEPT ![dest[c]] = SourceRevs[Source(c)]]
  BY Zenon DEF CopyRecord, Goto, Release, eraser, input
<1>2. /\ N \in Nat /\ dest[c] \in Slot /\ job[c] \in Slot
      /\ job[c] \in 1..Len(work[c])
  <2>1. /\ dest[c] \in 0..N /\ dest[c] # 0 /\ job[c] \in Nat \ {0}
        /\ job[c] <= Len(work[c]) /\ work[c] \in Seq(Sources)
    BY <1>1, Zenon DEF SlotsType, Copies
  <2>2. N \in Nat
    BY SlotsAssumption, Zenon
  <2>3. dest[c] \in Slot /\ job[c] \in Slot /\ job[c] \in 1..Len(work[c])
    BY <2>1, <2>2 DEF Slot
  <2> QED BY <2>2, <2>3, Zenon
<1>3. revs[dest[c]] = 0
  BY <1>1, Zenon DEF WordInv
<1>4. /\ vals'[dest[c]] = Copied(Source(c)) /\ revs'[dest[c]] = SourceRevs[Source(c)]
      /\ \A i \in Slot : i # dest[c] => vals'[i] = vals[i] /\ revs'[i] = revs[i]
  BY <1>1, <1>2, Zenon DEF SlotsType
<1>5. cpc'[c] = "release" /\ \A d \in Copiers : d # c => cpc'[d] = cpc[d]
  BY <1>1, Zenon DEF SlotsType
<1>6. IsFiniteSet(CopiesOf(s))
  <2>0. 1 \in Int /\ N \in Int
    BY <1>2
  <2>1. IsFiniteSet(Slot)
    BY <2>0, FS_Interval, Zenon DEF Slot
  <2>2. CopiesOf(s) \subseteq Slot
    BY Zenon DEF CopiesOf
  <2> QED BY <2>1, <2>2, FS_Subset, Zenon
<1>7. dest[c] \notin CopiesOf(s) /\ <<c, job[c]>> \notin Finished(s)
  <2>1. ~CopyDone(c, job[c])
    <3>1. job[c] \in Int /\ cpc[c] # "release"
      BY <1>1, <1>2
    <3>2. ~(job[c] < job[c])
      BY <3>1
    <3> QED BY <3>1, <3>2, Zenon DEF CopyDone
  <2> QED BY <1>3, <2>1, Zenon DEF CopiesOf, Finished
<1>8. \A d \in Copiers, j \in Slot :
         CopyDone(d, j)' <=> CopyDone(d, j) \/ (d = c /\ j = job[c])
  <2> TAKE d \in Copiers, j \in Slot
  <2>1. CASE d # c
    BY <1>1, <1>5, <2>1, Zenon DEF CopyDone
  <2>2. CASE d = c
    BY <1>1, <1>2, <1>5, <2>2, Zenon DEF CopyDone
  <2> QED BY <2>1, <2>2, Zenon
<1>9. CASE s = Source(c)
  <2>1. CopiesOf(s)' = CopiesOf(s) \cup {dest[c]}
    BY <1>2, <1>4, <1>9, Zenon DEF CopiesOf, InUse
  <2>2. Finished(s)' = Finished(s) \cup {<<c, job[c]>>}
    <3>1. \A f \in Copiers \X Slot : f = <<f[1], f[2]>> /\ f[1] \in Copiers /\ f[2] \in Slot
      OBVIOUS
    <3>2. \A f \in Copiers \X Slot :
             f \in Finished(s)' <=> CopyDone(f[1], f[2])' /\ work[f[1]][f[2]] = s
      BY <1>1, Zenon DEF Finished
    <3>3. \A f \in Copiers \X Slot :
             f \in Finished(s) <=> CopyDone(f[1], f[2]) /\ work[f[1]][f[2]] = s
      BY Zenon DEF Finished
    <3>4. \A f \in Copiers \X Slot : f[1] = c /\ f[2] = job[c] <=> f = <<c, job[c]>>
      BY <3>1
    <3>5. work[c][job[c]] = s /\ <<c, job[c]>> \in Copiers \X Slot
      BY <1>2, <1>9, Zenon DEF Source
    <3>6. \A f \in Copiers \X Slot : f \in Finished(s)' <=> f \in Finished(s) \/ f = <<c, job[c]>>
      BY <1>8, <3>1, <3>2, <3>3, <3>4, <3>5, Zenon
    <3>7. Finished(s) \subseteq Copiers \X Slot /\ Finished(s)' \subseteq Copiers \X Slot
      BY Zenon DEF Finished
    <3> QED BY <3>5, <3>6, <3>7, Zenon
  <2>3. /\ IsFiniteSet(Finished(s)')
        /\ Cardinality(CopiesOf(s)') = Cardinality(CopiesOf(s)) + 1
        /\ Cardinality(Finished(s)') = Cardinality(Finished(s)) + 1
    BY <1>6, <1>7, <2>1, <2>2, FS_AddElement, Zenon
  <2> QED BY <2>3, Zenon
<1>10. CASE s # Source(c)
  <2>1. Copied(s) # Copied(Source(c))
    BY <1>10, Zenon DEF Copied
  <2>2. CopiesOf(s)' = CopiesOf(s)
    BY <1>3, <1>4, <2>1, Zenon DEF CopiesOf
  <2>3. Finished(s)' = Finished(s)
    <3>1. \A f \in Copiers \X Slot : f[1] \in Copiers /\ f[2] \in Slot
      BY Zenon
    <3>2. work[c][job[c]] # s
      BY <1>10, Zenon DEF Source
    <3>3. \A f \in Copiers \X Slot : CopyDone(f[1], f[2])' /\ work'[f[1]][f[2]] = s
                                 <=> CopyDone(f[1], f[2]) /\ work[f[1]][f[2]] = s
      BY <1>1, <1>8, <3>1, <3>2, Zenon
    <3> QED BY <3>3, Zenon DEF Finished
  <2> QED BY <2>2, <2>3, Zenon
<1> QED BY <1>9, <1>10, Zenon

LEMMA CountStep ==
  SlotsType /\ HoldInv /\ WordInv /\ PairInv /\ StayInv /\ CountInv /\ [SlotsNext]_slotsVars
    => CountInv'
<1> SUFFICES ASSUME SlotsType, HoldInv, WordInv, PairInv, StayInv, CountInv, [SlotsNext]_slotsVars,
                    ~compact', GivenOnce', GivenUsed'
             PROVE CountInv'
  BY Zenon DEF CountInv
<1>0. UNCHANGED <<args, compact, work>>
  BY SlotsCases, EraserTouches, CopierTouches, Zenon DEF EraserActs, CopierActs, storage, eraser, input
<1>1. ~compact /\ GivenOnce /\ GivenUsed
  <2>1. args' = args /\ compact' = compact
    BY <1>0, Zenon
  <2>2. GivenOnce
    BY <2>1, Zenon DEF GivenOnce
  <2>3. GivenUsed
    BY <2>1, Zenon DEF GivenUsed, ToErase
  <2> QED BY <2>1, <2>2, <2>3, Zenon
<1>2. /\ epc \in Erases => \A j \in k..Len(args) : vals[args[j]] = Old(args[j])
      /\ \A c \in Copiers : /\ cpc[c] = "find" => job[c] <= dest[c] + 1
                            /\ cpc[c] \in Copies => job[c] <= dest[c]
      /\ \A s \in InUse : /\ IsFiniteSet(Finished(s))
                          /\ Cardinality(CopiesOf(s)) = Cardinality(Finished(s))
  BY <1>1, Zenon DEF CountInv
<1>3. N \in Nat /\ Len(args) \in Nat /\ k \in Nat /\ (\A j \in k..Len(args) : args[j] \in Slot)
  BY Sizes, Zenon
<1>4. epc \in Erases \cup {"done", "failed"}
  BY <1>1, Zenon DEF StayInv
<1>5. ASSUME UNCHANGED <<vals, revs, job, dest, cpc, k>>, epc' \in Erases => epc \in Erases
      PROVE CountInv'
  <2>1. \A s \in InUse : CopiesOf(s)' = CopiesOf(s) /\ Finished(s)' = Finished(s)
    BY <1>0, <1>5, Zenon DEF CopiesOf, Finished, CopyDone
  <2> QED BY <1>0, <1>2, <1>5, <2>1, Zenon DEF CountInv
<1>6. CASE EraserActs
  <2>1. UNCHANGED copier
    BY <1>6, EraserTouches, Zenon
  <2>2. CASE EraseClear
    <3>1. epc = "clear" /\ k \in 1..Len(args) /\ Target \in Slot
      BY <2>2, TargetIn, Zenon DEF EraseClear
    <3>2. vals[Target] = Old(Target)
      <4>1. k \in k..Len(args)
        BY <1>3, <3>1
      <4> QED BY <1>2, <3>1, <4>1, Zenon DEF Erases, Target
    <3>3. /\ vals'[Target] = Empty
          /\ \A i \in Slot : i # Target => vals'[i] = vals[i] /\ revs'[i] = revs[i]
      BY <2>2, <3>1, Zenon DEF EraseClear, Clear, Release, SlotsType
    <3>4. \A s \in InUse : CopiesOf(s)' = CopiesOf(s)
      <4> TAKE s \in InUse
      <4>1. vals[Target] # Copied(s) /\ vals'[Target] # Copied(s)
        BY <3>1, <3>2, <3>3, ValuesDiffer, Zenon
      <4> QED BY <3>3, <4>1, Zenon DEF CopiesOf
    <3>5. \A s \in InUse : Finished(s)' = Finished(s)
      BY <1>0, <2>1, Zenon DEF Finished, CopyDone, copier
    <3>6. ASSUME epc' \in Erases, NEW j \in k'..Len(args) PROVE vals'[args[j]] = Old(args[j])
      <4>1. k' = k + 1
        BY <1>1, <2>2, <3>6, Zenon DEF EraseClear, Erases
      <4>2. j \in k..Len(args) /\ j \in 1..Len(args) /\ j # k
        BY <1>3, <3>1, <3>6, <4>1
      <4>3. args[j] # Target /\ args[j] \in Slot
        BY <1>1, <1>3, <3>1, <4>2, Zenon DEF GivenOnce, Target
      <4> QED BY <1>2, <3>1, <3>3, <4>2, <4>3, Zenon DEF Erases
    <3>7. UNCHANGED <<cpc, job, dest>>
      BY <2>1, Zenon DEF copier
    <3> QED BY <1>0, <1>2, <3>4, <3>5, <3>6, <3>7, Zenon DEF CountInv
  <2>3. CASE EraseLock \/ EraserGivesUp
    <3>1. epc \in {"erase", "done", "failed"} \/ epc = "clear"
      BY <1>4, Zenon DEF Erases
    <3>2. UNCHANGED <<vals, revs, k>> /\ (epc' \in Erases => epc \in Erases)
      BY <2>3, <3>1, Zenon DEF EraseLock, EraserGivesUp, Erases
    <3> QED BY <1>5, <2>1, <3>2, Zenon DEF copier
  <2>4. /\ ~PrevUsed /\ ~PassUnused /\ ~NoneUsed /\ ~LeaveLast /\ ~LockHole
        /\ ~CopyLast /\ ~Vacate /\ ~Settle
    BY <1>4, Zenon DEF PrevUsed, PassUnused, NoneUsed, LeaveLast, LockHole, CopyLast, Vacate, Settle, Erases
  <2> QED BY <1>6, <2>2, <2>3, <2>4, Zenon DEF EraserActs
<1>7. ASSUME NEW c \in Copiers, CopierActs(c) PROVE CountInv'
  <2>1. UNCHANGED <<epc, k>>
    BY <1>7, CopierTouches, Zenon DEF eraser
  <2>2. epc' \in Erases => \A j \in k'..Len(args') : vals'[args'[j]] = Old(args'[j])
    BY <1>0, <1>2, <1>3, <1>7, <2>1, CopierSpares, Zenon
  <2>3. \A d \in Copiers : d # c => cpc'[d] = cpc[d] /\ job'[d] = job[d] /\ dest'[d] = dest[d]
    BY <1>7, Zenon DEF CopierActs, NextUnused, PassUsed, Full, LockSource, CopyRecord, ReleaseSource, CopierGivesUp,
                Goto, SlotsType
  <2>4. /\ cpc'[c] = "find" => job'[c] <= dest'[c] + 1
        /\ cpc'[c] \in Copies => job'[c] <= dest'[c]
    <3>1. job[c] \in Nat /\ dest[c] \in Nat
      BY <1>3 DEF SlotsType
    <3>2. \/ /\ cpc[c] = "find" /\ cpc'[c] \in {"pass", "source"}
             /\ job'[c] = job[c] /\ dest'[c] = dest[c] + 1
          \/ /\ cpc[c] \in Copies /\ cpc'[c] \in Copies
             /\ job'[c] = job[c] /\ dest'[c] = dest[c]
          \/ cpc[c] \in Copies /\ cpc'[c] = "find" /\ job'[c] = job[c] + 1 /\ dest'[c] = dest[c]
          \/ cpc[c] \in Copies /\ cpc'[c] = "find" /\ job'[c] = job[c] /\ dest'[c] = dest[c]
          \/ cpc'[c] \in {"done", "failed"}
      <4>1. cpc \in [Copiers -> Copies \cup {"find", "done", "failed"}]
            /\ DOMAIN job = Copiers /\ DOMAIN dest = Copiers
        BY <1>3, Zenon DEF SlotsType
      <4>2. CASE NextUnused(c)
        BY <4>1, <4>2, Zenon DEF NextUnused, Goto
      <4>a. CASE PassUsed(c)
        BY <4>1, <4>a, Zenon DEF PassUsed, Goto, Copies
      <4>3. CASE Full(c) \/ CopierGivesUp(c)
        BY <4>1, <4>3, Zenon DEF Full, CopierGivesUp, Goto
      <4>4. CASE LockSource(c) \/ CopyRecord(c)
        BY <4>1, <4>4, Zenon DEF LockSource, CopyRecord, Goto, Copies
      <4>5. CASE ReleaseSource(c)
        BY <4>1, <4>5, Zenon DEF ReleaseSource, Goto, Copies
      <4> QED BY <1>7, <4>2, <4>a, <4>3, <4>4, <4>5, Zenon DEF CopierActs
    <3>3. /\ cpc[c] = "find" => job[c] <= dest[c] + 1
          /\ cpc[c] \in Copies => job[c] <= dest[c]
      BY <1>2, Zenon
    <3> QED BY <3>1, <3>2, <3>3 DEF Copies
  <2>5. ASSUME NEW s \in InUse
        PROVE IsFiniteSet(Finished(s)') /\ Cardinality(CopiesOf(s)') = Cardinality(Finished(s)')
    <3>1. CASE CopyRecord(c)
      <4>1. job[c] <= dest[c]
        BY <1>2, <3>1, Zenon DEF CopyRecord, Copies
      <4> QED BY <1>2, <3>1, <4>1, CopyCounted, Zenon
    <3>2. CASE ~CopyRecord(c)
      <4>1. UNCHANGED vals /\ \A i \in Slot : revs'[i] = revs[i]
        BY <1>7, <3>2, Zenon DEF CopierActs, NextUnused, PassUsed, Full, LockSource, ReleaseSource, CopierGivesUp,
                          Release, slots, SlotsType
      <4>2. \A j \in Slot : CopyDone(c, j)' <=> CopyDone(c, j)
        <5>1. job[c] \in Nat /\ N \in Nat
          BY <1>3, Zenon DEF SlotsType
        <5>2. \/ job'[c] = job[c] /\ cpc[c] # "release" /\ cpc'[c] # "release"
              \/ job'[c] = job[c] + 1 /\ cpc[c] = "release" /\ cpc'[c] # "release"
          BY <1>7, <3>2, Zenon DEF CopierActs, NextUnused, PassUsed, Full, LockSource, ReleaseSource, CopierGivesUp,
                          Goto, SlotsType
        <5> TAKE j \in Slot
        <5>3. j \in Int
          BY Sizes, Zenon
        <5>4. (j < job'[c] \/ (j = job'[c] /\ cpc'[c] = "release"))
                <=> (j < job[c] \/ (j = job[c] /\ cpc[c] = "release"))
          BY <5>1, <5>2, <5>3
        <5> QED BY <1>0, <5>4, Zenon DEF CopyDone
      <4>3. \A d \in Copiers, j \in Slot : CopyDone(d, j)' <=> CopyDone(d, j)
        <5> TAKE d \in Copiers, j \in Slot
        <5>1. CASE d # c
          BY <1>0, <2>3, <5>1, Zenon DEF CopyDone
        <5> QED BY <4>2, <5>1, Zenon
      <4>4. Finished(s)' = Finished(s)
        <5>1. \A f \in Copiers \X Slot : f[1] \in Copiers /\ f[2] \in Slot
          BY Zenon
        <5>2. \A f \in Copiers \X Slot : CopyDone(f[1], f[2])' /\ work'[f[1]][f[2]] = s
                                 <=> CopyDone(f[1], f[2]) /\ work[f[1]][f[2]] = s
          BY <1>0, <4>3, <5>1, Zenon
        <5> QED BY <5>2, Zenon DEF Finished
      <4>5. CopiesOf(s)' = CopiesOf(s)
        BY <4>1, Zenon DEF CopiesOf
      <4> QED BY <1>2, <4>4, <4>5, Zenon
    <3> QED BY <3>1, <3>2, Zenon
  <2>6. \A d \in Copiers : /\ cpc'[d] = "find" => job'[d] <= dest'[d] + 1
                           /\ cpc'[d] \in Copies => job'[d] <= dest'[d]
    BY <1>2, <2>3, <2>4, Zenon
  <2> QED BY <2>2, <2>5, <2>6, Zenon DEF CountInv
<1>8. CASE UNCHANGED storage
  BY <1>5, <1>8, Zenon DEF storage, slots, eraser, copier
<1> QED BY SlotsCases, <1>6, <1>7, <1>8, Zenon DEF EraserActs, CopierActs

(* Nothing that the eraser was not told to erase is lost or doubled        *)
(* (eraser.c's order of copying before clearing), and copiers that fill    *)
(* one storage at the same time never put two records in one slot          *)
(* (copier.c's search under the slot's lock), whatever the lists are in    *)
(* which no identifier is given twice.                                     *)
THEOREM RecordsKeptTheorem == SlotsSpec => []RecordsKept
<1> DEFINE Inv == SlotsType /\ HoldInv /\ WordInv /\ PairInv /\ StayInv /\ KeptInv /\ CountInv
<1>1. SlotsInit => Inv
  BY SlotsTypeInit, HoldInit, WordInit, PairInit, StayInit, KeptInit, CountInit, Zenon
<1>2. Inv /\ [SlotsNext]_slotsVars => Inv'
  BY SlotsTypeStep, HoldStep, WordStep, PairStep, StayStep, KeptStep, CountStep, Zenon
<1>3. Inv => RecordsKept
  <2> SUFFICES ASSUME Inv, GivenOnce PROVE RecordsKept
    BY Zenon DEF RecordsKept
  <2>1. ASSUME NEW i \in Used \ ToErase
        PROVE /\ Holding(Old(i)) # {}
              /\ \A x, y \in Holding(Old(i)) : Readable(x) /\ Readable(y) => x = y
    <3>1. /\ \E x \in Slot : vals[x] = Old(i)
          /\ \A x, y \in Slot : vals[x] = Old(i) /\ vals[y] = Old(i) =>
                x = y \/ (epc = "vacate" /\ {x, y} = {Target, last})
      BY <2>1, Zenon DEF KeptInv
    <3>2. epc = "vacate" => Target \in Slot /\ lock[Target] = Eraser
      BY HeldSlots, TargetIn, Zenon
    <3>3. Nobody # Eraser
      BY SlotsAssumption, Zenon
    <3>4. \A x, y \in Slot : epc = "vacate" /\ {x, y} = {Target, last} => x = Target \/ y = Target
      BY Zenon
    <3>5. \A x, y \in Slot : vals[x] = Old(i) /\ vals[y] = Old(i) /\ Readable(x) /\ Readable(y) => x = y
      BY <3>1, <3>2, <3>3, <3>4, Zenon DEF Readable
    <3> QED BY <3>1, <3>5, Zenon DEF Holding
  <2>2. ~compact /\ GivenUsed =>
           \A s \in Sources : SourceRevs[s] # 0 =>
               Cardinality(CopiesOf(s)) = Cardinality(Finished(s))
    BY Zenon DEF CountInv, InUse
  <2> QED BY <2>1, <2>2, Zenon DEF RecordsKept
<1> QED BY <1>1, <1>2, <1>3, PTL DEF SlotsSpec

-----------------------------------------------------------------------------
(* A compaction of what HolesEliminatedInOrder speaks of. *)
InOrder ==
    /\ compact /\ \A c \in Copiers : work[c] = <<>>
    /\ \A i, j \in Slot : i < j /\ j \in Used => i \in Used
    /\ \A x, y \in 1..Len(args) : x < y => args[x] < args[y]

ToFill == {args[j] : j \in k..Len(args)}

(* While it erases, exactly the slots erased so far are unused.  While it  *)
(* compacts, the holes are the slots to fill that come before last_rec,    *)
(* and nothing is used after it; or no hole comes before it any more.      *)
Cleared ==
    last = N + 1 /\ \A i \in Slot : revs[i] # 0 <=> i \in Used /\ \A j \in 1..(k - 1) : i # args[j]
HolesAhead ==
    /\ \A i \in Slot : i < last => (revs[i] # 0 <=> i \in Used /\ i \notin ToFill)
    /\ \A i \in Slot : i > last \/ (i = last /\ epc \in {"find", "pass", "settle"}) => revs[i] = 0
    /\ epc \in Moves => last \in Used
HolesBehind == NoHole /\ epc \in {"find", "pass", "place"} /\ \A i \in ToFill : i >= last

HoleInv ==
    InOrder =>
        /\ \A c \in Copiers : cpc[c] = "done"
        /\ epc \in Erases => Cleared
        /\ epc \in Moves \cup {"find", "pass"} => HolesAhead \/ HolesBehind
        /\ epc = "done" => NoHole

LEMMA HoleInit == SlotsInit => HoleInv
<1> SUFFICES ASSUME SlotsInit, InOrder PROVE HoleInv
  BY Zenon DEF HoleInv
<1>1. \A c \in Copiers : cpc[c] = "done"
  BY Zenon DEF SlotsInit, InOrder
<1>2. Cleared
  BY DEF SlotsInit, Cleared
<1>3. epc = "erase"
  BY Zenon DEF SlotsInit
<1> QED BY <1>1, <1>2, <1>3, Zenon DEF HoleInv, Moves

(* The last hole to fill is not before last_rec: none is left. *)
LEMMA NoneAhead ==
  ASSUME SlotsType, InOrder, HolesAhead, epc = "place", Behind
  PROVE NoHole /\ \A i \in ToFill : i >= last
<1>0. N \in Nat /\ last \in Slot /\ Slot \subseteq Int /\ k \in 1..Len(args) /\ Target \in Slot
  BY Sizes, TargetIn, Zenon DEF Moves
<1>1. ASSUME NEW j \in k..Len(args) PROVE args[j] >= last
  <2>1. j \in 1..Len(args) /\ (j = k \/ k < j) /\ args[j] \in Slot
    BY <1>0 DEF SlotsType
  <2>2. j = k \/ Target < args[j]
    BY <1>0, <2>1, Zenon DEF InOrder, Target
  <2>3. Target >= last
    BY Zenon DEF Behind
  <2>4. j = k => args[j] = Target
    BY Zenon DEF Target
  <2>5. Target \in Int /\ last \in Int /\ args[j] \in Int
    BY <1>0, <2>1, Zenon
  <2>6. j # k => args[j] >= last
    BY <2>2, <2>3, <2>5
  <2> QED BY <2>3, <2>4, <2>6, Zenon
<1>2. \A i \in ToFill : i >= last
  BY <1>1, Zenon DEF ToFill
<1>3. ASSUME NEW i \in Slot, NEW j \in Slot, i < j, revs[j] # 0 PROVE revs[i] # 0
  <2>1. i < last
    <3>1. ~(j > last)
      BY <1>3, Zenon DEF HolesAhead
    <3> QED BY <1>0, <1>3, <3>1
  <2>2. i \in Used
    <3>1. last \in Used
      BY Zenon DEF HolesAhead, Moves
    <3> QED BY <1>0, <2>1, <3>1, Zenon DEF InOrder
  <2>3. i \notin ToFill
    <3>1. ~(i >= last)
      BY <1>0, <2>1
    <3> QED BY <1>2, <3>1, Zenon
  <2> QED BY <2>1, <2>2, <2>3, Zenon DEF HolesAhead
<1> QED BY <1>2, <1>3, Zenon DEF NoHole

(* One slot of the search backwards keeps what was ahead ahead, and what   *)
(* was behind behind.                                                      *)
LEMMA SearchKeeps ==
  ASSUME SlotsType, PrevUsed, HolesAhead \/ HolesBehind
  PROVE HolesAhead' \/ HolesBehind'
<1>0. /\ N \in Nat /\ last \in 1..(N + 1) /\ Slot = 1..N
      /\ UNCHANGED <<revs, args, k>> /\ epc = "find"
  BY SlotsAssumption, Zenon DEF SlotsType, PrevUsed, Slot, input
<1>1. ToFill' = ToFill /\ (NoHole' <=> NoHole) /\ \A i \in ToFill : i \in Slot
  <2>1. \A j \in k..Len(args) : args[j] \in Slot
    BY Sizes, Zenon
  <2> QED BY <1>0, <2>1, Zenon DEF ToFill, NoHole
<1>2. last' \in Slot /\ last' = last - 1 /\ last' < last
  BY <1>0 DEF PrevUsed, FindPrevUsed
<1>3. \/ epc' = "place" /\ revs[last'] # 0
      \/ epc' = "pass" /\ revs[last'] = 0
  BY Zenon DEF PrevUsed
<1>4. CASE HolesAhead
  <2>1. \A i \in Slot : i < last => (revs[i] # 0 <=> i \in Used /\ i \notin ToFill)
    BY <1>4, Zenon DEF HolesAhead
  <2>2. \A i \in Slot : i > last \/ i = last => revs[i] = 0
    BY <1>0, <1>4, Zenon DEF HolesAhead
  <2>3. \A i \in Slot : i < last' => (revs'[i] # 0 <=> i \in Used /\ i \notin ToFill')
    <3>1. \A i \in Slot : i < last' => i < last
      BY <1>0, <1>2
    <3> QED BY <1>0, <1>1, <2>1, <3>1, Zenon
  <2>4. \A i \in Slot : i > last' => revs'[i] = 0
    <3>1. \A i \in Slot : i > last' => i > last \/ i = last
      BY <1>0, <1>2
    <3> QED BY <1>0, <2>2, <3>1, Zenon
  <2>5. epc' \in {"find", "pass", "settle"} => revs'[last'] = 0
    BY <1>0, <1>3, Zenon
  <2>6. epc' \in Moves => last' \in Used
    <3>1. epc' \in Moves => revs[last'] # 0
      BY <1>3, Zenon DEF Moves
    <3> QED BY <1>2, <2>1, <3>1, Zenon
  <2> QED BY <2>3, <2>4, <2>5, <2>6, Zenon DEF HolesAhead
<1>5. CASE HolesBehind
  <2>1. \A i \in ToFill : i >= last'
    <3>1. \A i \in ToFill : i >= last
      BY <1>5, Zenon DEF HolesBehind
    <3>2. \A i \in Slot : i >= last => i >= last'
      BY <1>0, <1>2
    <3> QED BY <1>1, <3>1, <3>2, Zenon
  <2> QED BY <1>1, <1>3, <1>5, <2>1, Zenon DEF HolesBehind
<1> QED BY <1>4, <1>5, Zenon

(* A search that has reached the first slot has found no hole behind. *)
LEMMA SearchEnds ==
  ASSUME SlotsType, epc = "find", last = 1, HolesAhead \/ HolesBehind
  PROVE NoHole
<1>1. \A i \in Slot : i > last \/ i = last
  BY Sizes
<1>2. HolesAhead => \A i \in Slot : revs[i] = 0
  BY <1>1, Zenon DEF HolesAhead
<1> QED BY <1>2, Zenon DEF NoHole, HolesBehind

(* A hole that has been filled is no hole, and no longer to fill. *)
LEMMA SettleKeeps ==
  ASSUME SlotsType, HoldInv, WordInv, InOrder, Settle, HolesAhead
  PROVE /\ epc' = "find" => HolesAhead'
        /\ epc' = "done" => NoHole'
<1>0. /\ N \in Nat /\ last \in Slot /\ Slot \subseteq Int /\ k \in 1..Len(args) /\ Len(args) \in Nat
      /\ Target \in Slot /\ Target < last /\ epc = "settle" /\ last_rev # 0
  <2>1. epc = "settle"
    BY Zenon DEF Settle
  <2>2. N \in Nat /\ Slot \subseteq Int /\ Len(args) \in Nat
    BY Sizes, Zenon
  <2>3. k \in 1..Len(args) /\ Target \in Slot
    BY <2>1, TargetIn, Zenon
  <2>4. last \in Slot /\ Target < last
    BY <2>1, HeldSlots, Zenon DEF HoldInv, Moves
  <2>5. last_rev # 0
    BY <2>1, Zenon DEF WordInv, Moves
  <2> QED BY <2>1, <2>2, <2>3, <2>4, <2>5, Zenon
<1>1. UNCHANGED <<args, last>> /\ k' = k + 1 /\ epc' = IF k < Len(args) THEN "find" ELSE "done"
  BY Zenon DEF Settle, NextTarget, input
<1>2. revs'[Target] # 0 /\ \A i \in Slot : i # Target => revs'[i] = revs[i]
  BY <1>0, Zenon DEF Settle, Release, SlotsType
<1>3. \A i \in Slot : i \in ToFill' <=> i \in ToFill /\ i # Target
  <2>1. \A j : j \in k'..Len(args) <=> j \in k..Len(args) /\ j # k
    BY <1>0, <1>1
  <2>2. ASSUME NEW j \in k..Len(args) PROVE args[j] = Target <=> j = k
    <3>1. j \in 1..Len(args) /\ (j = k \/ k < j) /\ args[j] \in Slot
      BY <1>0 DEF SlotsType
    <3>2. k < j => Target < args[j]
      BY <1>0, <3>1, Zenon DEF InOrder, Target
    <3>3. j = k => args[j] = Target
      BY Zenon DEF Target
    <3> QED BY <1>0, <3>1, <3>2, <3>3
  <2>3. ToFill' = {args[j] : j \in k'..Len(args)}
    BY <1>1, Zenon DEF ToFill
  <2> QED BY <2>1, <2>2, <2>3, Zenon DEF ToFill
<1>4. last \in Used /\ Target \in Used
  <2>1. last \in Used
    BY <1>0, Zenon DEF HolesAhead, Moves
  <2> QED BY <1>0, <2>1, Zenon DEF InOrder
<1>5. \A i \in Slot : i < last => (revs'[i] # 0 <=> i \in Used /\ i \notin ToFill')
  <2>1. \A i \in Slot : i < last => (revs[i] # 0 <=> i \in Used /\ i \notin ToFill)
    BY Zenon DEF HolesAhead
  <2> TAKE i \in Slot
  <2>2. CASE i = Target
    BY <1>2, <1>3, <1>4, <2>2, Zenon
  <2>3. CASE i # Target
    BY <1>2, <1>3, <2>1, <2>3, Zenon
  <2> QED BY <2>2, <2>3, Zenon
<1>6. \A i \in Slot : i > last \/ i = last => revs'[i] = 0
  <2>1. \A i \in Slot : i > last \/ i = last => revs[i] = 0
    BY <1>0, Zenon DEF HolesAhead
  <2>2. \A i \in Slot : i > last \/ i = last => i # Target
    BY <1>0
  <2> QED BY <1>2, <2>1, <2>2, Zenon
<1>7. epc' = "find" => HolesAhead'
  BY <1>1, <1>5, <1>6, Zenon DEF HolesAhead, Moves
<1>8. ASSUME epc' = "done", NEW i \in Slot, NEW j \in Slot, i < j, revs'[j] # 0 PROVE revs'[i] # 0
  <2>1. ToFill' = {}
    <3>1. k'..Len(args) = {}
      BY <1>0, <1>1, <1>8
    <3> QED BY <1>1, <3>1, Zenon DEF ToFill
  <2>2. j < last /\ i < last
    BY <1>0, <1>6, <1>8
  <2>3. j \in Used
    BY <1>5, <1>8, <2>2, Zenon
  <2>4. i \in Used
    BY <1>8, <2>3, Zenon DEF InOrder
  <2> QED BY <1>5, <2>1, <2>2, <2>4, Zenon
<1> QED BY <1>7, <1>8, Zenon DEF NoHole

LEMMA HoleStep ==
  SlotsType /\ HoldInv /\ WordInv /\ HoleInv /\ [SlotsNext]_slotsVars => HoleInv'
<1> SUFFICES ASSUME SlotsType, HoldInv, WordInv, HoleInv, [SlotsNext]_slotsVars, InOrder'
             PROVE HoleInv'
  BY Zenon DEF HoleInv
<1>0. UNCHANGED <<args, compact, work>>
  BY SlotsCases, EraserTouches, CopierTouches, Zenon DEF EraserActs, CopierActs, storage, eraser, input
<1>1. InOrder
  BY <1>0, Zenon DEF InOrder
<1>2. /\ \A c \in Copiers : cpc[c] = "done"
      /\ epc \in Erases => Cleared
      /\ epc \in Moves \cup {"find", "pass"} => HolesAhead \/ HolesBehind
      /\ epc = "done" => NoHole
  BY <1>1, Zenon DEF HoleInv
<1>3. ASSUME EraserActs PROVE HoleInv'
  <2>0. \A c \in Copiers : cpc'[c] = "done"
    BY <1>2, <1>3, EraserTouches, Zenon DEF copier
  <2>a. N \in Nat /\ Slot = 1..N /\ k \in Nat /\ Len(args) \in Nat
    BY Sizes, Zenon
  <2>1. CASE EraseLock
    <3>1. epc = "erase" /\ epc' = "clear" /\ UNCHANGED <<revs, k, last>>
      BY <2>1, Zenon DEF EraseLock
    <3>2. Cleared'
      BY <1>0, <1>2, <3>1, Zenon DEF Cleared, Erases
    <3> QED BY <2>0, <3>1, <3>2, Zenon DEF HoleInv, Moves
  <2>2. CASE EraseClear
    <3>1. /\ epc = "clear" /\ k \in 1..Len(args) /\ Target \in Slot /\ UNCHANGED last
          /\ IF k < Len(args) THEN k' = k + 1 /\ epc' = "erase" ELSE k' = 1 /\ epc' = "find"
      BY <1>1, <2>2, TargetIn, Zenon DEF EraseClear, InOrder
    <3>2. revs'[Target] = 0 /\ \A i \in Slot : i # Target => revs'[i] = revs[i]
      BY <2>2, <3>1, Zenon DEF EraseClear, Clear, Release, SlotsType
    <3>3. last = N + 1 /\ \A i \in Slot : revs[i] # 0 <=> i \in Used /\ \A j \in 1..(k - 1) : i # args[j]
      BY <1>2, <3>1, Zenon DEF Cleared, Erases
    <3>4. \A i \in Slot : revs'[i] # 0 <=> i \in Used /\ \A j \in 1..k : i # args[j]
      <4>1. \A j : j \in 1..k <=> j \in 1..(k - 1) \/ j = k
        BY <3>1
      <4> TAKE i \in Slot
      <4>2. CASE i = Target
        BY <3>2, <4>1, <4>2, Zenon DEF Target
      <4>3. CASE i # Target
        <5>1. (\A j \in 1..k : i # args[j]) <=> (\A j \in 1..(k - 1) : i # args[j])
          BY <4>1, <4>3, Zenon DEF Target
        <5> QED BY <3>2, <3>3, <4>3, <5>1, Zenon
      <4> QED BY <4>2, <4>3, Zenon
    <3>5. CASE k < Len(args)
      <4>1. k' - 1 = k /\ epc' = "erase"
        BY <2>a, <3>1, <3>5
      <4>2. Cleared'
        BY <1>0, <3>1, <3>3, <3>4, <4>1, Zenon DEF Cleared
      <4> QED BY <2>0, <4>1, <4>2, Zenon DEF HoleInv, Moves
    <3>6. CASE ~(k < Len(args))
      <4>1. k = Len(args) /\ k' = 1 /\ epc' = "find"
        BY <2>a, <3>1, <3>6
      <4>2. ToFill' = {args[j] : j \in 1..k}
        BY <1>0, <4>1, Zenon DEF ToFill
      <4>3. \A i \in Slot : revs'[i] # 0 <=> i \in Used /\ i \notin ToFill'
        BY <3>4, <4>2, Zenon
      <4>4. \A i \in Slot : ~(i > last) /\ i # last
        BY <2>a, <3>3
      <4>5. HolesAhead'
        BY <3>1, <4>1, <4>3, <4>4, Zenon DEF HolesAhead, Moves
      <4> QED BY <2>0, <4>1, <4>5, Zenon DEF HoleInv, Erases
    <3> QED BY <3>5, <3>6, Zenon
  <2>3. CASE PrevUsed
    <3>1. HolesAhead \/ HolesBehind
      BY <1>2, <2>3, Zenon DEF PrevUsed
    <3>2. epc' \in {"place", "pass"}
      BY <2>3, Zenon DEF PrevUsed
    <3>3. epc' \notin Erases /\ epc' # "done"
      BY <3>2, Zenon DEF Erases
    <3> QED BY <2>0, <2>3, <3>1, <3>3, SearchKeeps, Zenon DEF HoleInv
  <2>b. CASE PassUnused
    <3>1. epc = "pass" /\ epc' = "find" /\ UNCHANGED <<k, last>>
      BY <2>b, Zenon DEF PassUnused
    <3>2. \A i \in Slot : revs'[i] = revs[i]
      BY <2>b, <3>1, Zenon DEF PassUnused, Release, WordInv, SlotsType
    <3>3. ToFill' = ToFill /\ (NoHole' <=> NoHole)
      BY <1>0, <3>1, <3>2, Zenon DEF ToFill, NoHole
    <3>4. HolesAhead => HolesAhead'
      BY <3>1, <3>2, <3>3, Zenon DEF HolesAhead, Moves
    <3>5. HolesBehind => HolesBehind'
      BY <3>1, <3>3, Zenon DEF HolesBehind
    <3>6. epc' \notin Erases /\ epc' # "done"
      BY <3>1, Zenon DEF Erases
    <3> QED BY <1>2, <2>0, <3>1, <3>4, <3>5, <3>6, Zenon DEF HoleInv
  <2>c. CASE NoneUsed
    <3>1. epc = "find" /\ last = 1 /\ epc' = "done" /\ UNCHANGED revs
      BY <2>c, Zenon DEF NoneUsed, slots
    <3>2. NoHole'
      BY <1>2, <3>1, SearchEnds, Zenon DEF NoHole
    <3>3. epc' \notin Moves \cup {"find", "pass"} /\ epc' \notin Erases
      BY <3>1, Zenon DEF Moves, Erases
    <3> QED BY <2>0, <3>2, <3>3, Zenon DEF HoleInv
  <2>4. CASE LeaveLast
    <3>1. /\ epc = "place" /\ Behind /\ UNCHANGED last /\ k' = k + 1 /\ epc' \in {"find", "done"}
      BY <2>4, Zenon DEF LeaveLast, NextTarget
    <3>2. \A i \in Slot : revs'[i] = revs[i]
      BY <2>4, <3>1, Zenon DEF LeaveLast, Release, WordInv, SlotsType
    <3>3. NoHole /\ \A i \in ToFill : i >= last
      <4>1. HolesAhead \/ HolesBehind
        BY <1>2, <3>1, Zenon DEF Moves
      <4> QED BY <1>1, <3>1, <4>1, NoneAhead, Zenon DEF HolesBehind
    <3>4. NoHole'
      BY <3>2, <3>3, Zenon DEF NoHole
    <3>5. ToFill' \subseteq ToFill
      <4>1. \A j : j \in k'..Len(args) => j \in k..Len(args)
        BY <2>a, <3>1
      <4> QED BY <1>0, <4>1, Zenon DEF ToFill
    <3>6. epc' = "find" => HolesBehind'
      BY <3>1, <3>3, <3>4, <3>5, Zenon DEF HolesBehind
    <3>7. epc' \notin Erases /\ epc' \notin Moves /\ epc' # "pass"
      BY <3>1, Zenon DEF Erases, Moves
    <3> QED BY <2>0, <3>4, <3>6, <3>7, Zenon DEF HoleInv
  <2>5. CASE LockHole \/ CopyLast
    <3>1. /\ epc \in {"place", "move"} /\ epc' \in {"move", "vacate"} /\ UNCHANGED <<revs, k, last>>
      BY <2>5, Zenon DEF LockHole, CopyLast
    <3>2. HolesAhead
      <4>1. HolesAhead \/ HolesBehind
        BY <1>2, <3>1, Zenon DEF Moves
      <4>2. ASSUME HolesBehind PROVE FALSE
        <5>1. LockHole /\ ~(Target >= last)
          BY <2>5, <4>2, Zenon DEF HolesBehind, CopyLast, LockHole, Behind
        <5>2. k \in k..Len(args)
          BY <2>a, <3>1, TargetIn
        <5>3. Target \in ToFill
          BY <5>2, Zenon DEF ToFill, Target
        <5> QED BY <4>2, <5>1, <5>3, Zenon DEF HolesBehind
      <4> QED BY <4>1, <4>2, Zenon
    <3>3. ToFill' = ToFill /\ epc \in Moves /\ epc' \notin {"find", "pass", "settle", "done"} /\ epc' \notin Erases
      BY <1>0, <3>1, Zenon DEF ToFill, Moves, Erases
    <3>4. HolesAhead'
      BY <3>1, <3>2, <3>3, Zenon DEF HolesAhead
    <3> QED BY <2>0, <3>3, <3>4, Zenon DEF HoleInv
  <2>6. CASE Vacate
    <3>1. epc = "vacate" /\ epc' = "settle" /\ UNCHANGED <<k, last>> /\ last \in Slot
      BY <2>6, HeldSlots, Zenon DEF Vacate, Moves
    <3>2. revs'[last] = 0 /\ \A i \in Slot : i # last => revs'[i] = revs[i]
      BY <2>6, <3>1, Zenon DEF Vacate, Clear, Release, SlotsType
    <3>3. HolesAhead
      BY <1>2, <3>1, Zenon DEF Moves, HolesBehind
    <3>4. ToFill' = ToFill /\ epc \in Moves /\ epc' \notin {"find", "pass", "done"} /\ epc' \notin Erases
      BY <1>0, <3>1, Zenon DEF ToFill, Moves, Erases
    <3>5. \A i \in Slot : i < last => i # last
      BY <2>a, <3>1
    <3>6. \A i \in Slot : i < last => (revs'[i] # 0 <=> i \in Used /\ i \notin ToFill)
      <4>1. \A i \in Slot : i < last => (revs[i] # 0 <=> i \in Used /\ i \notin ToFill)
        BY <3>3, Zenon DEF HolesAhead
      <4> QED BY <3>2, <3>5, <4>1, Zenon
    <3>7. \A i \in Slot : i > last \/ i = last => revs'[i] = 0
      <4>1. \A i \in Slot : i > last => revs[i] = 0
        BY <3>3, Zenon DEF HolesAhead
      <4> QED BY <3>2, <4>1
    <3>8. HolesAhead'
      BY <3>1, <3>3, <3>4, <3>6, <3>7, Zenon DEF HolesAhead
    <3> QED BY <2>0, <3>4, <3>8, Zenon DEF HoleInv
  <2>7. CASE Settle
    <3>1. HolesAhead
      BY <1>2, <2>7, Zenon DEF Settle, Moves, HolesBehind
    <3>2. epc' \in {"find", "done"}
      BY <2>7, Zenon DEF Settle, NextTarget
    <3>3. epc' \notin Moves /\ epc' # "pass" /\ epc' \notin Erases
      BY <3>2, Zenon DEF Moves, Erases
    <3> QED BY <1>1, <2>0, <2>7, <3>1, <3>3, SettleKeeps, Zenon DEF HoleInv
  <2>8. CASE EraserGivesUp
    <3>1. epc' = "failed"
      BY <2>8, Zenon DEF EraserGivesUp
    <3>2. epc' \notin Moves \cup {"find", "pass", "done"} /\ epc' \notin Erases
      BY <3>1, Zenon DEF Moves, Erases
    <3> QED BY <2>0, <3>2, Zenon DEF HoleInv
  <2> QED BY <1>3, <2>1, <2>2, <2>3, <2>b, <2>c, <2>4, <2>5, <2>6, <2>7, <2>8, Zenon DEF EraserActs
<1>4. ASSUME NEW c \in Copiers, CopierActs(c) PROVE FALSE
  <2>1. cpc[c] = "done"
    BY <1>2, Zenon
  <2> QED BY <1>4, <2>1, Zenon DEF CopierActs, NextUnused, PassUsed, Full, LockSource, CopyRecord, ReleaseSource,
                            CopierGivesUp
<1>5. CASE UNCHANGED storage
  <2>1. UNCHANGED <<revs, args, k, epc, last, cpc>>
    BY <1>5, Zenon DEF storage, slots, eraser, input, copier
  <2>2. (NoHole' <=> NoHole) /\ ToFill' = ToFill /\ (Cleared' <=> Cleared)
    BY <2>1, Zenon DEF NoHole, ToFill, Cleared
  <2>3. HolesAhead => HolesAhead'
    BY <2>1, <2>2, Zenon DEF HolesAhead
  <2>4. HolesBehind => HolesBehind'
    BY <2>1, <2>2, Zenon DEF HolesBehind
  <2> QED BY <1>2, <2>1, <2>2, <2>3, <2>4, Zenon DEF HoleInv
<1> QED BY SlotsCases, <1>3, <1>4, <1>5, Zenon DEF EraserActs, CopierActs

(* "The storage is compacted to eliminate the holes left behind" (README), *)
(* if the records are given in ascending order: for every length of the    *)
(* storage and every such list.                                            *)
THEOREM HolesEliminatedTheorem == SlotsSpec => []HolesEliminatedInOrder
<1> DEFINE Inv == SlotsType /\ HoldInv /\ WordInv /\ HoleInv
<1>1. SlotsInit => Inv
  BY SlotsTypeInit, HoldInit, WordInit, HoleInit, Zenon
<1>2. Inv /\ [SlotsNext]_slotsVars => Inv'
  BY SlotsTypeStep, HoldStep, WordStep, HoleStep, Zenon
<1>3. Inv => HolesEliminatedInOrder
  BY Zenon DEF HoleInv, InOrder, HolesEliminatedInOrder
<1> QED BY <1>1, <1>2, <1>3, PTL DEF SlotsSpec
=============================================================================
