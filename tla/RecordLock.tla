----------------------------- MODULE RecordLock -----------------------------
(***************************************************************************)
(* The versioning lock of one record of a storage (spin.c, the record_     *)
(* accessors and storage_clear_record of storage.c) and the processes that *)
(* use it: writers that lock, copy and publish a new revision, erasers     *)
(* that lock, zero and publish revision 0, and readers that copy without   *)
(* locking and compare the revision before and after the copy.             *)
(*                                                                         *)
(* The lock word of the code is one signed long: its sign bit (SPIN_MASK)  *)
(* is "locked", the other bits are "rev".  Every instruction that touches  *)
(* shared memory is a step, in program order (the code's barriers and x86  *)
(* ordering).  The time stamp is copied with the value and is one of the   *)
(* Words.  What a word holds is abstracted to the number of the write that *)
(* put it there, 0 for a zeroed word.                                      *)
(***************************************************************************)
EXTENDS Naturals

CONSTANTS
    Writers,     \* processes that write or erase the record
    Erasers,     \* those of Writers that erase (storage_clear_record)
    Readers,     \* processes that read it
    Words,       \* the words of the record's value and its time stamp
    SPIN_MAX,    \* largest revision, LONG_MAX in spin.h
    MaxWrites,   \* bound on the writes of a behaviour
    MaxCrashes   \* bound on the crashes of writers

ASSUME ConstantsAssumption ==
    /\ Erasers \subseteq Writers
    /\ SPIN_MAX \in Nat /\ MaxWrites \in Nat /\ MaxCrashes \in Nat
    /\ MaxWrites <= SPIN_MAX

VARIABLES
    locked, rev, val,         \* the record
    wpc, wrev, wstamp, wdone, \* writers: where, old revision, words written
    rpc, rrev, rbuf, rdone,   \* readers: where, revision before, words copied
    seenRev, seenBuf,         \* what each reader's last successful read returned
    (* history, for the properties only *)
    writes, crashes,          \* writes and crashes so far
    broken,                   \* revisions at which a writer died with the lock
    underneath,               \* the storage was recreated under a live holder
    erased,                   \* readers in whose copy an erasure has completed
    seenErased                \* those whose last successful read was so

record  == <<locked, rev, val>>
writer  == <<wpc, wrev, wstamp, wdone>>
reader  == <<rpc, rrev, rbuf, rdone>>
seen    == <<seenRev, seenBuf, seenErased>>
vars    == <<record, writer, reader, seen, writes, crashes, broken, underneath,
             erased>>

NEXT_REV(v) == (v + 1) % (SPIN_MAX + 1)

Zeroes == [x \in Words |-> 0]

TypeOK ==
    /\ locked \in BOOLEAN /\ rev \in 0..SPIN_MAX /\ val \in [Words -> Nat]
    /\ wpc \in [Writers -> {"idle", "copy", "dead"}]
    /\ wrev \in [Writers -> 0..SPIN_MAX] /\ wstamp \in [Writers -> Nat]
    /\ wdone \in [Writers -> SUBSET Words]
    /\ rpc \in [Readers -> {"idle", "copy"}]
    /\ rrev \in [Readers -> 0..SPIN_MAX]
    /\ rbuf \in [Readers -> [Words -> Nat]]
    /\ rdone \in [Readers -> SUBSET Words]
    /\ seenRev \in [Readers -> 0..SPIN_MAX]
    /\ seenBuf \in [Readers -> [Words -> Nat]]
    /\ seenErased \subseteq Readers
    /\ writes \in 0..MaxWrites /\ crashes \in 0..MaxCrashes
    /\ broken \subseteq 0..SPIN_MAX /\ underneath \in BOOLEAN
    /\ erased \subseteq Readers

Init ==
    /\ locked = FALSE /\ rev = 0 /\ val = Zeroes
    /\ wpc = [w \in Writers |-> "idle"] /\ wrev = [w \in Writers |-> 0]
    /\ wstamp = [w \in Writers |-> 0] /\ wdone = [w \in Writers |-> {}]
    /\ rpc = [r \in Readers |-> "idle"] /\ rrev = [r \in Readers |-> 0]
    /\ rbuf = [r \in Readers |-> Zeroes] /\ rdone = [r \in Readers |-> {}]
    /\ seenRev = [r \in Readers |-> 0] /\ seenBuf = [r \in Readers |-> Zeroes]
    /\ seenErased = {}
    /\ writes = 0 /\ crashes = 0 /\ broken = {} /\ underneath = FALSE
    /\ erased = {}

-----------------------------------------------------------------------------
(* Writers and erasers.  A lock attempt that finds the record locked spins *)
(* and after about a second fails with DEADLOCK_DETECTED; it changes       *)
(* nothing, so only the successful attempt is a step.                      *)

(* mutant: the old value of the fetch-and-or is ignored *)
WriteLock_Untested(w) ==
    /\ wpc[w] = "idle" /\ writes < MaxWrites
    /\ locked' = TRUE
    /\ wpc' = [wpc EXCEPT ![w] = "copy"]
    /\ wrev' = [wrev EXCEPT ![w] = rev]
    /\ wstamp' = [wstamp EXCEPT ![w] = writes + 1]
    /\ wdone' = [wdone EXCEPT ![w] = {}]
    /\ writes' = writes + 1
    /\ UNCHANGED <<rev, val, reader, seen, crashes, broken, underneath, erased>>

WriteLock(w) ==
    /\ wpc[w] = "idle" /\ ~locked /\ writes < MaxWrites
    /\ locked' = TRUE
    /\ wpc' = [wpc EXCEPT ![w] = "copy"]
    /\ wrev' = [wrev EXCEPT ![w] = rev]
    /\ wstamp' = [wstamp EXCEPT ![w] = IF w \in Erasers THEN 0 ELSE writes + 1]
    /\ wdone' = [wdone EXCEPT ![w] = {}]
    /\ writes' = writes + 1
    /\ UNCHANGED <<rev, val, reader, seen, crashes, broken, underneath, erased>>

WriteWord(w, x) ==
    /\ wpc[w] = "copy" /\ x \notin wdone[w]
    /\ val' = [val EXCEPT ![x] = wstamp[w]]
    /\ wdone' = [wdone EXCEPT ![w] = @ \cup {x}]
    /\ UNCHANGED <<locked, rev, wpc, wrev, wstamp, reader, seen,
                   writes, crashes, broken, underneath, erased>>

Copying == {r \in Readers : rpc[r] = "copy"}

WriteUnlock(w) ==
    /\ wpc[w] = "copy" /\ wdone[w] = Words
    /\ locked' = FALSE
    /\ rev' = IF w \in Erasers THEN 0 ELSE NEXT_REV(wrev[w])
    /\ wpc' = [wpc EXCEPT ![w] = "idle"]
    /\ erased' = IF w \in Erasers THEN erased \cup Copying ELSE erased
    /\ UNCHANGED <<val, wrev, wstamp, wdone, reader, seen,
                   writes, crashes, broken, underneath>>

(* A writer dies; what it had locked stays locked. *)
Crash(w) ==
    /\ wpc[w] # "dead" /\ crashes < MaxCrashes
    /\ wpc' = [wpc EXCEPT ![w] = "dead"]
    /\ crashes' = crashes + 1
    /\ broken' = IF wpc[w] = "copy" THEN broken \cup {rev} ELSE broken
    /\ UNCHANGED <<record, wrev, wstamp, wdone, reader, seen, writes, underneath, erased>>

(* A writer starts again.  storage_create, without O_EXCL, keeps the       *)
(* contents of the segment and clears the lock bit of every record.        *)
Recreate(w) ==
    /\ wpc[w] = "dead"
    /\ wpc' = [wpc EXCEPT ![w] = "idle"]
    /\ locked' = FALSE
    /\ underneath' = (underneath \/ \E v \in Writers : wpc[v] = "copy")
    /\ UNCHANGED <<rev, val, wrev, wstamp, wdone, reader, seen,
                   writes, crashes, broken, erased>>

-----------------------------------------------------------------------------
(* Readers.  The retry loop around the copy returns to ReadLock; a read    *)
(* lock that times out (the record stays locked) changes nothing.          *)

ReadLock(r) ==
    /\ rpc[r] = "idle" /\ ~locked
    /\ rpc' = [rpc EXCEPT ![r] = "copy"]
    /\ rrev' = [rrev EXCEPT ![r] = rev]
    /\ rdone' = [rdone EXCEPT ![r] = {}]
    /\ erased' = erased \ {r}
    /\ UNCHANGED <<record, writer, rbuf, seen, writes, crashes, broken, underneath>>

ReadWord(r, x) ==
    /\ rpc[r] = "copy" /\ x \notin rdone[r]
    /\ rbuf' = [rbuf EXCEPT ![r][x] = val[x]]
    /\ rdone' = [rdone EXCEPT ![r] = @ \cup {x}]
    /\ UNCHANGED <<record, writer, rpc, rrev, seen,
                   writes, crashes, broken, underneath, erased>>

(* mutant: the comparison masks the lock bit *)
RevisionUnchanged_Masked(r) == rev = rrev[r]

(* The comparison at the end of the copy: the raw lock word, lock bit      *)
(* included, must still be the revision the read started from.             *)
RevisionUnchanged(r) == ~locked /\ rev = rrev[r]

ReadCheck(r) ==
    /\ rpc[r] = "copy" /\ rdone[r] = Words
    /\ rpc' = [rpc EXCEPT ![r] = "idle"]
    /\ IF RevisionUnchanged(r)
       THEN /\ seenRev' = [seenRev EXCEPT ![r] = rrev[r]]
            /\ seenBuf' = [seenBuf EXCEPT ![r] = rbuf[r]]
            /\ seenErased' = (seenErased \ {r}) \cup (erased \cap {r})
       ELSE UNCHANGED seen
    /\ UNCHANGED <<record, writer, rrev, rbuf, rdone,
                   writes, crashes, broken, underneath, erased>>

-----------------------------------------------------------------------------
WriterStep(w) ==
    \/ \E x \in Words : WriteWord(w, x)
    \/ WriteUnlock(w)

ReaderStep(r) ==
    \/ ReadLock(r)
    \/ \E x \in Words : ReadWord(r, x)
    \/ ReadCheck(r)

Next ==
    \/ \E w \in Writers : WriteLock(w) \/ WriterStep(w) \/ Crash(w) \/ Recreate(w)
    \/ \E r \in Readers : ReaderStep(r)

Spec == Init /\ [][Next]_vars

-----------------------------------------------------------------------------
Whole(buf) == \A x, y \in Words : buf[x] = buf[y]

(* A successful read (record_read_lock, copy, equal revision: the loops of *)
(* sender.c, batch.c, reader.c) returns one write's words, never a mixture *)
(* of two.  Three exceptions: a writer died while it held the lock at that *)
(* very revision (storage_create then clears the lock over the             *)
(* half-written value); an erasure completed during the copy (revision 0   *)
(* makes old revision numbers come back); the storage was recreated while  *)
(* another, live process was between lock and unlock (storage_create       *)
(* clears that process's lock bit too).                                    *)
NoTornRead ==
    underneath \/ \A r \in Readers :
        Whole(seenBuf[r]) \/ seenRev[r] \in broken \/ r \in seenErased

(* What a successful read returns is what the record holds at the moment   *)
(* of the final comparison: nothing older is ever returned, so reads by    *)
(* one or several readers never go back in time.  Same exceptions.         *)
ReadIsCurrent ==
    [][\A r \in Readers :
          seenBuf'[r] # seenBuf[r]
          => \/ seenBuf'[r] = val
             \/ rrev[r] \in broken \/ r \in erased \/ underneath]_vars

(* Two live processes are never both between record_write_lock and the     *)
(* unlock, whoever has crashed, unless storage_create has cleared the lock *)
(* bit of a live process.                                                  *)
MutualExclusion ==
    underneath \/ \A v, w \in Writers : wpc[v] = "copy" /\ wpc[w] = "copy" => v = w
=============================================================================
