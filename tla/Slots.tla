-------------------------------- MODULE Slots --------------------------------
(***************************************************************************)
(* The programs that move whole records of a storage: the eraser, with or  *)
(* without compaction (eraser.c), and copiers that fill unused slots of it *)
(* from a source storage (copier.c), with the searches, the clearing and   *)
(* the copying of records they use (storage.c).  A slot is unused when its *)
(* revision is 0.  Every process takes the lock bit of a slot before it    *)
(* changes the slot; a process that waits too long for one gives up        *)
(* (spin_write_lock's DEADLOCK_DETECTED).  A grower may copy the storage,  *)
(* slot by slot, to a larger or smaller one meanwhile (storage_grow).      *)
(***************************************************************************)
EXTENDS Integers, Sequences, FiniteSets

CONSTANTS
    N,          \* slots of the storage
    Used,       \* the slots in use at the start
    Copiers,
    Inputs,     \* what runs: the eraser's argument list, each copier's list
                \* of source records, whether a grower runs
    SourceRevs, \* the revision of each source record, 0 of an unused one
    NewN,       \* slots of the storage a grower makes
    Nobody, Eraser

Slot    == 1..N
Sources == DOMAIN SourceRevs

ASSUME SlotsAssumption ==
    /\ N \in Nat /\ NewN \in Nat /\ Used \subseteq Slot
    /\ \A in \in Inputs :
          /\ in.args \in Seq(Slot) /\ in.args # <<>> /\ in.grow \in BOOLEAN
          /\ \A c \in Copiers : in.work[c] \in Seq(Sources)
    /\ \A s \in Sources : SourceRevs[s] \in Nat
    /\ Nobody # Eraser /\ {Nobody, Eraser} \cap Copiers = {}

VARIABLES
    revs, lock, vals,   \* of each slot: the revision, who holds it, the value
    slock,              \* who holds each source record
    args, compact, work, \* the command lines: identifiers and -c, source records
    k, epc, last, last_rev, \* the eraser: which argument, where, last_rec
    cpc, job, dest,     \* a copier: where, which of its work, dest_rec
    gpc, old_r, buf, grown, \* the grower: where, which slot, its buffer, the
                        \* slots of the new storage so far
    (* history, for the properties only *)
    restored,           \* slots given back with the revision the grower waits for
    rewritten           \* slots changed since the grower waited for them

slots  == <<revs, lock, vals>>
input  == <<args, compact, work>>
eraser == <<input, k, epc, last, last_rev>>
copier == <<cpc, job, dest>>
grower == <<gpc, old_r, buf, grown>>
slotsVars == <<slots, slock, eraser, copier, grower, restored, rewritten>>

Empty == <<"empty">>
Old(i) == <<"old", i>>          \* what slot i holds at the start
Copied(s) == <<"copied", s>>    \* what source record s holds

(* what the grower knows of a slot: the revision it waited for, and the    *)
(* revision, lock bit and value it copied                                  *)
Unread == [was |-> 0, rev |-> 0, locked |-> FALSE, val |-> Empty]

SlotsInit ==
    /\ revs = [i \in Slot |-> IF i \in Used THEN 1 ELSE 0]
    /\ lock = [i \in Slot |-> Nobody]
    /\ vals = [i \in Slot |-> IF i \in Used THEN Old(i) ELSE Empty]
    /\ slock = [s \in Sources |-> Nobody]
    /\ compact \in BOOLEAN
    /\ \E in \in Inputs :
          args = in.args /\ work = in.work /\ gpc = IF in.grow THEN "lock" ELSE "none"
    /\ k = 1 /\ epc = "erase" /\ last = N + 1 /\ last_rev = 0
    /\ cpc = [c \in Copiers |-> IF work[c] = <<>> THEN "done" ELSE "find"]
    /\ job = [c \in Copiers |-> 1]
    /\ dest = [c \in Copiers |-> 0]
    /\ old_r = 1 /\ buf = Unread /\ grown = <<>> /\ restored = {} /\ rewritten = {}

-----------------------------------------------------------------------------
(* Lock bits and whole records (storage.c, spin.c). *)
Acquire(p, i) == lock[i] = Nobody /\ lock' = [lock EXCEPT ![i] = p]

(* record_set_revision *)
Release(i, r) ==
    /\ revs' = [revs EXCEPT ![i] = r]
    /\ lock' = [lock EXCEPT ![i] = Nobody]

(* storage_clear_record: the record is wiped and unlocked as unused. *)
Clear(i) == vals' = [vals EXCEPT ![i] = Empty] /\ Release(i, 0)

(* mutant: a search that trusts a slot it does not lock *)
FindNextUnused_Unlocked(p, i) == i <= N /\ UNCHANGED lock

(* storage_find_next_unused and storage_find_prev_used, one slot: it is    *)
(* locked whatever it holds, and given back, in a step of its own, if it   *)
(* is not of the kind that is looked for.                                  *)
FindNextUnused(p, i) == i <= N /\ Acquire(p, i)
FindPrevUsed(p, i) == i >= 1 /\ Acquire(p, i)

-----------------------------------------------------------------------------
(* The eraser. *)
Target == args[k]

EraseLock ==
    /\ epc = "erase" /\ Acquire(Eraser, Target)
    /\ epc' = "clear"
    /\ UNCHANGED <<revs, vals, slock, input, k, last, last_rev, copier>>

EraseClear ==
    /\ epc = "clear" /\ Clear(Target)
    /\ IF k < Len(args) THEN k' = k + 1 /\ epc' = "erase"
       ELSE k' = 1 /\ epc' = IF compact THEN "find" ELSE "done"
    /\ UNCHANGED <<slock, input, last, last_rev, copier>>

(* Compaction takes the used slots from the end backwards: last_rec is the *)
(* slot before which the next search begins.                               *)
PrevUsed ==
    /\ epc = "find" /\ FindPrevUsed(Eraser, last - 1)
    /\ last' = last - 1 /\ last_rev' = revs[last - 1]
    /\ epc' = IF revs[last - 1] # 0 THEN "place" ELSE "pass"
    /\ UNCHANGED <<revs, vals, slock, input, k, copier>>

(* mutant: the search does not move past an unused slot *)
PassUnused_Stays ==
    /\ epc = "pass" /\ Release(last, last_rev)
    /\ epc' = "find" /\ last' = last + 1
    /\ UNCHANGED <<vals, slock, input, k, last_rev, copier>>

PassUnused ==
    /\ epc = "pass" /\ Release(last, last_rev)
    /\ epc' = "find"
    /\ UNCHANGED <<vals, slock, input, k, last, last_rev, copier>>

NoneUsed ==
    /\ epc = "find" /\ last = 1
    /\ epc' = "done"
    /\ UNCHANGED <<slots, slock, input, k, last, last_rev, copier>>

NextTarget == k' = k + 1 /\ epc' = IF k < Len(args) THEN "find" ELSE "done"

(* mutant: the test of the two positions is the wrong way round *)
Behind_Reversed == Target < last

(* The hole is not before the last record: nothing to move. *)
Behind == Target >= last

LeaveLast ==
    /\ epc = "place" /\ Behind
    /\ Release(last, last_rev) /\ NextTarget
    /\ UNCHANGED <<vals, slock, input, last, last_rev, copier>>

LockHole ==
    /\ epc = "place" /\ ~Behind /\ Acquire(Eraser, Target)
    /\ epc' = "move"
    /\ UNCHANGED <<revs, vals, slock, input, k, last, last_rev, copier>>

(* storage_copy_record into the hole, storage_clear_record of the last,    *)
(* then record_set_revision of the hole to the revision of the last.       *)
CopyLast ==
    /\ epc = "move" /\ vals' = [vals EXCEPT ![Target] = vals[last]]
    /\ epc' = "vacate"
    /\ UNCHANGED <<revs, lock, slock, input, k, last, last_rev, copier>>

Vacate ==
    /\ epc = "vacate" /\ Clear(last)
    /\ epc' = "settle"
    /\ UNCHANGED <<slock, input, k, last, last_rev, copier>>

Settle ==
    /\ epc = "settle" /\ Release(Target, last_rev) /\ NextTarget
    /\ UNCHANGED <<vals, slock, input, last, last_rev, copier>>

(* A lock that is not free in time ends the program; the lock on the last  *)
(* record is given back.                                                   *)
EraserGivesUp ==
    /\ \/ /\ epc = "erase" /\ lock[Target] # Nobody /\ UNCHANGED <<revs, lock>>
       \/ /\ epc = "find" /\ last > 1 /\ lock[last - 1] # Nobody /\ UNCHANGED <<revs, lock>>
       \/ /\ epc = "place" /\ ~Behind /\ lock[Target] # Nobody /\ Release(last, last_rev)
    /\ epc' = "failed"
    /\ UNCHANGED <<vals, slock, input, k, last, last_rev, copier>>

-----------------------------------------------------------------------------
(* A copier. *)
Source(c) == work[c][job[c]]
Goto(c, at) == cpc' = [cpc EXCEPT ![c] = at]

NextUnused(c) ==
    /\ cpc[c] = "find" /\ FindNextUnused(c, dest[c] + 1)
    /\ dest' = [dest EXCEPT ![c] = @ + 1]
    /\ Goto(c, IF revs[dest[c] + 1] = 0 THEN "source" ELSE "pass")
    /\ UNCHANGED <<revs, vals, slock, eraser, job>>

PassUsed(c) ==
    /\ cpc[c] = "pass" /\ Release(dest[c], revs[dest[c]])
    /\ Goto(c, "find")
    /\ UNCHANGED <<vals, slock, eraser, job, dest>>

(* STORAGE_FULL *)
Full(c) ==
    /\ cpc[c] = "find" /\ dest[c] = N
    /\ Goto(c, "failed")
    /\ UNCHANGED <<slots, slock, eraser, job, dest>>

LockSource(c) ==
    /\ cpc[c] = "source" /\ slock[Source(c)] = Nobody
    /\ slock' = [slock EXCEPT ![Source(c)] = c]
    /\ Goto(c, "copy")
    /\ UNCHANGED <<slots, eraser, job, dest>>

(* storage_copy_record, then record_set_revision of the destination *)
CopyRecord(c) ==
    /\ cpc[c] = "copy"
    /\ vals' = [vals EXCEPT ![dest[c]] = Copied(Source(c))]
    /\ Release(dest[c], SourceRevs[Source(c)])
    /\ Goto(c, "release")
    /\ UNCHANGED <<slock, eraser, job, dest>>

ReleaseSource(c) ==
    /\ cpc[c] = "release"
    /\ slock' = [slock EXCEPT ![Source(c)] = Nobody]
    /\ job' = [job EXCEPT ![c] = @ + 1]
    /\ Goto(c, IF job[c] < Len(work[c]) THEN "find" ELSE "done")
    /\ UNCHANGED <<slots, eraser, dest>>

(* mutant: the destination stays locked *)
CopierGivesUp_Locked(c) ==
    /\ \/ cpc[c] = "find" /\ dest[c] < N /\ lock[dest[c] + 1] # Nobody
       \/ cpc[c] = "source" /\ slock[Source(c)] # Nobody
    /\ Goto(c, "failed")
    /\ UNCHANGED <<slots, slock, eraser, job, dest>>

CopierGivesUp(c) ==
    /\ \/ /\ cpc[c] = "find" /\ dest[c] < N /\ lock[dest[c] + 1] # Nobody
          /\ UNCHANGED <<revs, lock>>
       \/ /\ cpc[c] = "source" /\ slock[Source(c)] # Nobody
          /\ Release(dest[c], revs[dest[c]])
    /\ Goto(c, "failed")
    /\ UNCHANGED <<vals, slock, eraser, job, dest>>

-----------------------------------------------------------------------------
(* The grower: storage_grow's loop over the slots of both storages.  It    *)
(* takes no lock.  It waits until a slot is not locked, copies the word    *)
(* with revision and lock bit, then the value, and does so again if the    *)
(* word is not the one it waited for.                                      *)
Growable == old_r <= N /\ old_r <= NewN
GrowerKeeps == UNCHANGED <<slots, slock, eraser, copier>>

GrowLock ==   \* record_read_lock
    /\ gpc = "lock" /\ Growable /\ lock[old_r] = Nobody
    /\ buf' = [Unread EXCEPT !.was = revs[old_r]]
    /\ gpc' = "word" /\ restored' = restored \ {old_r} /\ rewritten' = rewritten \ {old_r}
    /\ UNCHANGED <<old_r, grown>> /\ GrowerKeeps

GrowCopyWord ==
    /\ gpc = "word"
    /\ buf' = [buf EXCEPT !.rev = revs[old_r], !.locked = lock[old_r] # Nobody]
    /\ gpc' = "value"
    /\ UNCHANGED <<old_r, grown, restored, rewritten>> /\ GrowerKeeps

GrowCopyValue ==
    /\ gpc = "value"
    /\ buf' = [buf EXCEPT !.val = vals[old_r]]
    /\ gpc' = "check"
    /\ UNCHANGED <<old_r, grown, restored, rewritten>> /\ GrowerKeeps

Unchanged_Masked == revs[old_r] = buf.was   \* mutant: the lock bit is ignored

(* A locked word is negative, and never the revision waited for. *)
Unchanged == lock[old_r] = Nobody /\ revs[old_r] = buf.was

GrowCheck ==
    /\ gpc = "check" /\ gpc' = "lock" /\ buf' = Unread
    /\ IF Unchanged
       THEN grown' = Append(grown, [buf EXCEPT !.was = 0]) /\ old_r' = old_r + 1
       ELSE UNCHANGED <<grown, old_r>>
    /\ UNCHANGED <<restored, rewritten>> /\ GrowerKeeps

GrowEnd ==
    /\ gpc = "lock" /\ ~Growable
    /\ gpc' = "done"
    /\ UNCHANGED <<old_r, buf, grown, restored, rewritten>> /\ GrowerKeeps

(* the time-out of record_read_lock *)
GrowerGivesUp ==
    /\ gpc = "lock" /\ Growable /\ lock[old_r] # Nobody
    /\ gpc' = "failed"
    /\ UNCHANGED <<old_r, buf, grown, restored, rewritten>> /\ GrowerKeeps

-----------------------------------------------------------------------------
(* What a step of another program means for the grower. *)
GrowerAside ==
    LET copied == {i \in Slot : i = old_r /\ gpc \in {"word", "value", "check"}} IN
    /\ UNCHANGED grower
    /\ restored' = restored \cup
          {i \in copied : lock[i] # Nobody /\ lock'[i] = Nobody /\ revs'[i] = buf.was}
    /\ rewritten' = rewritten \cup {i \in copied : vals'[i] # vals[i]}

Erasing ==
    /\ \/ EraseLock \/ EraseClear \/ PrevUsed \/ PassUnused \/ NoneUsed
       \/ LeaveLast \/ LockHole \/ CopyLast \/ Vacate \/ Settle
    /\ GrowerAside

Filling(c) ==
    /\ \/ NextUnused(c) \/ PassUsed(c) \/ Full(c) \/ LockSource(c)
       \/ CopyRecord(c) \/ ReleaseSource(c)
    /\ GrowerAside

GivingUp == (EraserGivesUp \/ \E c \in Copiers : CopierGivesUp(c)) /\ GrowerAside

Growing == GrowLock \/ GrowCopyWord \/ GrowCopyValue \/ GrowCheck \/ GrowEnd

SlotsNext ==
    \/ Erasing \/ GivingUp \/ Growing \/ GrowerGivesUp
    \/ \E c \in Copiers : Filling(c)

SlotsSpec == SlotsInit /\ [][SlotsNext]_slotsVars

(* Each program runs on while it can.  It need not give up: with a lock    *)
(* that comes free before the time-out it does not.                        *)
FairSpec ==
    /\ SlotsSpec /\ WF_slotsVars(Erasing) /\ WF_slotsVars(Growing)
    /\ \A c \in Copiers : WF_slotsVars(Filling(c))

-----------------------------------------------------------------------------
ToErase == {args[j] : j \in 1..Len(args)}
Holding(v) == {i \in Slot : vals[i] = v}
Readable(i) == lock[i] = Nobody /\ revs[i] # 0

(* the command line names no record twice, and only records that exist     *)
GivenOnce == \A x, y \in 1..Len(args) : args[x] = args[y] => x = y
GivenUsed == ToErase \subseteq Used

(* the copies of source record s that copiers have finished, as copier and *)
(* job, and the slots with a copy of it                                    *)
CopyDone(c, j) ==
    j \in 1..Len(work[c]) /\ (j < job[c] \/ (j = job[c] /\ cpc[c] = "release"))
Finished(s) == {f \in Copiers \X Slot : CopyDone(f[1], f[2]) /\ work[f[1]][f[2]] = s}
CopiesOf(s) == {i \in Slot : vals[i] = Copied(s) /\ revs[i] # 0}

(* Records are moved and filled in but none is lost or doubled: whatever   *)
(* the eraser was not told to erase is in some slot at every moment        *)
(* (eraser.c's order of copying before clearing), and no two readable      *)
(* slots ever hold it; and copiers that fill one storage at the same time  *)
(* never put two records in one slot: each source record is in as many     *)
(* slots as there are finished copies of it, unless it is unused, which no *)
(* copier looks at.  (Compaction overwrites a hole that a copier has       *)
(* filled meanwhile, and, for an identifier that is given twice, the       *)
(* record it has just moved there.)                                        *)
RecordsKept ==
    GivenOnce =>
    /\ \A i \in Used \ ToErase :
          /\ Holding(Old(i)) # {}
          /\ \A x, y \in Holding(Old(i)) : Readable(x) /\ Readable(y) => x = y
    /\ ~compact /\ GivenUsed =>
          \A s \in Sources : SourceRevs[s] # 0 =>
              Cardinality(CopiesOf(s)) = Cardinality(Finished(s))

NoHole == \A i, j \in Slot : i < j /\ revs[j] # 0 => revs[i] # 0

(* "The storage is compacted to eliminate the holes left behind" (README): *)
(* a storage without holes, to which nobody copies, has none after         *)
(* eraser -c has finished, if the records were given in ascending order.   *)
(* In another order main of eraser.c may leave a hole.                     *)
HolesEliminatedInOrder ==
    /\ epc = "done" /\ compact /\ \A c \in Copiers : work[c] = <<>>
    /\ \A i, j \in Slot : i < j /\ j \in Used => i \in Used
    /\ \A x, y \in 1..Len(args) : x < y => args[x] < args[y]
    => NoHole

(* A program that has ended, by an error or not, holds no lock. *)
NoLockLeft ==
    /\ epc \in {"done", "failed"} => \A i \in Slot : lock[i] # Eraser
    /\ \A c \in Copiers : cpc[c] \in {"done", "failed"} =>
          /\ \A i \in Slot : lock[i] # c
          /\ \A s \in Sources : slock[s] # c

RevisionOf(v) == CASE v = Empty -> {0}
                   [] v \in {Old(i) : i \in Slot} -> {1}
                   [] OTHER -> {SourceRevs[s] : s \in {s \in Sources : v = Copied(s)}}

(* What a grower copies is what a slot held: the lock bit is not copied   *)
(* and the revision goes with the value (storage_grow's second look at the *)
(* revision), unless the slot was given back, after the grower had waited  *)
(* for it, with the revision it had then.  The searches do that to every   *)
(* slot they pass, a program that gave up or moved nothing to the slot it  *)
(* held: such a copy may be locked for ever, but its revision goes with    *)
(* its value.  A mixture comes only of a compaction or a copier that       *)
(* refilled the slot.  And if nothing is compacted, the copy has every     *)
(* record that is not erased, in its place.                                *)
GrownWhole ==
    \A i \in DOMAIN grown :
        /\ grown[i].locked => i \in restored
        /\ grown[i].rev \notin RevisionOf(grown[i].val) => i \in restored \cap rewritten
        /\ i \in Used \ ToErase /\ ~compact => grown[i].val = Old(i)

(* Every program ends: no set of waiting programs waits for ever. *)
AllEnd ==
    <>(/\ epc \in {"done", "failed"} /\ gpc \in {"none", "done", "failed"}
       /\ \A c \in Copiers : cpc[c] \in {"done", "failed"})
==============================================================================
