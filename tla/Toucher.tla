------------------------------ MODULE Toucher ------------------------------
(***************************************************************************)
(* The thread that keeps a process's storages from looking orphaned        *)
(* (toucher.c).  It walks its list of storages under a spin lock and       *)
(* touches each one; its owner adds and removes storages under the same    *)
(* lock, closes a storage once it is removed, and stops the thread.  A     *)
(* storage whose last_touched_rev was left locked by a dead process cannot *)
(* be touched: storage_touch reports a deadlock and the thread ends.       *)
(***************************************************************************)
EXTENDS Integers, Sequences

CONSTANTS Stores, Nobody

VARIABLES
    targets,        \* the list of storages, first to last
    open,           \* storages the owner has mapped
    stuck,          \* storages whose last_touched_rev stays locked
    lock,           \* who holds toucher->lock
    opc, job,       \* the owner: where, and the storage concerned
    tpc, rest,      \* the thread: where, and the targets still to touch
    stopping

owner  == <<opc, job>>
thread == <<tpc, rest>>
vars   == <<targets, open, stuck, lock, owner, thread, stopping>>

Init ==
    /\ targets = <<>> /\ open = Stores /\ stuck = {} /\ lock = Nobody
    /\ opc = "idle" /\ job = Nobody /\ tpc = "test" /\ rest = <<>>
    /\ stopping = FALSE

Listed(s) == \E j \in 1..Len(targets) : targets[j] = s

-----------------------------------------------------------------------------
(* The owner: toucher_add_storage, toucher_remove_storage. *)
Call(op, s) ==
    /\ opc = "idle" /\ ~stopping /\ s \in open /\ lock = Nobody
    /\ lock' = "owner" /\ opc' = op /\ job' = s
    /\ UNCHANGED <<targets, open, stuck, thread, stopping>>

AddStorage ==
    /\ opc = "add"
    /\ targets' = IF Listed(job) THEN targets ELSE <<job>> \o targets
    /\ opc' = "idle" /\ lock' = Nobody
    /\ UNCHANGED <<open, stuck, job, thread, stopping>>

(* A storage is on the list once at most. *)
RemoveStorage ==
    /\ opc = "remove"
    /\ IF Listed(job)
       THEN \E k \in 1..Len(targets) :
              targets[k] = job /\ targets' = SubSeq(targets, 1, k - 1)
                                               \o SubSeq(targets, k + 1, Len(targets))
       ELSE UNCHANGED targets
    /\ opc' = "idle" /\ lock' = Nobody
    /\ UNCHANGED <<open, stuck, job, thread, stopping>>

(* A storage that is not a target may be closed, and opened again. *)
CloseStorage(s) ==
    /\ opc = "idle" /\ s \in open /\ ~Listed(s)
    /\ open' = open \ {s}
    /\ UNCHANGED <<targets, stuck, lock, owner, thread, stopping>>

OpenStorage(s) ==
    /\ opc = "idle" /\ s \notin open /\ ~stopping
    /\ open' = open \cup {s}
    /\ UNCHANGED <<targets, stuck, lock, owner, thread, stopping>>

(* toucher_destroy: the thread is told to stop and waited for before the   *)
(* list is freed.                                                          *)
Stop ==
    /\ opc = "idle" /\ ~stopping
    /\ stopping' = TRUE /\ opc' = "join"
    /\ UNCHANGED <<targets, open, stuck, lock, job, thread>>

Destroy ==
    /\ opc = "join" /\ tpc = "ended"
    /\ targets' = <<>> /\ opc' = "idle"
    /\ UNCHANGED <<open, stuck, lock, job, thread, stopping>>

(* Another process dies inside storage_touch. *)
Stick(s) ==
    /\ s \notin stuck /\ stuck' = stuck \cup {s}
    /\ UNCHANGED <<targets, open, lock, owner, thread, stopping>>

-----------------------------------------------------------------------------
Test ==
    /\ tpc = "test" /\ tpc' = IF stopping THEN "ended" ELSE "lock"
    /\ UNCHANGED <<targets, open, stuck, lock, owner, rest, stopping>>

(* mutant: the list is walked without the lock *)
Lock_Untaken ==
    /\ tpc = "lock" /\ tpc' = "touch" /\ rest' = targets
    /\ UNCHANGED <<targets, open, stuck, lock, owner, stopping>>

Lock ==
    /\ tpc = "lock" /\ lock = Nobody
    /\ lock' = "thread" /\ tpc' = "touch" /\ rest' = targets
    /\ UNCHANGED <<targets, open, stuck, owner, stopping>>

(* spin_write_lock gives up while the owner has the lock, or clock_time    *)
(* fails: the thread ends.                                                 *)
LockFails ==
    /\ tpc = "lock" /\ tpc' = "ended"
    /\ UNCHANGED <<targets, open, stuck, lock, owner, rest, stopping>>

(* storage_touch of the next target; a failure ends the thread *)
Touch ==
    /\ tpc = "touch" /\ rest # <<>>
    /\ IF Head(rest) \in stuck
       THEN tpc' = "ended" /\ rest' = <<>> /\ lock' = Nobody
       ELSE rest' = Tail(rest) /\ UNCHANGED <<tpc, lock>>
    /\ UNCHANGED <<targets, open, stuck, owner, stopping>>

(* The thread unlocks and sleeps; a signal interrupts its sleep and with   *)
(* it the thread.                                                          *)
Unlock ==
    /\ tpc = "touch" /\ rest = <<>>
    /\ lock' = Nobody /\ tpc' \in {"test", "ended"}
    /\ UNCHANGED <<targets, open, stuck, owner, rest, stopping>>

-----------------------------------------------------------------------------
Calling ==
    \/ \E s \in Stores, op \in {"add", "remove"} : Call(op, s)
    \/ \E s \in Stores : CloseStorage(s) \/ OpenStorage(s)
    \/ Stop

Finishing == AddStorage \/ RemoveStorage \/ Destroy

Thread == Test \/ Lock \/ LockFails \/ Touch \/ Unlock

Next == Calling \/ Finishing \/ Thread \/ \E s \in Stores : Stick(s)

Spec == Init /\ [][Next]_vars

(* A call that has begun goes on, and the thread runs; the test-and-set of *)
(* the lock succeeds in the end if the lock comes free again and again.    *)
FairSpec == Spec /\ WF_vars(Finishing) /\ WF_vars(Thread) /\ SF_vars(Lock)

-----------------------------------------------------------------------------
(* The thread never writes to a storage that its owner has closed: once    *)
(* toucher_remove_storage has returned the storage may be unmapped.        *)
TouchesOnlyOpen == tpc = "touch" => \A j \in 1..Len(rest) : rest[j] \in open

(* A storage on the list is touched again and again, unless it is removed  *)
(* or the thread ends.                                                     *)
TouchedAgain ==
    \A s \in Stores :
        []<>(\/ tpc = "touch" /\ rest # <<>> /\ Head(rest) = s
             \/ ~Listed(s) \/ tpc = "ended")

(* toucher_destroy returns. *)
StopReturns == (opc = "join") ~> (opc = "idle")
=============================================================================
