------------------------------- MODULE Index --------------------------------
(***************************************************************************)
(* The Go library's index from keys to records: Index over one store and   *)
(* MultiStoreIndex over several (index.go, multi_store_index.go).  Update  *)
(* reads records one by one from where the last Update ended and enters    *)
(* their keys under a mutex; it gives the mutex back after each record,    *)
(* but not when it meets a key that is there already.                      *)
(*                                                                         *)
(* A writer fills each store's records in order.  All keys are different,  *)
(* so a record's place stands for its key.                                 *)
(***************************************************************************)
EXTENDS Naturals

CONSTANTS
    Updaters,   \* goroutines that call Update, again and again
    Lookers,    \* goroutines that call GetIndex or GetLocation
    Free,       \* nobody has the mutex
    Types,      \* the types used: "Index", "MultiStoreIndex"
    NStores,    \* the stores of a MultiStoreIndex
    Slots       \* the records of a store

VARIABLES
    type,
    used,       \* the number of records written in each store
    index,      \* the places of the records entered
    maxRecord,  \* where the next Update begins
    lock,
    pc, at, cur,    \* of each Updater: "idle", "read", "lock", "enter"; its store and record
    asking,     \* the Lookers inside a call
    (* history, for the properties only *)
    filled, overlapped, \* an Update met the end of a store; two ran at once
    kept        \* an Update returned without giving the mutex back

tables == <<index, maxRecord>>
calls  == <<pc, at, cur>>
hist   == <<filled, overlapped, kept>>
vars   == <<type, used, tables, lock, calls, asking, hist>>

Last == IF type = "Index" THEN 1 ELSE NStores
Sources == 1..Last

Init ==
    /\ type \in Types
    /\ used = [s \in Sources |-> 0] /\ index = {} /\ maxRecord = [s \in Sources |-> 0]
    /\ lock = Free /\ asking = {} /\ filled = FALSE /\ overlapped = FALSE /\ kept = FALSE
    /\ pc = [u \in Updaters |-> "idle"]
    /\ at = [u \in Updaters |-> 1] /\ cur = [u \in Updaters |-> 0]

WriteRecord(s) ==
    /\ used[s] < Slots /\ used' = [used EXCEPT ![s] = @ + 1]
    /\ UNCHANGED <<type, tables, lock, calls, asking, hist>>

(* updateStore, or Update of an Index, begins with a store *)
Begin(u, s) ==
    /\ at' = [at EXCEPT ![u] = s] /\ cur' = [cur EXCEPT ![u] = maxRecord[s]]
    /\ pc' = [pc EXCEPT ![u] = "read"]

Update(u) ==
    /\ pc[u] = "idle" /\ Begin(u, 1)
    /\ overlapped' = (overlapped \/ \E v \in Updaters : pc[v] # "idle")
    /\ UNCHANGED <<type, used, tables, lock, asking, filled, kept>>

(* mutant: the position is not kept *)
StoreDone_Forgets(u) == UNCHANGED maxRecord

(* The last line of Update; the other type's updateStore works on a copy   *)
(* of the indexedStore, so what it keeps there is gone.                    *)
StoreDone(u) ==
    maxRecord' = IF type = "Index" THEN [maxRecord EXCEPT ![at[u]] = cur[u]] ELSE maxRecord

(* GetRecord: past the last record it is an error, and Update returns      *)
(* without keeping its position; revision 0 is the end of what is used.    *)
GetRecord(u) ==
    /\ pc[u] = "read"
    /\ \/ /\ cur[u] = Slots
          /\ pc' = [pc EXCEPT ![u] = "idle"] /\ filled' = TRUE
          /\ UNCHANGED <<at, cur, maxRecord>>
       \/ /\ cur[u] < Slots /\ cur[u] < used[at[u]]
          /\ pc' = [pc EXCEPT ![u] = "lock"]
          /\ UNCHANGED <<at, cur, maxRecord, filled>>
       \/ /\ cur[u] < Slots /\ cur[u] = used[at[u]]
          /\ StoreDone(u)
          /\ IF at[u] < Last THEN Begin(u, at[u] + 1)
             ELSE pc' = [pc EXCEPT ![u] = "idle"] /\ UNCHANGED <<at, cur>>
          /\ UNCHANGED filled
    /\ UNCHANGED <<type, used, index, lock, asking, overlapped, kept>>

Lock(u) ==
    /\ pc[u] = "lock" /\ lock = Free /\ lock' = u
    /\ pc' = [pc EXCEPT ![u] = "enter"]
    /\ UNCHANGED <<type, used, tables, at, cur, asking, hist>>

(* A key that is there already ends Update with the mutex held. *)
Enter(u) ==
    /\ pc[u] = "enter"
    /\ IF <<at[u], cur[u]>> \in index
       THEN pc' = [pc EXCEPT ![u] = "idle"] /\ kept' = TRUE /\ UNCHANGED <<index, cur, lock>>
       ELSE /\ index' = index \cup {<<at[u], cur[u]>>} /\ cur' = [cur EXCEPT ![u] = @ + 1]
            /\ lock' = Free /\ pc' = [pc EXCEPT ![u] = "read"] /\ UNCHANGED kept
    /\ UNCHANGED <<type, used, maxRecord, at, asking, filled, overlapped>>

(* GetIndex, GetLocation *)
Ask(l) ==
    /\ l \notin asking /\ asking' = asking \cup {l}
    /\ UNCHANGED <<type, used, tables, lock, calls, hist>>

Answer(l) ==
    /\ l \in asking /\ lock = Free /\ asking' = asking \ {l}
    /\ UNCHANGED <<type, used, tables, lock, calls, hist>>

Step(u) == GetRecord(u) \/ Lock(u) \/ Enter(u)

Next ==
    \/ \E s \in Sources : WriteRecord(s)
    \/ \E u \in Updaters : Update(u) \/ Step(u)
    \/ \E l \in Lookers : Ask(l) \/ Answer(l)

(* Goroutines are scheduled, and a mutex does not starve its waiters. *)
Spec ==
    /\ Init /\ [][Next]_vars
    /\ \A u \in Updaters : SF_vars(Step(u))
    /\ \A l \in Lookers : SF_vars(Answer(l))

-----------------------------------------------------------------------------
(* A comment in Update says "Not thread safe, but it's ok if we index more *)
(* than once" (index.go:89): then no Update may return with the mutex.     *)
IndexTwiceIsOk == ~kept

(* Update keeps the mutex when it meets a record a second time: after it   *)
(* ran into the end of a full store, when two ran at once, and in a        *)
(* MultiStoreIndex, which begins again at the first record every time.     *)
Repeated == filled \/ overlapped \/ type = "MultiStoreIndex"

(* A lookup returns, unless an Update that met a record a second time kept *)
(* the mutex.                                                              *)
LookupReturns ==
    \A l \in Lookers : l \in asking ~> l \notin asking \/ (kept /\ Repeated)
=============================================================================
