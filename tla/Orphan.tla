------------------------------- MODULE Orphan -------------------------------
(***************************************************************************)
(* How the users of a storage learn that its writer is gone or has made it *)
(* anew.  The writer's toucher stamps the storage (toucher.c,              *)
(* storage_touch); a sender and a reader compare the stamp with the clock, *)
(* and the time of creation with the one they opened (sender_run, reader's *)
(* main loop).  Time passes in ticks: a variable that stands for a stored  *)
(* time holds its age, so "now - t" is the age of t.  Every process may be *)
(* delayed between any two of its steps, up to a bound of its own.         *)
(***************************************************************************)
EXTENDS Integers

CONSTANTS
    Period,         \* TOUCH-PERIOD
    Timeout,        \* ORPHAN-TIMEOUT
    TouchDelay,     \* delay of a step of the toucher
    SenderDelay,    \* delay of a step of the sender
    ReaderDelay,    \* delay of a step of the reader
    Cap,            \* ages at or above it are not told apart
    Eager,          \* a user may open the storage before the first touch
    MaxCreated      \* bound on the creations of the storage

(* ORPHAN-TIMEOUT leaves room for the touch period and the delays. *)
OrphanAssumption ==
    /\ {Period, Timeout, TouchDelay, SenderDelay, ReaderDelay, Cap, MaxCreated}
          \subseteq Nat
    /\ Eager \in BOOLEAN
    /\ Period + 3 * TouchDelay + SenderDelay < Timeout
    /\ Timeout + 3 * (SenderDelay + ReaderDelay) < Cap

VARIABLES
    touched, created, cage,         \* last_touched; last_created and its age
    wpc, gone,                      \* the writer, and for how long it is dead
    tpc, tage, stamp, listed,       \* its toucher; the storage is on its list
    spc, sage, swhen, screated,     \* the sender
    rpc, rage, rnow, rcreated,      \* the reader
    lapsed                          \* the writer has been dead

writer == <<wpc, gone, lapsed>>
touch  == <<tpc, tage, stamp, listed>>
sender == <<spc, sage, swhen, screated>>
reader == <<rpc, rage, rnow, rcreated>>
vars   == <<touched, created, cage, writer, touch, sender, reader>>

Init ==
    /\ touched = Cap /\ created = 0 /\ cage = 0 /\ wpc = "none" /\ gone = 0 /\ lapsed = FALSE
    /\ tpc = "off" /\ tage = 0 /\ stamp = 0 /\ listed = FALSE
    /\ spc = "closed" /\ sage = 0 /\ swhen = 0 /\ screated = 0
    /\ rpc = "closed" /\ rage = 0 /\ rnow = 0 /\ rcreated = 0

-----------------------------------------------------------------------------
(* The writer: storage_create (which leaves last_touched alone: zero in a  *)
(* new storage), toucher_create, toucher_add_storage.                      *)
StorageCreate ==
    /\ wpc \in {"none", "dead"} /\ created < MaxCreated
    /\ created' = created + 1 /\ cage' = 0 /\ wpc' = "created" /\ gone' = 0
    /\ UNCHANGED <<touched, touch, sender, reader, lapsed>>

ToucherCreate ==
    /\ wpc = "created" /\ wpc' = "touching"
    /\ tpc' = "clock" /\ tage' = 0
    /\ UNCHANGED <<touched, created, cage, gone, lapsed, stamp, listed, sender, reader>>

(* The toucher holds its lock between reading the clock and touching. *)
AddStorage ==
    /\ wpc = "touching" /\ ~listed /\ tpc # "store"
    /\ listed' = TRUE
    /\ UNCHANGED <<touched, created, cage, writer, tpc, tage, stamp, sender, reader>>

Die ==
    /\ wpc \in {"created", "touching"}
    /\ wpc' = "dead" /\ tpc' = "off" /\ listed' = FALSE /\ lapsed' = TRUE
    /\ gone' = 0
    /\ UNCHANGED <<touched, created, cage, tage, stamp, sender, reader>>

(* touch_func *)
TouchClock ==
    /\ tpc = "clock" \/ (tpc = "sleep" /\ tage >= Period)
    /\ tpc' = "store" /\ tage' = 0 /\ stamp' = 0
    /\ UNCHANGED <<touched, created, cage, writer, listed, sender, reader>>

TouchStore ==
    /\ tpc = "store" /\ tpc' = "sleep" /\ tage' = 0
    /\ touched' = IF listed THEN stamp ELSE touched
    /\ UNCHANGED <<created, cage, writer, stamp, listed, sender, reader>>

-----------------------------------------------------------------------------
(* Opening, while the writer lives: the time of creation is noted. *)
MayOpen == wpc = "touching" /\ (Eager \/ touched < Cap)

SenderOpen ==
    /\ spc = "closed" /\ MayOpen
    /\ spc' = "when" /\ sage' = 0 /\ screated' = created
    /\ UNCHANGED <<touched, created, cage, writer, touch, swhen, reader>>

ReaderOpen ==
    /\ rpc = "closed" /\ MayOpen
    /\ rpc' = "clock" /\ rage' = 0 /\ rcreated' = created
    /\ UNCHANGED <<touched, created, cage, writer, touch, sender, rnow>>

(* sender_run: the stamp is read before the clock. *)
SenderWhen ==
    /\ spc = "when" /\ spc' = "clock" /\ sage' = 0 /\ swhen' = touched
    /\ UNCHANGED <<touched, created, cage, writer, touch, screated, reader>>

(* mutant: a new storage is taken for the one that was opened *)
SenderCheck_Blind ==
    /\ spc = "clock" /\ sage' = 0
    /\ spc' = IF swhen >= Timeout THEN "orphaned" ELSE "when"
    /\ UNCHANGED <<touched, created, cage, writer, touch, swhen, screated, reader>>

SenderCheck ==
    /\ spc = "clock" /\ sage' = 0
    /\ spc' = IF swhen >= Timeout THEN "orphaned"
              ELSE IF screated # created THEN "recreated" ELSE "when"
    /\ UNCHANGED <<touched, created, cage, writer, touch, swhen, screated, reader>>

(* reader's main loop: the time of creation, the clock, then the stamp. *)
ReaderClock ==
    /\ rpc = "clock" /\ rage' = 0 /\ rnow' = 0
    /\ rpc' = IF rcreated # created THEN "recreated" ELSE "when"
    /\ UNCHANGED <<touched, created, cage, writer, touch, sender, rcreated>>

(* mutant: the age of the stamp is taken at the end of the delay *)
ReaderCheck_Late ==
    /\ rpc = "when" /\ rage' = 0
    /\ rpc' = IF touched + rnow >= Timeout THEN "orphaned" ELSE "clock"
    /\ UNCHANGED <<touched, created, cage, writer, touch, sender, rnow, rcreated>>

ReaderCheck ==
    /\ rpc = "when" /\ rage' = 0
    /\ rpc' = IF touched - rnow >= Timeout THEN "orphaned" ELSE "clock"
    /\ UNCHANGED <<touched, created, cage, writer, touch, sender, rnow, rcreated>>

-----------------------------------------------------------------------------
Older(age) == IF age < Cap THEN age + 1 ELSE Cap

(* the age of something that matters only while "used" *)
OlderIf(used, age) == IF used THEN Older(age) ELSE 0

Watching == {"when", "clock"}

InTime ==
    /\ tpc = "sleep" => tage < Period + TouchDelay
    /\ tpc \in {"clock", "store"} => tage < TouchDelay
    /\ spc \in Watching => sage < SenderDelay
    /\ rpc \in Watching => rage < ReaderDelay

Tick ==
    /\ InTime
    /\ touched' = Older(touched)
    /\ cage' = OlderIf(created > 1, cage) /\ gone' = OlderIf(wpc = "dead", gone)
    /\ tage' = OlderIf(tpc # "off", tage) /\ stamp' = OlderIf(tpc = "store", stamp)
    /\ sage' = OlderIf(spc \in Watching, sage) /\ swhen' = OlderIf(spc = "clock", swhen)
    /\ rage' = OlderIf(rpc \in Watching, rage) /\ rnow' = OlderIf(rpc = "when", rnow)
    /\ UNCHANGED <<created, wpc, lapsed, tpc, listed, spc, screated, rpc, rcreated>>

Writer == StorageCreate \/ ToucherCreate \/ AddStorage \/ Die \/ TouchClock \/ TouchStore
Users  == SenderOpen \/ SenderWhen \/ SenderCheck \/ ReaderOpen \/ ReaderClock \/ ReaderCheck

Next == Writer \/ Users \/ Tick

Spec == Init /\ [][Next]_vars

-----------------------------------------------------------------------------
Age == 0..Cap

(* Nobody reports as orphaned a storage whose writer has been alive all    *)
(* the time: for the sender if ORPHAN-TIMEOUT covers a delay between its   *)
(* two reads, for the reader however long it is delayed (it reads the      *)
(* clock first).                                                           *)
NoFalseOrphan == ~lapsed => spc # "orphaned" /\ rpc # "orphaned"

(* The death of the writer is noticed by both within ORPHAN-TIMEOUT and    *)
(* the delays of their loops.                                              *)
DeathNoticed ==
    wpc = "dead" =>
        /\ gone > Timeout + 2 * SenderDelay => spc \notin Watching
        /\ gone > Timeout + 3 * ReaderDelay => rpc \notin Watching

(* Neither of them goes on for more than a round of its loop with a        *)
(* storage that was created again.                                         *)
RecreationNoticed ==
    /\ screated # created /\ cage > 2 * SenderDelay => spc \notin Watching
    /\ rcreated # created /\ cage > 2 * ReaderDelay => rpc \notin Watching
=============================================================================
