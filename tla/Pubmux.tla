------------------------------- MODULE Pubmux -------------------------------
(***************************************************************************)
(* pubmux: the supervisor that runs a publisher for every storage it finds *)
(* (pubmux/main.go), gives each a multicast address and every launch a TCP *)
(* port (pubmux/addrs.go).  One goroutine discovers storages, and one per  *)
(* storage is in Command.Run.  Ports and addresses are numbered from 0.    *)
(***************************************************************************)
EXTENDS Naturals, FiniteSets

CONSTANTS
    Names,          \* storages
    RangeSizes,     \* numbers of ports the flags may give the range
    AddressCount,   \* multicast addresses (256 values of the third octet)
    restartOnExit,
    MaxLaunch,      \* bound on the launches of each publisher
    None

Ports     == UNION {0..(size - 1) : size \in RangeSizes}
Addresses == 0..(AddressCount - 1)

ASSUME PubmuxAssumption ==
    /\ RangeSizes \subseteq Nat \ {0} /\ AddressCount \in Nat \ {0}
    /\ MaxLaunch \in [Names -> Nat]
    /\ restartOnExit \in BOOLEAN /\ None \notin Ports \cup Addresses \cup Names

VARIABLES
    pc, AutoRestart, LaunchCount, Cmd, alive,   \* the publishers' commands
    publishers,     \* names that have an entry in the map
    baseMCastGroup, addr,           \* the next address; the one of each name
    rangeSize, counter, inUse, port \* portPicker; state.port of each name

commands == <<pc, AutoRestart, LaunchCount, Cmd, alive>>
muxing   == <<publishers, baseMCastGroup, addr, rangeSize, counter, inUse, port>>
pubVars  == <<commands, muxing>>

C == INSTANCE Commander WITH Commands <- Names

InRange == 0..(rangeSize - 1)

PubInit ==
    /\ C!RunInit
    /\ publishers = {}
    /\ baseMCastGroup = 0 /\ addr = [n \in Names |-> None]
    /\ rangeSize \in RangeSizes /\ counter \in InRange
    /\ inUse = {} /\ port = [n \in Names |-> None]

-----------------------------------------------------------------------------
addrsAssigned == {addr[n] : n \in Names} \ {None}

(* mutant: the address is not looked up among those assigned *)
FirstUnassigned_Base == IF Cardinality(addrsAssigned) = AddressCount THEN None
                        ELSE baseMCastGroup

(* getMcastAddrFor: the first unassigned address from the last one on, if  *)
(* any                                                                     *)
FirstUnassigned ==
    LET Nth(x) == (baseMCastGroup + x) % AddressCount
        free == {x \in Addresses : Nth(x) \notin addrsAssigned}
    IN  IF free = {} THEN None ELSE Nth(CHOOSE x \in free : \A y \in free : x <= y)

(* startIfNeeded.  A name for which there is no address keeps its empty    *)
(* entry: it is not tried again.                                           *)
StartIfNeeded(n) ==
    /\ n \notin publishers /\ publishers' = publishers \cup {n}
    /\ addr' = [addr EXCEPT ![n] = FirstUnassigned]
    /\ IF FirstUnassigned = None THEN UNCHANGED <<commands, baseMCastGroup>>
       ELSE baseMCastGroup' = FirstUnassigned /\ C!New(n, restartOnExit)
    /\ UNCHANGED <<rangeSize, counter, inUse, port>>

(* reservePort: the first free port from the counter on, if any *)
FirstFree ==
    LET Nth(x) == (counter + x) % rangeSize
        free == {x \in InRange : Nth(x) \notin inUse}
    IN  IF free = {} THEN None ELSE Nth(CHOOSE x \in free : \A y \in free : x <= y)

(* BeforeStart: the port is part of the arguments of the launch. *)
BeforeStart(n) ==
    /\ C!Launch(n, FirstFree # None)
    /\ port' = [port EXCEPT ![n] = FirstFree]
    /\ IF FirstFree = None THEN UNCHANGED <<inUse, counter>>
       ELSE inUse' = inUse \cup {FirstFree} /\ counter' = FirstFree
    /\ UNCHANGED <<publishers, baseMCastGroup, addr, rangeSize>>

(* mutant: the port is released only when the publisher will not restart *)
AfterStop_Keeps(n) ==
    /\ C!AfterStop(n, TRUE)
    /\ inUse' = IF AutoRestart[n] THEN inUse ELSE inUse \ {port[n]}
    /\ port' = [port EXCEPT ![n] = None]
    /\ UNCHANGED <<publishers, baseMCastGroup, addr, rangeSize, counter>>

(* AfterStop, with releasePort *)
AfterStop(n) ==
    /\ C!AfterStop(n, TRUE)
    /\ inUse' = inUse \ {port[n]} /\ port' = [port EXCEPT ![n] = None]
    /\ UNCHANGED <<publishers, baseMCastGroup, addr, rangeSize, counter>>

(* The rest of Run; pubmux installs no AfterStart. *)
Running(n) ==
    /\ \/ C!Loop(n) \/ C!InitCmd(n) \/ C!Start(n) \/ C!AfterStart(n, TRUE)
       \/ C!Wait(n) \/ C!Close(n)
    /\ UNCHANGED muxing

(* The program cannot be started; Run returns and the port stays reserved. *)
CannotStart(n) == C!StartFails(n) /\ UNCHANGED muxing

(* A publisher ends by itself a bounded number of times. *)
PublisherExits(n) == LaunchCount[n] < MaxLaunch[n] /\ C!Exit(n) /\ UNCHANGED muxing

Supervise(n) == BeforeStart(n) \/ AfterStop(n) \/ Running(n)

-----------------------------------------------------------------------------
(* No two publishers that run at the same time share a port, and no two    *)
(* ever share a multicast address (reservePort, getMcastAddrFor).          *)
NothingShared ==
    \A n, m \in Names : n # m =>
        /\ alive[n] /\ alive[m] => port[n] # port[m]
        /\ addr[n] = addr[m] => addr[n] = None

(* The ports in use are those of the publishers that were launched and     *)
(* have not been seen to end: none leaks over any number of restarts.      *)
(* (A publisher that could not be started keeps its port.)                 *)
NoPortLeaks == inUse = {port[n] : n \in Names} \ {None}

=============================================================================
