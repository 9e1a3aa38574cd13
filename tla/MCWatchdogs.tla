----------------------------- MODULE MCWatchdogs -----------------------------
(***************************************************************************)
(* The two watchdogs in discrete time, for TLC: the one over the other     *)
(* side of a connection (Heartbeat) and the one over the writer of a       *)
(* storage (Orphan).  They share no variable, so each behaviour is one of  *)
(* a single part, which is chosen at the beginning; the variables of the   *)
(* other stay as they are.                                                 *)
(***************************************************************************)
EXTENDS Heartbeat

CONSTANTS
    Period, OrphanTimeout, TouchDelay, SenderDelay, ReaderDelay, OrphanCap,
    Eager, MaxCreated

VARIABLES
    watchdog,       \* the part
    touched, created, cage, wpc, gone, tpc, tage, stamp, listed,
    spc, sage, swhen, screated, rpc, rage, rnow, rcreated, lapsed

O == INSTANCE Orphan WITH Timeout <- OrphanTimeout, Cap <- OrphanCap

ASSUME WatchdogAssumption == HeartbeatAssumption /\ O!OrphanAssumption

orphan    == <<touched, created, cage, wpc, gone, tpc, tage, stamp, listed,
               spc, sage, swhen, screated, rpc, rage, rnow, rcreated, lapsed>>
heartbeat == <<alive, silent, mcast_send, tcp_send, staged, lost, mcast_way, tcp_way,
               mcast_in, tcp_in, running, heard, mcast_recv, tcp_recv, sround, rround>>
watchdogs == <<watchdog, orphan, heartbeat>>

WatchdogInit ==
    /\ watchdog \in {"orphan", "heartbeat"} /\ O!Init /\ Init
    /\ watchdog = "orphan" => mcast_send = 0

WatchdogNext ==
    \/ watchdog = "orphan" /\ O!Next /\ UNCHANGED <<watchdog, heartbeat>>
    \/ watchdog = "heartbeat" /\ Next /\ UNCHANGED <<watchdog, orphan>>

WatchdogSpec == WatchdogInit /\ [][WatchdogNext]_watchdogs

-----------------------------------------------------------------------------
(* Nobody reports as orphaned a storage whose writer has been alive all    *)
(* the time (sender_run, reader.c).                                        *)
NoFalseOrphan == O!NoFalseOrphan

(* A writer's death is noticed within ORPHAN-TIMEOUT and the delays of the *)
(* loops, and its storage created again within a round.                    *)
WriterLossNoticed == O!DeathNoticed /\ O!RecreationNoticed
=============================================================================
