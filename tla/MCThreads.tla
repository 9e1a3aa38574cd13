------------------------------ MODULE MCThreads ------------------------------
(***************************************************************************)
(* The threads and goroutines that run beside a main loop, for TLC: the    *)
(* statistics thread of publisher and subscriber, the toucher, the advert, *)
(* a goroutine that stops a command, the Go library's index and pubmux's   *)
(* search for storages.  They share no variable, so each behaviour is one  *)
(* of a single part, which is chosen at the beginning; the variables of    *)
(* the others stay as they are.                                            *)
(***************************************************************************)
EXTENDS Naturals, Sequences

CONSTANTS
    MaxSent,                                \* of Daemon
    Stores, Senders, Nobody,                \* of Toucher and Advert
    Commands, MaxLaunch,                    \* of CommanderStop
    Updaters, Lookers, Types, NStores, Slots, \* of Index
    Path, Other, Sub, EventLimit            \* of Discovery

VARIABLES
    part,
    d_mpc, d_tpc, d_raised, d_is_stopping, d_stopping, d_running, d_memory,
    d_lock, d_stats, d_next, d_sent, d_shown, d_curr_is,
    t_targets, t_open, t_stuck, t_lock, t_opc, t_job, t_tpc, t_rest, t_stopping,
    a_notices, a_json_msg, a_lock, a_opc, a_job, a_new_msg, a_tpc, a_sending, a_stopping, a_sock,
    a_stale,
    c_pc, c_AutoRestart, c_LaunchCount, c_Cmd, c_alive, c_spc, c_signalled, c_before,
    i_type, i_used, i_index, i_maxRecord, i_lock, i_pc, i_at, i_cur, i_asking,
    i_filled, i_overlapped, i_kept,
    f_pc, f_at, f_walk, f_todo, f_watched, f_paths, f_events, f_offered, f_present,
    f_started, f_walked, f_gap, f_lost

(* Nobody holds a lock that is free. *)
ASSUME ThreadsAssumption == Nobody \notin {"owner", "thread"}

D == INSTANCE Daemon WITH
        mpc <- d_mpc, tpc <- d_tpc, raised <- d_raised, is_stopping <- d_is_stopping,
        stopping <- d_stopping, running <- d_running, memory <- d_memory, lock <- d_lock,
        stats <- d_stats, next <- d_next, sent <- d_sent, shown <- d_shown,
        curr_is <- d_curr_is

T == INSTANCE Toucher WITH
        targets <- t_targets, open <- t_open, stuck <- t_stuck, lock <- t_lock, opc <- t_opc,
        job <- t_job, tpc <- t_tpc, rest <- t_rest, stopping <- t_stopping

A == INSTANCE Advert WITH
        notices <- a_notices, json_msg <- a_json_msg, lock <- a_lock, opc <- a_opc,
        job <- a_job, new_msg <- a_new_msg, tpc <- a_tpc, sending <- a_sending,
        stopping <- a_stopping, sock <- a_sock, stale <- a_stale

C == INSTANCE CommanderStop WITH
        pc <- c_pc, AutoRestart <- c_AutoRestart, LaunchCount <- c_LaunchCount, Cmd <- c_Cmd,
        alive <- c_alive, spc <- c_spc, signalled <- c_signalled, before <- c_before

I == INSTANCE Index WITH
        Free <- Nobody, type <- i_type, used <- i_used, index <- i_index,
        maxRecord <- i_maxRecord, lock <- i_lock, pc <- i_pc, at <- i_at, cur <- i_cur,
        asking <- i_asking, filled <- i_filled, overlapped <- i_overlapped, kept <- i_kept

(* Two paths, one with a subdirectory; one name is used twice. *)
F == INSTANCE Discovery WITH
        Paths <- <<Path, Other>>,
        Subs <- [d \in {Path, Other} |-> IF d = Path THEN {Sub} ELSE {}],
        Files <- {[dir |-> Path, name |-> 1], [dir |-> Sub, name |-> 2],
                  [dir |-> Other, name |-> 1]},
        fpc <- f_pc, at <- f_at, walk <- f_walk, todo <- f_todo, watched <- f_watched,
        paths <- f_paths, events <- f_events, offered <- f_offered, present <- f_present,
        started <- f_started, walked <- f_walked, gap <- f_gap, lost <- f_lost

d_vars == <<d_mpc, d_tpc, d_raised, d_is_stopping, d_stopping, d_running, d_memory,
            d_lock, d_stats, d_next, d_sent, d_shown, d_curr_is>>
t_vars == <<t_targets, t_open, t_stuck, t_lock, t_opc, t_job, t_tpc, t_rest, t_stopping>>
a_vars == <<a_notices, a_json_msg, a_lock, a_opc, a_job, a_new_msg, a_tpc, a_sending,
            a_stopping, a_sock, a_stale>>
c_vars == <<c_pc, c_AutoRestart, c_LaunchCount, c_Cmd, c_alive, c_spc, c_signalled, c_before>>
i_vars == <<i_type, i_used, i_index, i_maxRecord, i_lock, i_pc, i_at, i_cur, i_asking,
            i_filled, i_overlapped, i_kept>>
f_vars == <<f_pc, f_at, f_walk, f_todo, f_watched, f_paths, f_events, f_offered, f_present,
            f_started, f_walked, f_gap, f_lost>>
threads == <<part, d_vars, t_vars, a_vars, c_vars, i_vars, f_vars>>

ThreadsInit ==
    /\ part \in {"daemon", "toucher", "advert", "commander", "index", "files"}
    /\ D!Init /\ T!Init /\ A!Init /\ C!Init /\ I!Init /\ F!Init
    /\ part # "index" => i_type = CHOOSE t \in Types : TRUE

InDaemon    == part = "daemon" /\ UNCHANGED <<part, t_vars, a_vars, c_vars, i_vars, f_vars>>
InToucher   == part = "toucher" /\ UNCHANGED <<part, d_vars, a_vars, c_vars, i_vars, f_vars>>
InAdvert    == part = "advert" /\ UNCHANGED <<part, d_vars, t_vars, c_vars, i_vars, f_vars>>
InCommander == part = "commander" /\ UNCHANGED <<part, d_vars, t_vars, a_vars, i_vars, f_vars>>
InIndex     == part = "index" /\ UNCHANGED <<part, d_vars, t_vars, a_vars, c_vars, f_vars>>
InFiles     == part = "files" /\ UNCHANGED <<part, d_vars, t_vars, a_vars, c_vars, i_vars>>

ThreadsNext ==
    \/ InDaemon /\ D!Next
    \/ InToucher /\ T!Next
    \/ InAdvert /\ A!Next
    \/ InCommander /\ C!Next
    \/ InIndex /\ I!Next
    \/ InFiles /\ F!Next

(* Threads and goroutines are scheduled, a call that has begun goes on, a  *)
(* lock that comes free again and again is taken in the end, a mutex does  *)
(* not starve its waiters, and a process obeys its signal.  A signal, an   *)
(* error, a call and the farewell of the other side need not come.         *)
ThreadsSpec ==
    /\ ThreadsInit /\ [][ThreadsNext]_threads
    /\ WF_threads(InDaemon /\ D!Main) /\ WF_threads(InDaemon /\ D!Stats)
    /\ WF_threads(InToucher /\ T!Finishing) /\ WF_threads(InToucher /\ T!Thread)
    /\ SF_threads(InToucher /\ T!Lock)
    /\ WF_threads(InAdvert /\ A!Finishing) /\ WF_threads(InAdvert /\ A!Thread)
    /\ SF_threads(InAdvert /\ A!Lock)
    /\ \A c \in Commands :
          /\ WF_threads(InCommander /\ C!Up /\ C!RunStep(c))
          /\ WF_threads(InCommander /\ C!Up /\ C!StopStep(c))
          /\ WF_threads(InCommander /\ C!Up /\ c_signalled[c] /\ C!Ends(c))
    /\ \A u \in Updaters : SF_threads(InIndex /\ I!Step(u))
    /\ \A l \in Lookers : SF_threads(InIndex /\ I!Answer(l))
    /\ WF_threads(InFiles /\ F!Loop) /\ WF_threads(InFiles /\ F!ReadEvent)

-----------------------------------------------------------------------------
(* No count is lost or doubled when the statistics thread rolls the        *)
(* counters over (sender_roll_stats, receiver_roll_stats).                 *)
EachCountedOnce == D!EachCountedOnce

(* No thread uses what another has given up: thread_destroy frees nothing  *)
(* the statistics thread still uses, and the toucher writes to no storage  *)
(* that its owner has closed (toucher_remove_storage, touch_func).         *)
NoUseAfterFree == D!NoUseAfterFree /\ T!TouchesOnlyOpen

(* A handled signal ends publisher or subscriber, whenever it comes        *)
(* (signal_any_raised, sender_stop, thread_stop).                          *)
SignalEnds == D!SignalEnds

(* What stays listed is served again and again: a storage on the toucher's *)
(* list is touched (touch_func), a published sender advertised             *)
(* (mcast_func), and a storage that pubmux is to publish gets a publisher, *)
(* but for those Discovered names (discoveryLoop).                         *)
ServedAgain == T!TouchedAgain /\ A!AdvertisedAgain /\ F!Discovered

(* The advert sends the live message, and a sender whose advert_retract    *)
(* has returned OK no more (make_json_map, mcast_func).                    *)
SendsTheCurrent == A!SendsTheCurrent

(* When StopWithSignal has returned without an error nothing runs and      *)
(* nothing will, and whatever it answers at most one more launch happens.  *)
StopIsFinal == C!StopIsFinal /\ C!OneMoreLaunch

(* Stopping comes back: toucher_destroy and advert_stop always, and        *)
(* StopWithSignal unless the process could not be started.                 *)
StopReturns == T!StopReturns /\ A!StopReturns /\ C!StopReturns

(* A lookup in the index returns, unless an Update kept the mutex, which   *)
(* it does only when it meets a record a second time.                      *)
LookupReturns == I!LookupReturns
=============================================================================
