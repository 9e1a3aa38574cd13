------------------------------- MODULE Daemon -------------------------------
(***************************************************************************)
(* The process around a sender or a receiver (publisher.c, subscriber.c):  *)
(* the main thread runs the sender and counts what it sends, and a second  *)
(* thread watches for signals, prints the counts of every interval and     *)
(* rolls them over (sender_roll_stats, receiver_roll_stats), with the      *)
(* thread library underneath (thread.c) and the signal flags (signals.c).  *)
(* A packet adds a byte and then a packet to the counts of the interval.   *)
(***************************************************************************)
EXTENDS Integers

CONSTANT MaxSent    \* bound on the packets sent

VARIABLES
    mpc,            \* where the main thread is
    tpc,            \* where the statistics thread is
    raised,         \* is_raised, for any of the handled signals
    is_stopping,    \* of the sender or receiver
    stopping, running, memory,      \* of struct thread
    lock,           \* stats_lock
    stats, next,    \* the two buffers, and which of them is next_stats
    sent,           \* packets sent
    shown,          \* what has been printed, over all intervals
    curr_is         \* history: curr_stats, "waiting" to be printed or "printed"

thread == <<stopping, running, memory>>
counts == <<lock, stats, next, sent, shown, curr_is>>
vars   == <<mpc, tpc, raised, is_stopping, thread, counts>>

Zero == [bytes |-> 0, packets |-> 0]
curr == 1 - next

Init ==
    /\ mpc = "create" /\ tpc = "none" /\ raised = FALSE /\ is_stopping = FALSE
    /\ stopping = FALSE /\ running = FALSE /\ memory = "none"
    /\ lock = "free" /\ stats = [b \in {0, 1} |-> Zero] /\ next = 0
    /\ sent = 0 /\ shown = Zero /\ curr_is = "waiting"

-----------------------------------------------------------------------------
(* The main thread.  thread_create starts the thread before it marks it as *)
(* running.                                                                *)
ThreadCreate ==
    /\ mpc = "create" /\ mpc' = "mark"
    /\ memory' = "live" /\ tpc' = "test"
    /\ UNCHANGED <<raised, is_stopping, stopping, running, counts>>

MarkRunning ==
    /\ mpc = "mark" /\ mpc' = "begin"
    /\ running' = TRUE
    /\ UNCHANGED <<tpc, raised, is_stopping, stopping, memory, counts>>

(* mutant: entering the loop forgets a stop that came early *)
RunBegin_Resets ==
    /\ mpc = "begin" /\ mpc' = "run" /\ is_stopping' = FALSE
    /\ UNCHANGED <<tpc, raised, thread, counts>>

(* sender_run, receiver_run *)
RunBegin ==
    /\ mpc = "begin" /\ mpc' = "run"
    /\ UNCHANGED <<tpc, raised, is_stopping, thread, counts>>

(* mcast_send_pkt's or mcast_on_read's counting, under stats_lock *)
CountLock ==
    /\ mpc = "run" /\ ~is_stopping /\ sent < MaxSent /\ lock = "free"
    /\ lock' = "main" /\ sent' = sent + 1 /\ mpc' = "bytes"
    /\ UNCHANGED <<tpc, raised, is_stopping, thread, stats, next, shown, curr_is>>

CountBytes ==
    /\ mpc = "bytes" /\ mpc' = "packets"
    /\ stats' = [stats EXCEPT ![next].bytes = @ + 1]
    /\ UNCHANGED <<tpc, raised, is_stopping, thread, lock, next, sent, shown, curr_is>>

CountPackets ==
    /\ mpc = "packets" /\ mpc' = "run"
    /\ stats' = [stats EXCEPT ![next].packets = @ + 1]
    /\ lock' = "free"
    /\ UNCHANGED <<tpc, raised, is_stopping, thread, next, sent, shown, curr_is>>

(* WILL_QUIT_SEQ makes a receiver stop by itself. *)
ToldToQuit ==
    /\ mpc = "run" /\ ~is_stopping
    /\ is_stopping' = TRUE
    /\ UNCHANGED <<mpc, tpc, raised, thread, counts>>

(* The loop fails: a protocol error, an interrupted call.  The process     *)
(* ends at once (error_report_fatal).                                      *)
RunFails ==
    /\ mpc = "run" /\ mpc' = "exit" /\ tpc' = "killed"
    /\ UNCHANGED <<raised, is_stopping, thread, counts>>

(* The loop ends; thread_stop *)
ThreadStop ==
    /\ mpc = "run" /\ is_stopping /\ mpc' = "join"
    /\ stopping' = TRUE
    /\ UNCHANGED <<tpc, raised, is_stopping, running, memory, counts>>

(* pthread_join *)
Join ==
    /\ mpc = "join" /\ tpc = "end" /\ mpc' = "destroy"
    /\ running' = FALSE
    /\ UNCHANGED <<tpc, raised, is_stopping, stopping, memory, counts>>

(* thread_destroy stops a thread that is still marked as running. *)
ThreadDestroy ==
    /\ mpc = "destroy"
    /\ IF running THEN mpc' = "join" /\ stopping' = TRUE /\ UNCHANGED memory
       ELSE mpc' = "exit" /\ memory' = "freed" /\ UNCHANGED stopping
    /\ UNCHANGED <<tpc, raised, is_stopping, running, counts>>

Main ==
    \/ ThreadCreate \/ MarkRunning \/ RunBegin \/ CountLock \/ CountBytes
    \/ CountPackets \/ ThreadStop \/ Join \/ ThreadDestroy

-----------------------------------------------------------------------------
(* The statistics thread: stats_func inside wrapper_fn. *)
Goto(from, to) == tpc = from /\ tpc' = to

TestStopping ==
    /\ Goto("test", IF stopping THEN "quit" ELSE "signal")
    /\ UNCHANGED <<mpc, raised, is_stopping, thread, counts>>

(* signal_any_raised *)
AnyRaised ==
    /\ Goto("signal", IF raised THEN "quit" ELSE "sleep")
    /\ UNCHANGED <<mpc, raised, is_stopping, thread, counts>>

(* clock_sleep; a signal may or may not interrupt this thread. *)
Sleep ==
    /\ Goto("sleep", "show") \/ (raised /\ Goto("sleep", "quit"))
    /\ UNCHANGED <<mpc, raised, is_stopping, thread, counts>>

(* output_std, output_json, output_stg: curr_stats, without the lock *)
ShowBytes ==
    /\ Goto("show", "showPackets")
    /\ shown' = [shown EXCEPT !.bytes = @ + stats[curr].bytes]
    /\ UNCHANGED <<mpc, raised, is_stopping, thread, lock, stats, next, sent, curr_is>>

ShowPackets ==
    /\ Goto("showPackets", "roll")
    /\ shown' = [shown EXCEPT !.packets = @ + stats[curr].packets]
    /\ curr_is' = "printed"
    /\ UNCHANGED <<mpc, raised, is_stopping, thread, lock, stats, next, sent>>

(* mutant: the buffers are swapped without the lock *)
RollLock_Untaken ==
    /\ Goto("roll", "swap")
    /\ UNCHANGED <<mpc, raised, is_stopping, thread, counts>>

(* roll_stats: the buffers change places and the new next one is zeroed *)
RollLock ==
    /\ Goto("roll", "swap") /\ lock = "free" /\ lock' = "stats"
    /\ UNCHANGED <<mpc, raised, is_stopping, thread, stats, next, sent, shown, curr_is>>

(* spin_write_lock gives up: the thread ends and the counts stay unrolled. *)
RollFails ==
    /\ Goto("roll", "quit") /\ lock # "free"
    /\ UNCHANGED <<mpc, raised, is_stopping, thread, counts>>

RollSwap ==
    /\ Goto("swap", "zero") /\ next' = curr /\ curr_is' = "waiting"
    /\ UNCHANGED <<mpc, raised, is_stopping, thread, lock, stats, sent, shown>>

RollZero ==
    /\ Goto("zero", "flush")
    /\ stats' = [stats EXCEPT ![next] = Zero] /\ lock' = "free"
    /\ UNCHANGED <<mpc, raised, is_stopping, thread, next, sent, shown, curr_is>>

(* fflush may fail. *)
Flush ==
    /\ Goto("flush", "test") \/ Goto("flush", "quit")
    /\ UNCHANGED <<mpc, raised, is_stopping, thread, counts>>

(* sender_stop, receiver_stop *)
StopRun ==
    /\ Goto("quit", "unmark") /\ is_stopping' = TRUE
    /\ UNCHANGED <<mpc, raised, thread, counts>>

(* The last use of struct thread. *)
MarkStopped ==
    /\ Goto("unmark", "end") /\ running' = FALSE
    /\ UNCHANGED <<mpc, raised, is_stopping, stopping, memory, counts>>

Stats ==
    \/ TestStopping \/ AnyRaised \/ Sleep \/ ShowBytes \/ ShowPackets
    \/ RollLock \/ RollFails \/ RollSwap \/ RollZero \/ Flush \/ StopRun \/ MarkStopped

(* on_signal *)
Signal ==
    /\ ~raised /\ mpc # "exit" /\ raised' = TRUE
    /\ UNCHANGED <<mpc, tpc, is_stopping, thread, counts>>

Next == Main \/ ToldToQuit \/ RunFails \/ Stats \/ Signal

Spec == Init /\ [][Next]_vars

(* Both threads are scheduled; a signal, an error and the farewell of the  *)
(* other side need not come.                                               *)
FairSpec == Spec /\ WF_vars(Main) /\ WF_vars(Stats)

-----------------------------------------------------------------------------
(* Every packet is counted in exactly one interval: what has been printed, *)
(* what waits to be printed and what the running interval holds add up to  *)
(* what was sent, for the bytes and for the packets (sender_roll_stats and *)
(* mcast_send_pkt under stats_lock).                                       *)
Waiting == IF curr_is = "printed" THEN Zero ELSE stats[curr]

EachCountedOnce ==
    mpc \notin {"bytes", "packets"} /\ tpc \notin {"showPackets", "zero", "swap", "killed"} =>
        /\ shown.bytes + Waiting.bytes + stats[next].bytes = sent
        /\ shown.packets + Waiting.packets + stats[next].packets = sent

(* The memory of a thread is not freed before its last use by the thread   *)
(* itself (thread_destroy, wrapper_fn).                                    *)
NoUseAfterFree == memory = "freed" => tpc = "end"

(* A handled signal ends the process, whenever it comes. *)
SignalEnds == raised ~> mpc = "exit"
=============================================================================
