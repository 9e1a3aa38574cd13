--------------------------- MODULE CommanderStop ---------------------------
(***************************************************************************)
(* Command.StopWithSignal called on a command while another goroutine is   *)
(* in Command.Run (commander.go).  The two share AutoRestart and Cmd       *)
(* without a lock; the channel stopped is closed at the end of Run.        *)
(***************************************************************************)
EXTENDS Commander

CONSTANT MaxLaunch      \* bound on the launches of a command

VARIABLES
    spc,                \* where StopWithSignal is
    signalled,          \* the process has been sent the signal
    before              \* LaunchCount when AutoRestart was cleared

stop == <<spc, signalled, before>>
vars == <<run, stop>>

Init ==
    /\ pc = [c \in Commands |-> "loop"] /\ AutoRestart = [c \in Commands |-> TRUE]
    /\ LaunchCount = [c \in Commands |-> 0] /\ Cmd = [c \in Commands |-> "nil"]
    /\ alive = [c \in Commands |-> FALSE]
    /\ spc = [c \in Commands |-> "none"] /\ signalled = [c \in Commands |-> FALSE]
    /\ before = [c \in Commands |-> 0]

StopGoto(c, from, to) == spc[c] = from /\ spc' = [spc EXCEPT ![c] = to]

-----------------------------------------------------------------------------
ClearAutoRestart(c) ==
    /\ StopGoto(c, "none", "test")
    /\ AutoRestart' = [AutoRestart EXCEPT ![c] = FALSE]
    /\ before' = [before EXCEPT ![c] = LaunchCount[c]]
    /\ UNCHANGED <<pc, LaunchCount, Cmd, alive, signalled>>

TestRunning(c) ==
    /\ StopGoto(c, "test", IF Cmd[c] = "nil" THEN "notRunning" ELSE "signal")
    /\ UNCHANGED <<run, signalled, before>>

(* SendSignal.  There is nothing to signal if Cmd has become nil.  A Cmd   *)
(* that has no process yet, or that becomes nil after the test for it,     *)
(* ends the program with a nil dereference.                                *)
SendSignal(c) ==
    /\ \/ Cmd[c] # "made" /\ StopGoto(c, "signal", "await")
       \/ Cmd[c] # "process" /\ StopGoto(c, "signal", "crashed")
    /\ signalled' = [signalled EXCEPT ![c] = @ \/ Cmd[c] = "process"]
    /\ UNCHANGED <<run, before>>

(* mutant: the stop does not wait for the end of Run *)
AwaitStopped_Not(c) ==
    /\ StopGoto(c, "await", "returned")
    /\ UNCHANGED <<run, signalled, before>>

(* <-c.stopped *)
AwaitStopped(c) ==
    /\ pc[c] = "done" /\ StopGoto(c, "await", "returned")
    /\ UNCHANGED <<run, signalled, before>>

(* Stop is called once, at any time. *)
StopStep(c) == TestRunning(c) \/ SendSignal(c) \/ AwaitStopped(c)

(* mutant: the channel is closed only when the process ended well *)
RunClose_Sometimes(c) == Close(c) /\ ~signalled[c] /\ UNCHANGED stop

RunClose(c) == Close(c) /\ UNCHANGED stop

RunStep(c) ==
    \/ /\ \/ Loop(c) \/ InitCmd(c) \/ Start(c) \/ StartFails(c) \/ Wait(c)
          \/ \E ok \in BOOLEAN : Launch(c, ok) \/ AfterStart(c, ok) \/ AfterStop(c, ok)
       /\ UNCHANGED stop
    \/ RunClose(c)

(* A process may end by itself a bounded number of times; once it has the  *)
(* signal it ends.                                                         *)
Ends(c) == (signalled[c] \/ LaunchCount[c] < MaxLaunch) /\ Exit(c) /\ UNCHANGED stop

(* After a crash of the program nothing goes on. *)
Up == \A c \in Commands : spc[c] # "crashed"

Next == Up /\ \E c \in Commands :
            RunStep(c) \/ Ends(c) \/ ClearAutoRestart(c) \/ StopStep(c)

Spec == Init /\ [][Next]_vars

(* The goroutines are scheduled, and a process obeys the signal. *)
FairSpec ==
    /\ Spec
    /\ \A c \in Commands :
        /\ WF_vars(Up /\ RunStep(c)) /\ WF_vars(Up /\ StopStep(c))
        /\ WF_vars(Up /\ signalled[c] /\ Ends(c))

-----------------------------------------------------------------------------
(* When a stop has returned without an error no process runs, and Run is   *)
(* over, so that none will: an answer of StopWithSignal is final.          *)
StopIsFinal == \A c \in Commands : spc[c] = "returned" => ~alive[c] /\ pc[c] = "done"

(* A stop that comes while Run is between two processes, and is told that  *)
(* nothing runs, may be followed by one more launch but by no second one   *)
(* (the loop of Run tests AutoRestart before every launch).                *)
OneMoreLaunch ==
    \A c \in Commands : spc[c] # "none" => LaunchCount[c] <= before[c] + 1

(* A stop that waits comes back, unless the process could not be started:  *)
(* Run then returns without closing stopped.                               *)
StopReturns ==
    \A c \in Commands :
        spc[c] = "await" ~> (spc[c] = "returned" \/ pc[c] = "returned" \/ ~Up)
=============================================================================
