----------------------------- MODULE Commander -----------------------------
(***************************************************************************)
(* Command.Run of the Go package commander: the goroutine that launches a  *)
(* process, waits for it and, with AutoRestart, launches it again.  What   *)
(* the hooks BeforeStart, AfterStart and AfterStop answer is a parameter   *)
(* of the step that calls them, so that the programs that install them can *)
(* say what they do.                                                       *)
(***************************************************************************)
EXTENDS Naturals

CONSTANT Commands

VARIABLES
    pc,             \* where Run is
    AutoRestart, LaunchCount,
    Cmd,            \* "nil", "made" (initCmd) or "process"
    alive           \* the process runs

run == <<pc, AutoRestart, LaunchCount, Cmd, alive>>

RunInit ==
    /\ pc = [c \in Commands |-> "none"] /\ AutoRestart = [c \in Commands |-> FALSE]
    /\ LaunchCount = [c \in Commands |-> 0] /\ Cmd = [c \in Commands |-> "nil"]
    /\ alive = [c \in Commands |-> FALSE]

Goto(c, from, to) == pc[c] = from /\ pc' = [pc EXCEPT ![c] = to]

(* New, and go Run *)
New(c, auto) ==
    /\ pc' = [pc EXCEPT ![c] = "loop"]
    /\ AutoRestart' = [AutoRestart EXCEPT ![c] = auto]
    /\ LaunchCount' = [LaunchCount EXCEPT ![c] = 0]
    /\ Cmd' = [Cmd EXCEPT ![c] = "nil"] /\ UNCHANGED alive

-----------------------------------------------------------------------------
(* The condition of the loop; then the pause after a short run. *)
Loop(c) ==
    /\ Goto(c, "loop", IF AutoRestart[c] \/ LaunchCount[c] = 0 THEN "pause" ELSE "close")
    /\ UNCHANGED <<AutoRestart, LaunchCount, Cmd, alive>>

(* The pause ends and BeforeStart is called; an error ends the loop. *)
Launch(c, ok) ==
    /\ Goto(c, "pause", IF ok THEN "make" ELSE "close")
    /\ LaunchCount' = [LaunchCount EXCEPT ![c] = @ + 1]
    /\ UNCHANGED <<AutoRestart, Cmd, alive>>

InitCmd(c) ==
    /\ Goto(c, "make", "start")
    /\ Cmd' = [Cmd EXCEPT ![c] = "made"]
    /\ UNCHANGED <<AutoRestart, LaunchCount, alive>>

Start(c) ==
    /\ Goto(c, "start", "started")
    /\ Cmd' = [Cmd EXCEPT ![c] = "process"] /\ alive' = [alive EXCEPT ![c] = TRUE]
    /\ UNCHANGED <<AutoRestart, LaunchCount>>

(* Run returns at once: AfterStop is not called and stopped not closed. *)
StartFails(c) ==
    /\ Goto(c, "start", "returned")
    /\ Cmd' = [Cmd EXCEPT ![c] = "nil"]
    /\ UNCHANGED <<AutoRestart, LaunchCount, alive>>

(* AfterStart is called; an error kills the process and waits for it. *)
AfterStart(c, ok) ==
    /\ Goto(c, "started", IF ok THEN "wait" ELSE "killed")
    /\ IF ok THEN UNCHANGED <<Cmd, alive>>
       ELSE Cmd' = [Cmd EXCEPT ![c] = "nil"] /\ alive' = [alive EXCEPT ![c] = FALSE]
    /\ UNCHANGED <<AutoRestart, LaunchCount>>

(* The process ends, by itself or by a signal. *)
Exit(c) ==
    /\ alive[c] /\ alive' = [alive EXCEPT ![c] = FALSE]
    /\ UNCHANGED <<pc, AutoRestart, LaunchCount, Cmd>>

Wait(c) ==
    /\ ~alive[c] /\ Goto(c, "wait", "stopped")
    /\ Cmd' = [Cmd EXCEPT ![c] = "nil"]
    /\ UNCHANGED <<AutoRestart, LaunchCount, alive>>

(* AfterStop is called; an error ends the loop, and a killed process too. *)
AfterStop(c, ok) ==
    /\ Goto(c, "stopped", IF ok THEN "loop" ELSE "close") \/ Goto(c, "killed", "close")
    /\ UNCHANGED <<AutoRestart, LaunchCount, Cmd, alive>>

Close(c) ==
    /\ Goto(c, "close", "done")
    /\ Cmd' = [Cmd EXCEPT ![c] = "nil"]
    /\ UNCHANGED <<AutoRestart, LaunchCount, alive>>
=============================================================================
