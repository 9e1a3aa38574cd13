------------------------------- MODULE Submux -------------------------------
(***************************************************************************)
(* submux beside a pubmux: publishers advertise their description and port *)
(* (advert.c), and submux runs one subscriber for every description it     *)
(* hears of (submux/main.go).  An advertisement is a pair of a name and a  *)
(* port; it may be lost, repeated, or arrive after the publisher's end.    *)
(***************************************************************************)
EXTENDS Pubmux

CONSTANTS
    Wanted,         \* descriptions that match the patterns
    resubscribe,    \* submux's restartOnExit
    MaxFailures     \* bound on failures: of a subscriber by itself, or of submux

VARIABLES
    net,                    \* advertisements under way
    dpc, got,               \* the discovery loop, "ended" with submux, and what it has read
    ignore, subscribers, hasRun,
    goroutine, resets,      \* where each Subscriber.run is; those about to reset ignore
    spc, sAutoRestart, sLaunchCount, sCmd, sAlive,  \* the subscribers' commands
    sport, conn,            \* the port each was given; whom its process follows
    failures

subCommands == <<spc, sAutoRestart, sLaunchCount, sCmd, sAlive>>
discovery   == <<dpc, got, ignore, subscribers, hasRun, goroutine, resets>>
processes   == <<sport, conn, failures>>
subVars     == <<net, discovery, subCommands, processes>>
vars        == <<pubVars, subVars>>

S == INSTANCE Commander WITH Commands <- Names, pc <- spc, AutoRestart <- sAutoRestart,
        LaunchCount <- sLaunchCount, Cmd <- sCmd, alive <- sAlive

Adverts == Names \X Ports

Init ==
    /\ PubInit /\ S!RunInit
    /\ net = {} /\ dpc = "read" /\ got = None
    /\ ignore = {} /\ subscribers = {} /\ hasRun = {}
    /\ goroutine = [n \in Names |-> "none"] /\ resets = 0
    /\ sport = [n \in Names |-> None] /\ conn = [n \in Names |-> None] /\ failures = 0

-----------------------------------------------------------------------------
(* mcast_func of a publisher's advert *)
Advertise(n) ==
    /\ alive[n] /\ net' = net \cup {<<n, port[n]>>}
    /\ UNCHANGED <<pubVars, discovery, subCommands, processes>>

Lose(a) ==
    /\ a \in net /\ net' = net \ {a}
    /\ UNCHANGED <<pubVars, discovery, subCommands, processes>>

(* A publisher's end also ends its connections. *)
Exits(n) ==
    /\ PublisherExits(n)
    /\ conn' = [s \in Names |-> IF conn[s] = n THEN "ended" ELSE conn[s]]
    /\ UNCHANGED <<net, discovery, subCommands, sport, failures>>

Publishing(n) ==
    /\ StartIfNeeded(n) \/ Supervise(n) \/ CannotStart(n)
    /\ UNCHANGED subVars

-----------------------------------------------------------------------------
(* submux's discoveryLoop: an advertisement is read and, if its text is    *)
(* not to be ignored,                                                      *)
ReadAdvert(a) ==
    /\ dpc = "read" /\ a \in net /\ net' = net \ {a}
    /\ IF a \in ignore THEN UNCHANGED <<dpc, got>> ELSE dpc' = "mark" /\ got' = a
    /\ UNCHANGED <<pubVars, ignore, subscribers, hasRun, goroutine, resets, subCommands,
                   processes>>

(* it is to be ignored from now on                                         *)
MarkIgnored ==
    /\ dpc = "mark" /\ dpc' = "get" /\ ignore' = ignore \cup {got}
    /\ UNCHANGED <<pubVars, net, got, subscribers, hasRun, goroutine, resets, subCommands,
                   processes>>

(* mutant: every new text starts a subscriber *)
Fits_Again(n) == n \in Wanted /\ (resubscribe \/ n \notin hasRun)

Fits(n) == n \in Wanted /\ n \notin subscribers /\ (resubscribe \/ n \notin hasRun)

(* and, if there is no subscriber for its description, starts one.         *)
Subscribe ==
    LET n == got[1] IN
    /\ dpc = "get" /\ dpc' = "read" /\ got' = None
    /\ IF Fits(n)
       THEN /\ subscribers' = subscribers \cup {n} /\ hasRun' = hasRun \cup {n}
            /\ goroutine' = [goroutine EXCEPT ![n] = "run"]
            /\ sport' = [sport EXCEPT ![n] = got[2]] /\ conn' = [conn EXCEPT ![n] = None]
            /\ S!New(n, FALSE)
       ELSE UNCHANGED <<subscribers, hasRun, goroutine, sport, conn, subCommands>>
    /\ UNCHANGED <<pubVars, net, ignore, resets, failures>>

-----------------------------------------------------------------------------
(* Subscriber.run: Command.Run, with a BeforeStart that deletes the old    *)
(* storage,                                                                *)
RunCommand(n) ==
    /\ goroutine[n] = "run" /\ dpc # "ended"
    /\ \/ S!Loop(n) \/ S!Launch(n, TRUE) \/ S!InitCmd(n) \/ S!Start(n)
       \/ S!AfterStart(n, TRUE) \/ S!Wait(n) \/ S!AfterStop(n, TRUE) \/ S!Close(n)
    /\ UNCHANGED <<pubVars, net, discovery, processes>>

StartFails(n) ==
    /\ failures < MaxFailures /\ failures' = failures + 1
    /\ goroutine[n] = "run" /\ dpc # "ended" /\ S!StartFails(n)
    /\ UNCHANGED <<pubVars, net, discovery, sport, conn>>

(* mutant: the texts stay ignored *)
Delete_KeepsIgnored(n) ==
    /\ goroutine[n] = "run" /\ dpc # "ended" /\ spc[n] \in {"done", "returned"}
    /\ goroutine' = [goroutine EXCEPT ![n] = "none"]
    /\ subscribers' = subscribers \ {n}
    /\ UNCHANGED <<pubVars, net, dpc, got, ignore, hasRun, resets, subCommands, processes>>

(* then the entry is deleted                                               *)
Delete(n) ==
    /\ goroutine[n] = "run" /\ dpc # "ended" /\ spc[n] \in {"done", "returned"}
    /\ goroutine' = [goroutine EXCEPT ![n] = "none"]
    /\ subscribers' = subscribers \ {n} /\ resets' = resets + 1
    /\ UNCHANGED <<pubVars, net, dpc, got, ignore, hasRun, subCommands, processes>>

(* and after that no text is ignored any more.                             *)
ResetIgnore ==
    /\ resets > 0 /\ resets' = resets - 1 /\ ignore' = {}
    /\ UNCHANGED <<pubVars, net, dpc, got, subscribers, hasRun, goroutine, subCommands,
                   processes>>

(* An error that log.Fatalln reports ends submux, and leaves its           *)
(* subscribers running: no advertisement can be read or one has a wrong    *)
(* version, a host is not found, or an old storage cannot be deleted.      *)
FatalError ==
    /\ failures < MaxFailures /\ failures' = failures + 1
    /\ dpc \in {"read", "get"} \/ (dpc # "ended" /\ \E n \in Names : goroutine[n] = "run")
    /\ dpc' = "ended" /\ got' = None /\ resets' = 0 /\ ignore' = {}
    /\ UNCHANGED <<pubVars, net, subscribers, hasRun, goroutine, subCommands, sport, conn>>

(* The subscriber's process connects to whoever listens on its port, ...   *)
Connect(n, m) ==
    /\ sAlive[n] /\ conn[n] = None
    /\ alive[m] /\ port[m] = sport[n] /\ conn' = [conn EXCEPT ![n] = m]
    /\ UNCHANGED <<pubVars, net, discovery, subCommands, sport, failures>>

(* ... ends when nobody does, or when the connection ends, ...             *)
SubscriberEnds(n) ==
    /\ \/ conn[n] = "ended"
       \/ conn[n] = None /\ \A m \in Names : alive[m] => port[m] # sport[n]
    /\ S!Exit(n)
    /\ UNCHANGED <<pubVars, net, discovery, processes>>

(* ... or by itself.                                                       *)
SubscriberFails(n) ==
    /\ failures < MaxFailures /\ failures' = failures + 1
    /\ S!Exit(n)
    /\ UNCHANGED <<pubVars, net, discovery, sport, conn>>

-----------------------------------------------------------------------------
SubscriberStep(n) ==
    \/ RunCommand(n) \/ Delete(n) \/ SubscriberEnds(n)
    \/ \E m \in Names : Connect(n, m)

Next ==
    \/ \E a \in Adverts : Lose(a) \/ ReadAdvert(a)
    \/ MarkIgnored \/ Subscribe \/ ResetIgnore \/ FatalError
    \/ \E n \in Names : Publishing(n) \/ Advertise(n) \/ Exits(n) \/ SubscriberStep(n)
                        \/ StartFails(n) \/ SubscriberFails(n)

Spec == Init /\ [][Next]_vars

(* Goroutines and processes are scheduled, a publisher advertises again    *)
(* and again, and of advertisements sent for ever some are read (nothing   *)
(* is asked of the advertisements that match no pattern).                  *)
FairSpec ==
    /\ Spec
    /\ WF_vars(MarkIgnored) /\ WF_vars(Subscribe) /\ WF_vars(ResetIgnore)
    /\ \A n \in Names :
        WF_vars(SubscriberStep(n)) /\ WF_vars(Supervise(n) /\ UNCHANGED subVars)
    /\ \A n \in Wanted : WF_vars(Advertise(n))
    /\ \A a \in Wanted \X Ports : SF_vars(ReadAdvert(a))

-----------------------------------------------------------------------------
(* Two subscribers never run for one description: they would write to the  *)
(* same storage, which the second one deletes first (the subscribers map   *)
(* and Subscriber.run).                                                    *)
NeverTwoSubscribers ==
    [][\A n \in Names : spc'[n] = "loop" /\ spc[n] # spc'[n] /\ sLaunchCount'[n] = 0 =>
          ~sAlive[n] /\ goroutine[n] = "none"]_vars

(* While a wanted publisher stays up there is in the end a subscriber for  *)
(* it that follows a publisher, however many publishers and subscribers    *)
(* came and went before, unless submux itself ends (ignore is emptied      *)
(* after the entry is deleted, so that no text is ignored for ever).       *)
Subscribed ==
    \A n \in Wanted :
        <>[]alive[n] => <>[](sAlive[n] /\ conn[n] \in Names) \/ <>(dpc = "ended")
=============================================================================
