---------------------------- MODULE SubmuxProofs ----------------------------
(***************************************************************************)
(* Proofs about Pubmux and Submux for any number of storages, ports and    *)
(* addresses, any number of restarts, and any advertisements lost,         *)
(* repeated or read late.                                                  *)
(***************************************************************************)
EXTENDS Submux, WellFoundedInduction, TLAPS

(* The steps of pubmux. *)
PubStep(n) == StartIfNeeded(n) \/ Supervise(n) \/ CannotStart(n) \/ PublisherExits(n)

(* Run holds a port from BeforeStart to AfterStop, and no other command    *)
(* holds it; an address is for good.                                       *)
Holding == {"make", "start", "started", "wait", "stopped", "returned"}

PubInv ==
    /\ pc \in [Names -> Holding \cup {"none", "loop", "pause", "close", "done"}]
    /\ alive \in [Names -> BOOLEAN]
    /\ addr \in [Names -> Addresses \cup {None}] /\ port \in [Names -> Ports \cup {None}]
    /\ \A n \in Names : alive[n] => pc[n] \in {"started", "wait"}
    /\ \A n \in Names : port[n] # None <=> pc[n] \in Holding
    /\ \A n \in Names : n \notin publishers => pc[n] = "none" /\ addr[n] = None
    /\ \A n, m \in Names : n # m => (port[n] = port[m] => port[n] = None)
                                    /\ (addr[n] = addr[m] => addr[n] = None)
    /\ inUse = {port[n] : n \in Names} \ {None}
    /\ rangeSize \in RangeSizes /\ counter \in InRange /\ baseMCastGroup \in Addresses

(* A set of numbers that is not empty has a least one. *)
LEMMA LeastOf ==
    ASSUME NEW T \in SUBSET Nat, T # {} PROVE \E x \in T : \A y \in T : x <= y
<1>1. \E x \in T : \A y \in T : ~(<<y, x>> \in OpToRel(<, Nat))
  BY NatLessThanWellFounded, WFMin
<1>2. PICK x \in T : \A y \in T : ~(<<y, x>> \in OpToRel(<, Nat)) BY <1>1
<1>3. ASSUME NEW y \in T PROVE x <= y
  <2>1. <<y, x>> \in Nat \X Nat /\ ~(<<y, x>> \in OpToRel(<, Nat)) BY <1>2
  <2>2. ~(y < x) BY <2>1 DEF OpToRel
  <2> QED BY <2>2
<1> QED BY <1>3

(* getMcastAddrFor finds an address that is not assigned, if it finds one. *)
LEMMA UnassignedIsNew ==
    ASSUME PubInv PROVE FirstUnassigned # None =>
        FirstUnassigned \in Addresses /\ FirstUnassigned \notin addrsAssigned
<1> DEFINE Nth(x) == (baseMCastGroup + x) % AddressCount
           free == {x \in Addresses : Nth(x) \notin addrsAssigned}
           least == CHOOSE x \in free : \A y \in free : x <= y
<1>1. FirstUnassigned = IF free = {} THEN None ELSE Nth(least)
  BY DEF FirstUnassigned
<1>2. ASSUME free # {} PROVE least \in free
  <2>1. free \in SUBSET Nat BY PubmuxAssumption DEF Addresses
  <2>2. \E x \in free : \A y \in free : x <= y BY <1>2, <2>1, LeastOf, Zenon
  <2> QED BY <2>2
<1>3. \A x \in Addresses : Nth(x) \in Addresses
  <2> TAKE x \in Addresses
  <2>1. AddressCount \in Nat /\ AddressCount > 0 /\ x \in Nat /\ baseMCastGroup \in Nat
    BY PubmuxAssumption DEF PubInv, Addresses
  <2>2. Nth(x) \in 0..(AddressCount - 1) BY <2>1
  <2> QED BY <2>2 DEF Addresses
<1> HIDE DEF Nth, least
<1> QED BY <1>1, <1>2, <1>3

(* reservePort finds a port that is not in use, if it finds one. *)
LEMMA FreeIsNew ==
    ASSUME PubInv PROVE FirstFree # None => FirstFree \in InRange /\ FirstFree \notin inUse
<1> DEFINE Nth(x) == (counter + x) % rangeSize
           free == {x \in InRange : Nth(x) \notin inUse}
           least == CHOOSE x \in free : \A y \in free : x <= y
<1>1. FirstFree = IF free = {} THEN None ELSE Nth(least)
  BY DEF FirstFree
<1>0. rangeSize \in Nat /\ rangeSize > 0 BY PubmuxAssumption DEF PubInv
<1>2. ASSUME free # {} PROVE least \in free
  <2>1. free \in SUBSET Nat BY <1>0 DEF InRange
  <2>2. \E x \in free : \A y \in free : x <= y BY <1>2, <2>1, LeastOf, Zenon
  <2> QED BY <2>2
<1>3. \A x \in InRange : Nth(x) \in InRange
  <2> TAKE x \in InRange
  <2>1. x \in Nat /\ counter \in Nat BY <1>0 DEF PubInv, InRange
  <2>2. Nth(x) \in 0..(rangeSize - 1) BY <1>0, <2>1
  <2> QED BY <2>2 DEF InRange
<1> HIDE DEF Nth, least
<1> QED BY <1>1, <1>2, <1>3

LEMMA PubInvInit == ASSUME Init PROVE PubInv
<1>1. PubInit BY DEF Init
<1>2. 0 \in Addresses BY PubmuxAssumption DEF Addresses
<1>3. /\ pc = [n \in Names |-> "none"] /\ alive = [n \in Names |-> FALSE]
      /\ addr = [n \in Names |-> None] /\ port = [n \in Names |-> None]
  BY <1>1 DEF PubInit, C!RunInit
<1> QED BY <1>1, <1>2, <1>3 DEF PubInit, PubInv, Holding

(* What pubmux shares is changed by its own steps only. *)
LEMMA PubOnly ==
    ASSUME [Next]_vars PROVE (\E n \in Names : PubStep(n)) \/ UNCHANGED pubVars
BY Zenon DEF Next, vars, PubStep, Lose, ReadAdvert, MarkIgnored, Subscribe, ResetIgnore,
       Publishing, Advertise, Exits, SubscriberStep, StartFails, SubscriberFails,
       RunCommand, Delete, SubscriberEnds, Connect, FatalError

LEMMA PubInvStep == ASSUME PubInv, [Next]_vars PROVE PubInv'
<1>1. CASE UNCHANGED pubVars
  BY <1>1 DEF PubInv, pubVars, commands, muxing, InRange
<1>2. ASSUME NEW n \in Names, StartIfNeeded(n) PROVE PubInv'
  <2> DEFINE a == FirstUnassigned
  <2>1. n \notin publishers /\ publishers' = publishers \cup {n}
        /\ addr' = [addr EXCEPT ![n] = a] /\ UNCHANGED <<rangeSize, counter, inUse, port>>
    BY <1>2 DEF StartIfNeeded
  <2>2. pc[n] = "none" BY <2>1 DEF PubInv
  <2>3. a # None => a \in Addresses /\ a \notin addrsAssigned BY UnassignedIsNew
  <2>4. a # None => \A m \in Names : addr[m] # a BY <2>3 DEF addrsAssigned
  <2>5. UNCHANGED alive /\ (pc' = pc \/ pc' = [pc EXCEPT ![n] = "loop"])
        /\ (baseMCastGroup' = baseMCastGroup \/ (a # None /\ baseMCastGroup' = a))
    BY <1>2 DEF StartIfNeeded, commands, C!New
  <2> HIDE DEF a
  <2>6. \A l, m \in Names : l # m => (addr'[l] = addr'[m] => addr'[l] = None)
    BY <2>1, <2>4 DEF PubInv
  <2> QED BY <2>1, <2>2, <2>3, <2>5, <2>6 DEF PubInv, Holding, InRange
<1>3. ASSUME NEW n \in Names, BeforeStart(n) PROVE PubInv'
  <2> DEFINE f == FirstFree
  <2>1. /\ pc[n] = "pause" /\ pc' = [pc EXCEPT ![n] = IF f # None THEN "make" ELSE "close"]
        /\ port' = [port EXCEPT ![n] = f]
        /\ IF f = None THEN UNCHANGED <<inUse, counter>>
           ELSE inUse' = inUse \cup {f} /\ counter' = f
        /\ UNCHANGED <<alive, publishers, baseMCastGroup, addr, rangeSize>>
    BY <1>3 DEF BeforeStart, C!Launch, C!Goto
  <2>2. f # None => f \in InRange /\ f \notin inUse BY FreeIsNew
  <2>3. port[n] = None BY <2>1 DEF PubInv, Holding
  <2>4. InRange \subseteq Ports BY DEF PubInv, InRange, Ports
  <2> HIDE DEF f
  <2>5. inUse' = {port'[m] : m \in Names} \ {None} BY <2>1, <2>3 DEF PubInv
  <2>6. f # None => \A m \in Names : port[m] # f BY <2>2 DEF PubInv
  <2>7. port' \in [Names -> Ports \cup {None}] /\ counter' \in InRange'
    BY <2>1, <2>2, <2>4 DEF PubInv, InRange
  <2>8. \A l, m \in Names : l # m => (port'[l] = port'[m] => port'[l] = None)
    BY <2>1, <2>6 DEF PubInv
  <2>9. \A m \in Names : port'[m] # None <=> pc'[m] \in Holding
    BY <2>1 DEF PubInv, Holding
  <2>10. \A m \in Names : alive'[m] => pc'[m] \in {"started", "wait"}
    BY <2>1 DEF PubInv
  <2>11. \A m \in Names : m \notin publishers' => pc'[m] = "none" /\ addr'[m] = None
    BY <2>1 DEF PubInv
  <2>12. pc' \in [Names -> Holding \cup {"none", "loop", "pause", "close", "done"}]
    BY <2>1 DEF PubInv, Holding
  <2> QED BY <2>1, <2>5, <2>7, <2>8, <2>9, <2>10, <2>11, <2>12 DEF PubInv
<1>4. ASSUME NEW n \in Names, AfterStop(n) PROVE PubInv'
  <2>1. /\ pc[n] = "stopped" /\ pc' = [pc EXCEPT ![n] = "loop"]
        /\ inUse' = inUse \ {port[n]} /\ port' = [port EXCEPT ![n] = None]
        /\ UNCHANGED <<alive, publishers, baseMCastGroup, addr, rangeSize, counter>>
    BY <1>4 DEF AfterStop, C!AfterStop, C!Goto, PubInv, Holding
  <2>2. \A m \in Names : m # n => port[m] # port[n] BY <2>1 DEF PubInv, Holding
  <2>3. inUse' = {port'[m] : m \in Names} \ {None} BY <2>1, <2>2 DEF PubInv
  <2> QED BY <2>1, <2>3 DEF PubInv, Holding, InRange
<1>5. ASSUME NEW n \in Names, UNCHANGED muxing, NEW to,
             pc' = [pc EXCEPT ![n] = to],
             <<pc[n], to>> \in {<<"loop", "pause">>, <<"loop", "close">>, <<"make", "start">>,
                 <<"started", "wait">>, <<"wait", "stopped">>, <<"close", "done">>, <<"start", "returned">>},
             UNCHANGED alive, pc[n] = "wait" => ~alive[n]
      PROVE  PubInv'
  BY <1>5 DEF PubInv, Holding, muxing, InRange
<1>6. ASSUME NEW n \in Names, UNCHANGED muxing,
             C!Loop(n) \/ C!InitCmd(n) \/ C!AfterStart(n, TRUE) \/ C!Wait(n) \/ C!Close(n) \/ C!StartFails(n)
      PROVE  PubInv'
  <2>1. \E to : /\ pc' = [pc EXCEPT ![n] = to]
                /\ <<pc[n], to>> \in {<<"loop", "pause">>, <<"loop", "close">>, <<"make", "start">>,
                    <<"started", "wait">>, <<"wait", "stopped">>, <<"close", "done">>, <<"start", "returned">>}
                /\ UNCHANGED alive /\ (pc[n] = "wait" => ~alive[n])
    BY <1>6 DEF C!Loop, C!InitCmd, C!AfterStart, C!Wait, C!Close, C!StartFails, C!Goto
  <2> QED BY <1>5, <1>6, <2>1, Zenon
<1>7. ASSUME NEW n \in Names, C!Start(n), UNCHANGED muxing PROVE PubInv'
  <2>1. pc[n] = "start" /\ pc' = [pc EXCEPT ![n] = "started"] /\ alive' = [alive EXCEPT ![n] = TRUE]
    BY <1>7 DEF C!Start, C!Goto
  <2> QED BY <1>7, <2>1 DEF PubInv, Holding, muxing, InRange
<1>8. ASSUME NEW n \in Names, PublisherExits(n) PROVE PubInv'
  <2>1. UNCHANGED <<pc, muxing>> /\ alive' = [alive EXCEPT ![n] = FALSE]
    BY <1>8 DEF PublisherExits, C!Exit
  <2> QED BY <2>1 DEF PubInv, Holding, muxing, InRange
<1> QED BY PubOnly, <1>1, <1>2, <1>3, <1>4, <1>6, <1>7, <1>8, Zenon
        DEF PubStep, Supervise, Running, CannotStart

(* Two publishers never share a port while both run, nor ever an address,  *)
(* however reservePort and getMcastAddrFor go round their ranges.          *)
THEOREM NothingSharedTheorem == Spec => []NothingShared
<1>1. Init => PubInv BY PubInvInit
<1>2. PubInv /\ [Next]_vars => PubInv' BY PubInvStep
<1>3. PubInv => NothingShared BY DEF PubInv, NothingShared, Holding
<1> QED BY <1>1, <1>2, <1>3, PTL DEF Spec

(* A port is in use exactly as long as a command of pubmux holds it        *)
(* (reservePort in BeforeStart, releasePort in AfterStop).                 *)
THEOREM NoPortLeaksTheorem == Spec => []NoPortLeaks
<1>1. Init => PubInv BY PubInvInit
<1>2. PubInv /\ [Next]_vars => PubInv' BY PubInvStep
<1>3. PubInv => NoPortLeaks BY DEF PubInv, NoPortLeaks
<1> QED BY <1>1, <1>2, <1>3, PTL DEF Spec

(* A description with no entry has no goroutine and no process, and a      *)
(* command that has come to AfterStop was launched.                        *)
Launched == {"make", "start", "started", "wait", "stopped", "killed"}

SubInv ==
    /\ sAlive \in [Names -> BOOLEAN] /\ sLaunchCount \in [Names -> Nat]
    /\ spc \in [Names -> Launched \cup {"none", "loop", "pause", "close", "done", "returned"}]
    /\ goroutine \in [Names -> {"none", "run"}]
    /\ \A n \in Names : goroutine[n] = "run" => n \in subscribers
    /\ \A n \in Names : goroutine[n] = "none" => spc[n] \in {"none", "done", "returned"}
    /\ \A n \in Names : sAlive[n] => spc[n] \in {"started", "wait"}
    /\ \A n \in Names : spc[n] \in Launched => sLaunchCount[n] > 0

LEMMA SubInvInit == ASSUME Init PROVE SubInv
<1>1. /\ spc = [n \in Names |-> "none"] /\ sLaunchCount = [n \in Names |-> 0]
      /\ sAlive = [n \in Names |-> FALSE] /\ goroutine = [n \in Names |-> "none"]
  BY DEF Init, S!RunInit
<1> QED BY <1>1 DEF SubInv, Launched

(* A step of a subscriber's command leaves the other commands alone. *)
LEMMA CommandStep ==
    ASSUME SubInv, NEW n \in Names, goroutine[n] = "run", UNCHANGED <<goroutine, subscribers>>,
           \/ S!Loop(n) \/ S!Launch(n, TRUE) \/ S!InitCmd(n) \/ S!Start(n) \/ S!StartFails(n)
           \/ S!AfterStart(n, TRUE) \/ S!Wait(n) \/ S!AfterStop(n, TRUE) \/ S!Close(n)
    PROVE  SubInv' /\ \A m \in Names : spc'[m] = "loop" /\ spc[m] # spc'[m] => sLaunchCount'[m] > 0
<1>1. CASE S!Loop(n) \/ S!InitCmd(n) \/ S!StartFails(n) \/ S!AfterStart(n, TRUE) \/ S!Wait(n) \/ S!Close(n)
  <2>1. PICK to : /\ spc' = [spc EXCEPT ![n] = to]
                /\ <<spc[n], to>> \in {<<"loop", "pause">>, <<"loop", "close">>, <<"make", "start">>,
                    <<"started", "wait">>, <<"wait", "stopped">>, <<"close", "done">>, <<"start", "returned">>}
                /\ UNCHANGED <<sAlive, sLaunchCount>> /\ (spc[n] = "wait" => ~sAlive[n])
    BY <1>1 DEF S!Loop, S!InitCmd, S!AfterStart, S!Wait, S!Close, S!StartFails, S!Goto
  <2> QED BY <2>1 DEF SubInv, Launched
<1>2. CASE S!Launch(n, TRUE)
  <2>1. /\ spc[n] = "pause" /\ spc' = [spc EXCEPT ![n] = "make"] /\ UNCHANGED sAlive
        /\ sLaunchCount' = [sLaunchCount EXCEPT ![n] = sLaunchCount[n] + 1]
    BY <1>2 DEF S!Launch, S!Goto
  <2> QED BY <2>1 DEF SubInv, Launched
<1>3. CASE S!Start(n)
  <2>1. /\ spc[n] = "start" /\ spc' = [spc EXCEPT ![n] = "started"]
        /\ sAlive' = [sAlive EXCEPT ![n] = TRUE] /\ UNCHANGED sLaunchCount
    BY <1>3 DEF S!Start, S!Goto
  <2> QED BY <2>1 DEF SubInv, Launched
<1>4. CASE S!AfterStop(n, TRUE)
  <2>1. /\ spc[n] \in {"stopped", "killed"} /\ UNCHANGED <<sAlive, sLaunchCount>>
        /\ spc' = [spc EXCEPT ![n] = "loop"] \/ spc' = [spc EXCEPT ![n] = "close"]
    BY <1>4 DEF S!AfterStop, S!Goto
  <2> QED BY <2>1 DEF SubInv, Launched
<1> QED BY <1>1, <1>2, <1>3, <1>4, Zenon

(* Nothing but an advertisement starts a command anew, and only when there *)
(* is none.                                                                *)
Anew == \A n \in Names : spc'[n] = "loop" /\ spc[n] # spc'[n] /\ sLaunchCount'[n] = 0 =>
                              ~sAlive[n] /\ goroutine[n] = "none"

LEMMA SubInvStep == ASSUME SubInv, [Next]_vars PROVE SubInv' /\ Anew
<1>1. CASE UNCHANGED <<subCommands, goroutine, subscribers>>
  BY <1>1 DEF SubInv, Anew, subCommands
<1>2. CASE Subscribe
  <2> DEFINE g == got[1]
  <2>1. CASE ~Fits(g) BY <1>1, <1>2, <2>1 DEF Subscribe
  <2>2. CASE Fits(g)
    <3>1. /\ g \notin subscribers /\ subscribers' = subscribers \cup {g}
          /\ goroutine' = [goroutine EXCEPT ![g] = "run"]
          /\ spc' = [spc EXCEPT ![g] = "loop"] /\ sLaunchCount' = [sLaunchCount EXCEPT ![g] = 0]
          /\ UNCHANGED sAlive
      BY <1>2, <2>2 DEF Subscribe, S!New, Fits
    <3> HIDE DEF g
    <3>2. g \in Names => goroutine[g] = "none" /\ ~sAlive[g] BY <3>1 DEF SubInv
    <3>3. SubInv' BY <3>1, <3>2, Zenon DEF SubInv, Launched
    <3>4. Anew BY <3>1, <3>2 DEF SubInv, Anew
    <3> QED BY <3>3, <3>4
  <2> QED BY <2>1, <2>2
<1>3. ASSUME NEW n \in Names, RunCommand(n) \/ StartFails(n) PROVE SubInv' /\ Anew
  <2>1. goroutine[n] = "run" /\ UNCHANGED <<goroutine, subscribers>>
    BY <1>3, Zenon DEF RunCommand, StartFails, discovery
  <2>2. SubInv' /\ \A m \in Names : spc'[m] = "loop" /\ spc[m] # spc'[m] => sLaunchCount'[m] > 0
    BY <1>3, <2>1, CommandStep, Zenon DEF RunCommand, StartFails
  <2> QED BY <2>2 DEF Anew
<1>4. ASSUME NEW n \in Names, Delete(n) PROVE SubInv' /\ Anew
  BY <1>4 DEF Delete, subCommands, SubInv, Anew, Launched
<1>5. ASSUME NEW n \in Names, SubscriberEnds(n) \/ SubscriberFails(n) PROVE SubInv' /\ Anew
  <2>1. UNCHANGED <<spc, sLaunchCount, goroutine, subscribers>> /\ sAlive' = [sAlive EXCEPT ![n] = FALSE]
    BY <1>5 DEF SubscriberEnds, SubscriberFails, S!Exit, discovery
  <2> QED BY <2>1 DEF SubInv, Anew, Launched
<1>6. \/ UNCHANGED <<subCommands, goroutine, subscribers>> \/ Subscribe
      \/ \E n \in Names : RunCommand(n) \/ StartFails(n) \/ Delete(n) \/ SubscriberEnds(n) \/ SubscriberFails(n)
  BY DEF Next, vars, subVars, discovery, Lose, ReadAdvert, MarkIgnored, ResetIgnore,
         Publishing, Advertise, Exits, SubscriberStep, Connect, FatalError
<1> QED BY <1>1, <1>2, <1>3, <1>4, <1>5, <1>6

(* A subscriber is started only when no earlier one of its description is  *)
(* left, whatever advertisements come while it ends (the subscribers map   *)
(* and Subscriber.run).                                                    *)
THEOREM NeverTwoSubscribersTheorem == Spec => NeverTwoSubscribers
<1>1. Init => SubInv BY SubInvInit
<1>2. SubInv /\ [Next]_vars => SubInv' BY SubInvStep
<1>3. SubInv /\ [Next]_vars => [Anew]_vars BY SubInvStep
<1>4. Spec => [][Anew]_vars BY <1>1, <1>2, <1>3, PTL DEF Spec
<1> QED BY <1>4 DEF NeverTwoSubscribers, Anew

=============================================================================
