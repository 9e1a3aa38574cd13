----------------------------- MODULE EventLoop -----------------------------
(***************************************************************************)
(* The main loop of a sender (sender_run) over its sockets: the one it     *)
(* listens on, the multicast one, which is in the poller only while there  *)
(* are clients, and a client's.  The loop walks the poller's array from    *)
(* the end to the front while its handlers add and remove entries.  When   *)
(* it is to stop, every client is told, in the same order, and all are     *)
(* closed.  What the handlers say to a client is in Sender and Connection. *)
(***************************************************************************)
EXTENDS Poller, FiniteSets

CONSTANTS Clients, Listen, Mcast

Socks == Clients \cup {Listen, Mcast}

ASSUME SocksAssumption == Listen # Mcast /\ {Listen, Mcast} \cap Clients = {}

VARIABLES
    poller,         \* the entries, first to last
    pos,            \* the entry the walk is at, 0 when it is over
    client_count,
    is_stopping,
    spc,            \* "poll", "walk", "check", "tell", "telling", "ended",
                    \* "destroyed", "killed"
    backlog, open,  \* the connections not yet accepted, in order; the accepted ones
    peer,           \* whether its other end is there
    full,           \* the clients whose connection takes no output now
    (* history, for the properties only *)
    due, served,    \* the sockets reported ready, those served in this walk
    told, broken    \* the clients told; one that could not be, or nobody

loop    == <<poller, pos, client_count>>
clients == <<backlog, open, peer, full>>
history == <<due, served, told, broken>>
vars    == <<loop, is_stopping, spc, clients, history>>

Nobody == Listen    \* no client
Over == spc \in {"ended", "destroyed", "killed"}
Waiting == {backlog[i] : i \in 1..Len(backlog)}

(* sender_create leaves the listening socket in the poller. *)
Init ==
    /\ poller = <<Entry(Listen, "none")>> /\ pos = 0 /\ client_count = 0
    /\ is_stopping = FALSE /\ spc = "poll"
    /\ backlog = <<>> /\ open = {} /\ peer = [c \in Clients |-> FALSE] /\ full = {}
    /\ due = {} /\ served = {} /\ told = {} /\ broken = Nobody

-----------------------------------------------------------------------------
(* The other ends: a client connects, reads or does not, and goes away.    *)
Connect(c) ==
    /\ c \notin open /\ c \notin Waiting /\ ~peer[c] /\ ~Over
    /\ backlog' = Append(backlog, c) /\ peer' = [peer EXCEPT ![c] = TRUE]
    /\ UNCHANGED <<loop, is_stopping, spc, open, full, history>>

Hang(c) ==
    /\ peer[c] /\ peer' = [peer EXCEPT ![c] = FALSE]
    /\ UNCHANGED <<loop, is_stopping, spc, backlog, open, full, history>>

Drain(c) ==
    /\ peer[c] /\ c \in full /\ full' = full \ {c}
    /\ UNCHANGED <<loop, is_stopping, spc, backlog, open, peer, history>>

(* sender_stop, from the statistics thread *)
Stop ==
    /\ ~is_stopping /\ is_stopping' = TRUE
    /\ UNCHANGED <<loop, spc, clients, history>>

-----------------------------------------------------------------------------
(* poll: what it may report for a socket.  A connection whose other end is *)
(* gone reads as its end or as hung up; one that is full and has sent      *)
(* nothing is not ready.                                                   *)
Reports(s) ==
    IF s = Listen THEN {IF backlog # <<>> THEN "io" ELSE "none"}
    ELSE IF s = Mcast THEN {"io", "none"}
    ELSE IF ~peer[s] THEN {"io", "hup"}
    ELSE IF s \in full THEN {"io", "none"} ELSE {"io"}

(* poll writes r into the entries, and poller_process_events walks them    *)
(* when something is ready.                                                *)
Reported(r) ==
    /\ poller' = [i \in 1..Len(poller) |-> Entry(poller[i].sock, r[poller[i].sock])]
    /\ due' = {s \in Socks : r[s] # "none"} /\ served' = {}
    /\ pos' = IF due' = {} THEN 0 ELSE Len(poller)
    /\ spc' = IF due' = {} THEN "check" ELSE "walk"
    /\ UNCHANGED <<client_count, is_stopping, clients, told, broken>>

PossibleReports ==
    {r \in [Socks -> {"none", "io", "hup"}] :
       \A s \in Socks : IF Holds(poller, s) THEN r[s] \in Reports(s) ELSE r[s] = "none"}

(* mutants: the loop does not look at is_stopping; the listening socket is *)
(* not polled while there is a client                                      *)
Poll_IgnoresStop == spc = "poll" /\ \E r \in PossibleReports : Reported(r)
Poll_OneClient ==
    /\ spc = "poll" /\ ~is_stopping
    /\ \E r \in PossibleReports :
          Reported(IF client_count = 0 THEN r ELSE [r EXCEPT ![Listen] = "none"])

(* poller_events and the beginning of poller_process_events *)
Poll == spc = "poll" /\ ~is_stopping /\ \E r \in PossibleReports : Reported(r)

At == poller[pos].sock
Serving(kind) == spc = "walk" /\ pos > 0 /\ poller[pos].revents = kind
Serve == served' = served \cup {At}
Onward == pos' = pos - 1 /\ UNCHANGED <<is_stopping, spc>>

(* A handler that fails ends the walk and the loop. *)
BreakOff == pos' = 0 /\ spc' = "tell" /\ UNCHANGED is_stopping

PassBy ==
    /\ Serving("none") /\ Onward
    /\ UNCHANGED <<poller, client_count, clients, history>>

(* mutant: the multicast socket is put in front of its first client *)
TcpOnAccept_McastFirst ==
    /\ Serving("io") /\ At = Listen /\ backlog # <<>>
    /\ backlog' = Tail(backlog)
    /\ LET c == Head(backlog) IN
          \/ /\ open' = open \cup {c}
             /\ client_count' = client_count + 1
             /\ poller' = IF client_count = 0 THEN Add(Add(poller, Mcast), c) ELSE Add(poller, c)
             /\ Onward
          \/ ~peer[c] /\ BreakOff /\ UNCHANGED <<poller, client_count, open>>
    /\ Serve
    /\ UNCHANGED <<peer, full, due, told, broken>>

(* tcp_on_accept: the greeting is written to the new connection, which may *)
(* fail when its other end has gone.  The first client puts the multicast  *)
(* socket into the poller.                                                 *)
TcpOnAccept ==
    /\ Serving("io") /\ At = Listen /\ backlog # <<>>
    /\ backlog' = Tail(backlog)
    /\ LET c == Head(backlog) IN
          \/ /\ open' = open \cup {c}
             /\ client_count' = client_count + 1
             /\ poller' = IF client_count = 0 THEN Add(Add(poller, c), Mcast) ELSE Add(poller, c)
             /\ Onward
          \/ ~peer[c] /\ BreakOff /\ UNCHANGED <<poller, client_count, open>>
    /\ Serve
    /\ UNCHANGED <<peer, full, due, told, broken>>

(* mcast_on_write; an overrun, the last sequence number or a heartbeat     *)
(* that would block is a failure.                                          *)
McastOnWrite ==
    /\ Serving("io") /\ At = Mcast
    /\ Onward \/ BreakOff
    /\ Serve
    /\ UNCHANGED <<poller, client_count, clients, due, told, broken>>

(* tcp_on_read or tcp_on_read_blocked, and tcp_on_write, without a failure; *)
(* what is written may fill the connection.                                *)
ClientIO ==
    /\ Serving("io") /\ At \in Clients
    /\ full' \in {full, full \cup {At}}
    /\ Onward /\ Serve
    /\ UNCHANGED <<poller, client_count, backlog, open, peer, due, told, broken>>

(* mutant: the multicast socket stays in the poller *)
TcpOnHup_KeepsMcast ==
    /\ Serving("io") \/ Serving("hup")
    /\ At \in Clients
    /\ open' = open \ {At} /\ full' = full \ {At}
    /\ client_count' = client_count - 1
    /\ poller' = Remove(poller, At)
    /\ Onward /\ Serve
    /\ UNCHANGED <<backlog, peer, due, told, broken>>

(* tcp_on_hup, when poll reported it or a handler of the client failed: the *)
(* socket is removed and destroyed, and with the last one the multicast    *)
(* socket leaves the poller too.                                           *)
TcpOnHup ==
    /\ Serving("io") \/ Serving("hup")
    /\ At \in Clients
    /\ open' = open \ {At} /\ full' = full \ {At}
    /\ client_count' = client_count - 1
    /\ poller' = IF client_count = 1 THEN Remove(Remove(poller, At), Mcast)
                 ELSE Remove(poller, At)
    /\ Onward /\ Serve
    /\ UNCHANGED <<backlog, peer, due, told, broken>>

(* A write to a connection that was reset raises SIGPIPE, which no program *)
(* of the repository handles or ignores: the process may be gone.          *)
Killed ==
    /\ \/ Serving("io") /\ At \in Clients /\ ~peer[At]
       \/ Serving("io") /\ At = Listen /\ backlog # <<>> /\ ~peer[Head(backlog)]
       \/ spc = "telling" /\ pos > 0 /\ At \in Clients /\ ~peer[At]
    /\ spc' = "killed" /\ pos' = 0
    /\ UNCHANGED <<poller, client_count, is_stopping, clients, history>>

(* What poll reported is not looked at again. *)
WalkEnds ==
    /\ spc = "walk" /\ pos = 0 /\ spc' = "check"
    /\ poller' = [i \in 1..Len(poller) |-> Entry(poller[i].sock, "none")]
    /\ due' = {} /\ served' = {}
    /\ UNCHANGED <<pos, client_count, is_stopping, clients, told, broken>>

(* The storage is orphaned or recreated, or the loop goes on. *)
Check ==
    /\ spc = "check"
    /\ spc' \in {"poll", "tell"}
    /\ UNCHANGED <<loop, is_stopping, clients, history>>

LeaveLoop ==
    /\ spc = "poll" /\ is_stopping /\ spc' = "tell"
    /\ UNCHANGED <<loop, is_stopping, clients, history>>

-----------------------------------------------------------------------------
(* After the loop, poller_process with tcp_will_quit_func, last entry      *)
(* first; without clients nobody is told and the sockets stay as they are. *)
TellBegin ==
    /\ spc = "tell" /\ client_count > 0
    /\ spc' = "telling" /\ pos' = Len(poller)
    /\ UNCHANGED <<poller, client_count, is_stopping, clients, history>>

NobodyToTell ==
    /\ spc = "tell" /\ client_count = 0 /\ spc' = "ended"
    /\ UNCHANGED <<loop, is_stopping, clients, history>>

Telling == spc = "telling" /\ pos > 0

TellNext ==
    /\ Telling /\ At \notin Clients /\ pos' = pos - 1
    /\ UNCHANGED <<poller, client_count, is_stopping, spc, clients, history>>

(* mutant: the write is not tried again when it would block *)
TellClient_Once ==
    /\ Telling /\ At \in Clients
    /\ pos' = pos - 1
    /\ told' = IF At \in full THEN told ELSE told \cup {At}
    /\ UNCHANGED <<poller, client_count, is_stopping, spc, clients, due, served, broken>>

(* tcp_will_quit_func repeats a write that would block, so it waits for a  *)
(* connection that is full.                                                *)
TellClient ==
    /\ Telling /\ At \in Clients /\ (At \in full => ~peer[At])
    /\ pos' = pos - 1
    /\ told' = told \cup {At}
    /\ UNCHANGED <<poller, client_count, is_stopping, spc, clients, due, served, broken>>

(* A write that fails ends the walk: the clients before it are not told. *)
TellFails ==
    /\ Telling /\ At \in Clients /\ ~peer[At]
    /\ pos' = 0 /\ broken' = At
    /\ UNCHANGED <<poller, client_count, is_stopping, spc, clients, due, served, told>>

(* A second later close_sock_func closes and frees every socket, the       *)
(* listening one included.                                                 *)
CloseAll ==
    /\ spc = "telling" /\ pos = 0
    /\ poller' = <<>> /\ backlog' = <<>> /\ open' = {} /\ spc' = "ended"
    /\ UNCHANGED <<pos, client_count, is_stopping, peer, full, history>>

(* sender_destroy closes what is still in the poller. *)
SenderDestroy ==
    /\ spc = "ended" /\ spc' = "destroyed"
    /\ poller' = <<>> /\ backlog' = <<>> /\ open' = {}
    /\ UNCHANGED <<pos, client_count, is_stopping, peer, full, history>>

Loop ==
    \/ Poll \/ PassBy \/ McastOnWrite \/ ClientIO \/ TcpOnHup \/ Killed
    \/ TcpOnAccept \/ WalkEnds \/ Check \/ LeaveLoop

Farewell == TellBegin \/ NobodyToTell \/ TellNext \/ TellClient \/ TellFails \/ CloseAll \/ SenderDestroy

Env(c) == Connect(c) \/ Hang(c) \/ Drain(c)

Next == Loop \/ Farewell \/ Stop \/ \E c \in Clients : Env(c)

(* The process runs; a client that is there reads what it is sent, unless  *)
(* it goes away.                                                           *)
Spec ==
    /\ Init /\ [][Next]_vars
    /\ WF_vars(Loop) /\ WF_vars(Farewell) /\ \A c \in Clients : WF_vars(Drain(c))

-----------------------------------------------------------------------------
(* The poller's array, while the loop runs, holds the listening socket     *)
(* first, every open client once and nothing that was destroyed; the       *)
(* multicast socket is in it exactly while there are clients, and          *)
(* client_count is their number (tcp_on_accept, tcp_on_hup and             *)
(* close_sock_func keep three things in step inside poller.c's walk).      *)
PollerMatchesClients ==
    spc \in {"poll", "walk", "check", "tell", "telling"} =>
      /\ \A i, j \in 1..Len(poller) : poller[i].sock = poller[j].sock => i = j
      /\ {poller[i].sock : i \in 1..Len(poller)} =
           open \cup {Listen} \cup (IF open = {} THEN {} ELSE {Mcast})
      /\ client_count = Cardinality(open)

(* Although handlers remove entries during the walk and poller_remove puts *)
(* the last entry in the place of the removed one, no socket is served     *)
(* twice in one walk of poller_process_events, the walk looks at no entry  *)
(* past the end, and no socket that was reported ready is passed over,     *)
(* unless a handler's failure ends the walk.                               *)
ServedOnce ==
    spc = "walk" =>
      /\ pos <= Len(poller)
      /\ \A i \in 1..pos : poller[i].sock \notin served
      /\ pos = 0 => due \subseteq served

(* At the end every client whose connection is still up has been told that *)
(* the sender quits (WILL_QUIT_SEQ), unless the write to a client failed   *)
(* before its turn: then tcp_will_quit_func's failure stops the walk.      *)
(* When nothing failed nobody is left out.                                 *)
EveryoneTold ==
    spc = "telling" /\ pos = 0 =>
      \A c \in open : c \in told \/ (broken # Nobody /\ IndexOf(poller, c) <= IndexOf(poller, broken))

(* sender_stop ends sender_run: the loop leaves at its next round, and the *)
(* farewell, which waits for a full connection without a time limit, ends  *)
(* because a client that is there reads.                                   *)
StopEnds == is_stopping ~> Over

(* A client that waits for its connection to be accepted is accepted, or   *)
(* the loop ends: no other socket can keep the listening one, which is     *)
(* served last, from its turn.                                             *)
Accepted ==
    \A c \in Clients : c \in Waiting ~> c \notin Waiting \/ Over
=============================================================================
