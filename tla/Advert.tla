------------------------------- MODULE Advert -------------------------------
(***************************************************************************)
(* The thread that advertises what a publisher publishes (advert.c).  Its  *)
(* owner adds and removes notices and then builds the message anew from    *)
(* all of them, without the lock, and swaps it in under the lock; the      *)
(* thread sends the message it finds under the same lock, every period,    *)
(* until it is stopped or a call fails.  Nobody is told of its failure.    *)
(* When the message cannot be made the caller gets an error, and the       *)
(* notices have changed but the message has not.                           *)
(***************************************************************************)
EXTENDS Integers, Sequences

CONSTANTS Senders, Nobody

VARIABLES
    notices,        \* the senders on the list, first to last
    json_msg,       \* the message, which names senders; {} before the first
    lock,
    opc,            \* the owner: "idle", "make", "swap", "join", "gone"
    job, new_msg,   \* the sender the owner's call is about; the message it has built
    tpc,            \* the thread: "test", "sleep", "lock", "sending", "unlock", "ended"
    sending,        \* the message it is sending
    stopping, sock, \* of the thread; the multicast socket
    stale           \* history: the senders whose call failed since the
                    \* message was last made

owner  == <<opc, job, new_msg>>
thread == <<tpc, sending>>
vars   == <<notices, json_msg, lock, owner, thread, stopping, sock, stale>>

(* advert_create *)
Init ==
    /\ notices = <<>> /\ json_msg = {} /\ lock = Nobody
    /\ opc = "idle" /\ job = Nobody /\ new_msg = <<>> /\ tpc = "test" /\ sending = <<>>
    /\ stopping = FALSE /\ sock = "open" /\ stale = {}

Names(list, s) == \E j \in 1..Len(list) : list[j] = s

-----------------------------------------------------------------------------
(* The owner.  A sender that is on the list is not put there again: the    *)
(* call returns at once and makes no message.                              *)
Publish(s) ==
    /\ opc = "idle" /\ ~Names(notices, s)
    /\ notices' = <<s>> \o notices /\ opc' = "make" /\ job' = s
    /\ UNCHANGED <<json_msg, lock, new_msg, thread, stopping, sock, stale>>

Unlisted(s) ==
    \E k \in 1..Len(notices) :
        /\ notices[k] = s
        /\ notices' = SubSeq(notices, 1, k - 1) \o SubSeq(notices, k + 1, Len(notices))

(* mutant: the message is not made anew *)
Retract_Only(s) ==
    /\ opc = "idle" /\ Unlisted(s)
    /\ UNCHANGED <<json_msg, lock, owner, thread, stopping, sock, stale>>

Retract(s) ==
    /\ opc = "idle" /\ Unlisted(s) /\ opc' = "make" /\ job' = s
    /\ UNCHANGED <<json_msg, lock, new_msg, thread, stopping, sock, stale>>

(* make_json_map: the text, the lock, and the change of messages *)
MakeJsonMap ==
    /\ opc = "make" /\ lock = Nobody
    /\ new_msg' = notices /\ lock' = "owner" /\ opc' = "swap"
    /\ UNCHANGED <<notices, json_msg, job, thread, stopping, sock, stale>>

(* or no hostname, no memory, or a lock that cannot be had: the caller     *)
(* gets the error.                                                         *)
MakeFails ==
    /\ opc = "make" /\ opc' = "idle" /\ stale' = stale \cup {job}
    /\ UNCHANGED <<notices, json_msg, lock, job, new_msg, thread, stopping, sock>>

SwapMessage ==
    /\ opc = "swap"
    /\ json_msg' = {new_msg} /\ new_msg' = <<>> /\ lock' = Nobody /\ opc' = "idle"
    /\ stale' = {}
    /\ UNCHANGED <<notices, job, thread, stopping, sock>>

(* advert_stop, or advert_destroy while the thread is marked as running *)
Stop ==
    /\ opc = "idle" /\ ~stopping
    /\ stopping' = TRUE /\ opc' = "join"
    /\ UNCHANGED <<notices, json_msg, lock, job, new_msg, thread, sock, stale>>

Join ==
    /\ opc = "join" /\ tpc = "ended"
    /\ sock' = "closed" /\ opc' = "idle"
    /\ UNCHANGED <<notices, json_msg, lock, job, new_msg, thread, stopping, stale>>

(* advert_destroy, when the thread has ended *)
Destroy ==
    /\ opc = "idle" /\ tpc = "ended"
    /\ opc' = "gone" /\ notices' = <<>> /\ json_msg' = {} /\ sock' = "closed"
    /\ UNCHANGED <<lock, job, new_msg, thread, stopping, stale>>

-----------------------------------------------------------------------------
(* The thread: mcast_func. *)
Goto(from, to) == tpc = from /\ tpc' = to

End == tpc' = "ended" /\ sock' = "closed"

TestStopping ==
    /\ tpc = "test"
    /\ IF stopping THEN End ELSE tpc' = "sleep" /\ UNCHANGED sock
    /\ UNCHANGED <<notices, json_msg, lock, owner, sending, stopping, stale>>

(* The sleep ends, or a signal interrupts it and with it the thread. *)
Sleep ==
    /\ tpc = "sleep"
    /\ (tpc' = "lock" /\ UNCHANGED sock) \/ End
    /\ UNCHANGED <<notices, json_msg, lock, owner, sending, stopping, stale>>

(* mutant: once there is a message the thread sends no other *)
Lock_Once ==
    /\ tpc = "lock" /\ lock = Nobody
    /\ lock' = "thread" /\ tpc' = IF json_msg = {} \/ sending # <<>> THEN "unlock" ELSE "sending"
    /\ sending' = IF json_msg = {} THEN sending ELSE CHOOSE m \in json_msg : TRUE
    /\ UNCHANGED <<notices, json_msg, owner, stopping, sock, stale>>

(* Nothing is sent before the first message is made. *)
Lock ==
    /\ tpc = "lock" /\ lock = Nobody
    /\ lock' = "thread" /\ tpc' = IF json_msg = {} THEN "unlock" ELSE "sending"
    /\ sending' = IF json_msg = {} THEN sending ELSE CHOOSE m \in json_msg : TRUE
    /\ UNCHANGED <<notices, json_msg, owner, stopping, sock, stale>>

(* spin_write_lock gives up while the owner has the lock *)
LockFails ==
    /\ tpc = "lock" /\ lock # Nobody /\ End
    /\ UNCHANGED <<notices, json_msg, lock, owner, sending, stopping, stale>>

(* sock_sendto; a failure ends the thread *)
Send ==
    /\ tpc = "sending" /\ lock' = Nobody
    /\ (tpc' = "test" /\ UNCHANGED sock) \/ End
    /\ UNCHANGED <<notices, json_msg, owner, sending, stopping, stale>>

Unlock ==
    /\ Goto("unlock", "test") /\ lock' = Nobody
    /\ UNCHANGED <<notices, json_msg, owner, sending, stopping, sock, stale>>

-----------------------------------------------------------------------------
Calling == Stop \/ Destroy \/ \E s \in Senders : Publish(s) \/ Retract(s)
Finishing == MakeJsonMap \/ MakeFails \/ SwapMessage \/ Join
Thread == TestStopping \/ Sleep \/ Lock \/ LockFails \/ Send \/ Unlock
Next == Calling \/ Finishing \/ Thread

Spec == Init /\ [][Next]_vars

-----------------------------------------------------------------------------
(* What the thread sends is the live message, which is not freed while it  *)
(* is being sent, and which is up to date: it names a sender if and only   *)
(* if that sender is on the list, but for the one the owner's call in      *)
(* progress is about and those whose call returned an error since the      *)
(* message was last made.  So after advert_retract has returned OK its     *)
(* sender is advertised no more, and after an error the old message goes   *)
(* on being sent until another call succeeds (advert_publish,              *)
(* advert_retract, make_json_map, mcast_func).                             *)
SendsTheCurrent ==
    tpc = "sending" =>
        /\ sending \in json_msg
        /\ \A s \in Senders \ stale :
              opc \in {"idle", "join"} \/ s # job => (Names(sending, s) <=> Names(notices, s))

(* What stays published is advertised again and again, until the thread    *)
(* ends; not so a sender whose advert_publish returned an error.           *)
AdvertisedAgain ==
    \A s \in Senders :
        []<>(\/ tpc = "sending" /\ Names(sending, s)
             \/ ~Names(notices, s) \/ s \in stale \/ tpc = "ended")

(* advert_stop returns. *)
StopReturns == opc = "join" ~> opc # "join"
=============================================================================
