------------------------------- MODULE Poller -------------------------------
(***************************************************************************)
(* The array of sockets that a sender or receiver polls (poller.c).  An    *)
(* entry is a socket with the events poll reported for it; entries are     *)
(* numbered from 1 here and from 0 in the code.                            *)
(***************************************************************************)
EXTENDS Naturals, Sequences

Entry(s, ready) == [sock |-> s, revents |-> ready]

Holds(p, s) == \E i \in 1..Len(p) : p[i].sock = s
IndexOf(p, s) == CHOOSE i \in 1..Len(p) : p[i].sock = s

(* poller_add: at the end, with nothing reported yet *)
Add(p, s) == Append(p, Entry(s, "none"))

(* poller_remove: the last entry takes the place of the removed one *)
Remove(p, s) ==
    [j \in 1..(Len(p) - 1) |-> IF j = IndexOf(p, s) THEN p[Len(p)] ELSE p[j]]
=============================================================================
