------------------------------ MODULE Channel -------------------------------
(***************************************************************************)
(* What one direction of the TCP connection between a sender and a         *)
(* receiver promises the two: the messages put in are taken out whole, in  *)
(* order and none left out, with these exceptions.  A message not begun    *)
(* may be replaced by the next.  The first take may swallow what follows   *)
(* the first message.  Once a message is torn, nothing is promised.        *)
(***************************************************************************)
EXTENDS Naturals, Sequences

CONSTANTS Messages, Garbled

VARIABLES sent, got, next, torn

vars == <<sent, got, next, torn>>

Init == sent = <<>> /\ got = <<>> /\ next = 1 /\ torn = FALSE

Put(m) ==
    /\ sent' = Append(sent, m)
    /\ torn' \in {torn, TRUE}
    /\ UNCHANGED <<got, next>>

Replace(m) ==
    /\ Len(sent) >= next /\ sent' = [sent EXCEPT ![Len(sent)] = m]
    /\ UNCHANGED <<got, next, torn>>

Take ==
    /\ next <= Len(sent) /\ got' = Append(got, sent[next])
    /\ next' = next + 1
    /\ UNCHANGED <<sent, torn>>

TakeFirst ==
    /\ got = <<>> /\ sent # <<>> /\ got' = <<sent[1]>>
    /\ next' \in 2..(Len(sent) + 1) /\ torn' \in {torn, TRUE}
    /\ UNCHANGED sent

TakeTorn ==
    /\ torn /\ UNCHANGED <<sent, torn>>
    /\ \E m \in Messages \cup {Garbled} : got' = Append(got, m)
    /\ next' \in Nat

Next == TakeFirst \/ Take \/ TakeTorn \/ \E m \in Messages : Put(m) \/ Replace(m)

Spec == Init /\ [][Next]_vars
=============================================================================
