------------------------------- MODULE MCSlots -------------------------------
(***************************************************************************)
(* Instances of Slots for TLC.                                             *)
(***************************************************************************)
EXTENDS Slots, TLC

CONSTANTS c1, c2

FirstThree == {1, 2, 3}

(* every list of at most three distinct records to erase                   *)
Distinct == {a \in UNION {[1..n -> FirstThree] : n \in 1..3} :
                \A x, y \in DOMAIN a : a[x] = a[y] => x = y}

(* a record given twice, and one that is not in use                        *)
Careless == {<<1, 1>>, <<4, 1>>}

NoWork == [c \in Copiers |-> <<>>]
OneCopy == c1 :> <<1>> @@ c2 :> <<>>
SharedWork == c1 :> <<1, 2>> @@ c2 :> <<2>>
UnusedWork == c1 :> <<3>> @@ c2 :> <<3, 1>>
SomeSources == <<1, 2, 0>>

(* Two copiers, or none, against every list; two that copy an unused       *)
(* source record against one record to erase; a grower against every list  *)
(* without copiers, and against one copier and lists of at most two.       *)
Mixes ==
    [args : Distinct \cup Careless, work : {NoWork, SharedWork}, grow : {FALSE}]
    \cup [args : Distinct \cup Careless, work : {NoWork}, grow : {TRUE}]
    \cup [args : {a \in Distinct : Len(a) = 1}, work : {UnusedWork}, grow : {FALSE}]
    \cup [args : {a \in Distinct : Len(a) <= 2}, work : {OneCopy}, grow : {TRUE}]
==============================================================================
