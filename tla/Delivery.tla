------------------------------- MODULE Delivery -------------------------------
(***************************************************************************)
(* What the notification tasks promise about a message: the provider       *)
(* accepts it only between its announcement and its end, at most Limit     *)
(* times, and an end is final.                                             *)
(***************************************************************************)
EXTENDS Naturals

CONSTANTS Messages, Limit(_)

VARIABLES
    open,      \* messages announced and not ended
    over,      \* messages ended
    copies     \* how often each was accepted

vars == <<open, over, copies>>

Init == open = {} /\ over = {} /\ copies = [m \in Messages |-> 0]

\* Messages that were never heard of are announced together.
Announce ==
    /\ open \subseteq open'
    /\ open' \subseteq Messages \ over
    /\ UNCHANGED <<over, copies>>

\* Some of the open messages end.
End == open' \subseteq open /\ over' = over \cup (open \ open')

Give ==
    /\ \E m \in open : /\ copies[m] < Limit(m)
                       /\ copies' = [copies EXCEPT ![m] = @ + 1]
    /\ End

GiveUp == End /\ UNCHANGED copies

Next == Announce \/ Give \/ GiveUp

Spec == Init /\ [][Next]_vars
=============================================================================
