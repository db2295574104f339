----------------------------- MODULE DropOldest -----------------------------
(***************************************************************************)
(* A bounded first-in first-out queue that makes room by dropping its      *)
(* oldest items.  Items are numbered in the order they were offered.       *)
(***************************************************************************)
EXTENDS Naturals, Sequences

CONSTANTS Capacity,   \* items the queue holds
          MaxOffer    \* items offered at once

VARIABLES queue, offered

vars == <<queue, offered>>

Newest(s) == IF Len(s) <= Capacity THEN s ELSE SubSeq(s, Len(s) - Capacity + 1, Len(s))

Init == queue = <<>> /\ offered = 0

Offer(n) ==
  /\ queue' = Newest(queue \o [i \in 1..n |-> offered + i])
  /\ offered' = offered + n

Take(n) ==
  /\ n \in 1..Len(queue)
  /\ queue' = SubSeq(queue, n + 1, Len(queue))
  /\ UNCHANGED offered

Clear == queue' = <<>> /\ UNCHANGED offered

Next ==
  \/ \E n \in 1..MaxOffer : Offer(n)
  \/ \E n \in 1..Capacity : Take(n)
  \/ Clear

Spec == Init /\ [][Next]_vars
=============================================================================
