---------------------------- MODULE LossyEvents -----------------------------
(***************************************************************************)
(* What the event bus promises its subscribers: the published events, in   *)
(* the order they were published and each at most once.  Any of them may   *)
(* never come.                                                             *)
(***************************************************************************)
EXTENDS Naturals

CONSTANT Sub

VARIABLES
  published,   \* how many events there have been
  last         \* last[s]: the number of the latest one that came to s

Init == published = 0 /\ last = [s \in Sub |-> 0]

Publish == published' = published + 1 /\ UNCHANGED last

Come(s) ==
  /\ \E n \in 1..published : n > last[s] /\ last' = [last EXCEPT ![s] = n]
  /\ UNCHANGED published

Next == Publish \/ \E s \in Sub : Come(s)

Spec == Init /\ [][Next]_<<published, last>>
=============================================================================
