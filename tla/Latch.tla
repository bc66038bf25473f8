------------------------------- MODULE Latch -------------------------------
(***************************************************************************)
(* What a shutdown signal promises: it is given once and for all, no wait  *)
(* ends before it, and every wait ends after it.                           *)
(***************************************************************************)
CONSTANT Waiters

VARIABLES
  set,     \* the signal was given
  returned \* the waits that ended

vars == <<set, returned>>

Init == set = FALSE /\ returned = {}

Give == set' = TRUE /\ UNCHANGED returned

Return(w) == /\ set
             /\ w \notin returned
             /\ returned' = returned \cup {w}
             /\ UNCHANGED set

Next == Give \/ \E w \in Waiters : Return(w)

SafeSpec == Init /\ [][Next]_vars
Spec == SafeSpec /\ \A w \in Waiters : WF_vars(Return(w))
=============================================================================
