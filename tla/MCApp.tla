------------------------------- MODULE MCApp --------------------------------
(* A small instance of App for TLC. *)
EXTENDS App, TLC

\* Sound: all properties are invariants.
MCSymmetry ==
  Permutations(Receivers) \cup Permutations(Senders) \cup Permutations(Files)

MCReceiveRests == view = "Idle" /\ note = Plain("none") /\ \A r \in Receivers : thread[r] = "off"
MCSendRests ==
  made = 0 /\ ~dialogs /\ ~chosen /\ \A s \in Senders : job[s] = "off"

\* Bound: the receive view has no variable in common with the send view and the
\* settings, so that one side may rest while the other is followed.
MCOneSide == MCReceiveRests \/ MCSendRests
=============================================================================
