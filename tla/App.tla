-------------------------------- MODULE App ---------------------------------
(***************************************************************************)
(* The desktop app: its two views and its settings side by side on one     *)
(* main thread.                                                            *)
(***************************************************************************)
EXTENDS ReceiveView, SendView, Settings

vars == <<receiveVars, sendVars, settingsVars>>

Init == ReceiveInit /\ SendInit /\ SettingsInit

\* Bound: a behaviour is followed until a message of a receiver or a sender that
\* its view had let go has changed the view; no property speaks of what comes
\* after.
Followed == ~stale /\ ~overrun

Begins ==
  \/ (\E r \in Receivers : Receive(r)) /\ UNCHANGED <<sendVars, settingsVars>>
  \/ (OpenDialog \/ \E s \in Senders : Send(s)) /\ UNCHANGED <<receiveVars, settingsVars>>
  \/ Change /\ UNCHANGED <<receiveVars, sendVars>>

GoesOn ==
  \/ ReceiveNext /\ UNCHANGED <<sendVars, settingsVars>>
  \/ SendNext /\ UNCHANGED <<receiveVars, settingsVars>>
  \/ SettingsNext /\ UNCHANGED <<receiveVars, sendVars>>

\* The app quits and is opened again.  What a quit does to a transfer is Transfer's
\* lost connection; here it matters for the saves it cuts off.
Restart == ReceiveInit /\ SendInit /\ Reopen /\ UNCHANGED <<receiveVars, sendVars>>

Next == Followed /\ (Begins \/ GoesOn \/ Restart)

Spec == Init /\ [][Next]_vars
=============================================================================
