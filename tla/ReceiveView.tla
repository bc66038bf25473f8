---------------------------- MODULE ReceiveView -----------------------------
(***************************************************************************)
(* The desktop app's receive view.  A click starts a FlashCatReceiver in a *)
(* thread of its own (a run); the thread passes what the receiver tells    *)
(* through an unbounded channel to a listener on the app's main thread,    *)
(* which changes the view.  Answers go to the receiver the view holds.     *)
(*                                                                         *)
(* A receiver tells here what its handlers tell, in any order: the relay's *)
(* every Ready has the sender ask for consent again, and every send_files  *)
(* of a sender that comes back offers its files again.  The contents and   *)
(* the progress bars are left out.                                         *)
(***************************************************************************)
EXTENDS Integers, Sequences, FiniteSets

CONSTANTS
  Receivers,      \* receivers the user may start, one after the other
  Files,          \* files of each share
  Backlog         \* bound: messages that wait in a channel

None == "none"

ASSUME ReceiveViewAssumption == Backlog \in Nat \ {0} /\ None \notin Receivers

VARIABLES
  view,       \* receive_state
  current,    \* flash_cat_receiver
  note,       \* notification
  thread,     \* the thread of each run
  listening,  \* runs whose listener goes on
  told,       \* messages on their way to the listener
  answers,    \* confirms given to each receiver, which nobody takes once its
              \* thread has ended
  waits,      \* questions the receiver the view holds waits for an answer to
  stale,      \* history: the view was changed by a run it does not hold
  covered     \* history: a question on display was replaced, or cleared, before
              \* its answer

viewVars == <<view, current, note>>
receiveVars ==
  <<viewVars, thread, waits, listening, told, answers, stale, covered>>

Plain(kind) == [kind |-> kind, asker |-> None, file |-> None]
Share(r) == [kind |-> "share", asker |-> r, file |-> None]
Duplicate(r, f) == [kind |-> "file", asker |-> r, file |-> f]
IsQuestion(n) == n.kind \in {"share", "file"}

ReceiveInit ==
  /\ view = "Idle" /\ current = None /\ note = Plain("none")
  /\ thread = [r \in Receivers |-> "off"]
  /\ listening = {} /\ told = [r \in Receivers |-> <<>>]
  /\ answers = [r \in Receivers |-> {}]
  /\ waits = {} /\ stale = FALSE /\ covered = FALSE

-----------------------------------------------------------------------------
(* The receiver in its thread.                                             *)

\* After shutdown the stream yields at most one message more.  Without its
\* listener the thread ends at the next message, and the receiver with it.
Tell(r, messages) ==
  /\ thread[r] \in {"on", "closing"}
  /\ Len(told[r]) < Backlog
  /\ thread' = [thread EXCEPT ![r] =
       IF @ = "closing" \/ r \notin listening THEN "ended" ELSE @]
  /\ told' = [told EXCEPT ![r] =
       IF r \notin listening THEN @
       ELSE @ \o IF thread[r] = "closing" THEN <<Head(messages)>> ELSE messages]
  /\ answers' = [answers EXCEPT ![r] = IF thread'[r] = "ended" THEN {} ELSE @]
  /\ UNCHANGED <<viewVars, listening, stale, covered>>

Waits(r, q) == waits' = IF r = current THEN waits \cup {q} ELSE waits

\* SendRequest: the sender asks with every Ready, also while files come in.
Asks(r) == Tell(r, <<Share(r)>>) /\ Waits(r, Share(r))

\* NewFileRequest: the file is new, or exists and is asked about.
OfferNew(r) == Tell(r, <<Plain("new")>>) /\ UNCHANGED waits

OfferExisting(r, f) ==
  Tell(r, <<Plain("new"), Duplicate(r, f)>>) /\ Waits(r, Duplicate(r, f))

\* The view moves the progress bar of a breakpoint and asks nothing: the sender
\* goes on with the next file when it is tired of waiting.
OfferBreakPoint(r) == Tell(r, <<Plain("new"), Plain("breakPoint")>>) /\ UNCHANGED waits

AllDone(r) == Tell(r, <<Plain("done")>>) /\ UNCHANGED waits

\* Reconnections, errors and the sender's end.
Other(r, kind) == Tell(r, <<Plain(kind)>>) /\ UNCHANGED waits

\* The receiver's loop passes an answer on to the sender.
TakeAnswer(r, a) ==
  /\ thread[r] \in {"on", "closing"} /\ a \in answers[r]
  /\ answers' = [answers EXCEPT ![r] = @ \ {a}]
  /\ waits' = IF r = current THEN waits \ {a.question} ELSE waits
  /\ UNCHANGED <<viewVars, thread, listening, told, stale, covered>>

ThreadGoes(r, from, to) ==
  /\ thread[r] \in from
  /\ thread' = [thread EXCEPT ![r] = to]
  /\ answers' = [answers EXCEPT ![r] = IF to = "ended" THEN {} ELSE @]
  /\ UNCHANGED <<viewVars, waits, listening, told, stale, covered>>

Started(r) == ThreadGoes(r, {"starting"}, "on")
\* An error of start, and the end of the stream, are told to nobody.
Ends(r) == ThreadGoes(r, {"starting", "cut", "closing"}, "ended")

-----------------------------------------------------------------------------
(* The listener.                                                           *)

\* The message takes an unanswered question off the display: another question, a
\* text or the end on top of it; and of a question about the share, a file.
Hides(m) ==
  /\ IsQuestion(note) /\ note.asker = current
  /\ note \in waits
  /\ \/ IsQuestion(m) /\ m # note
     \/ m.kind \in {"message", "done"}
     \/ note.kind = "share" /\ m.kind = "new"

\* Mutant of ShowNew: the notification is cleared at every file.
ShowNewClears(m) == /\ m.kind = "new"
                    /\ view' = "Receiving" /\ note' = Plain("none")

\* Only the first file clears the notification, and the first one after the share
\* was asked about again.
ShowNew(m) ==
  /\ m.kind = "new"
  /\ view' = "Receiving"
  /\ note' = IF view = "Receiving" THEN note ELSE Plain("none")

Show(m) ==
  \/ m.kind = "message" /\ note' = m /\ UNCHANGED view
  \/ m.kind = "error" /\ note' = m /\ view' = "Idle"
  \/ m.kind = "share" /\ note' = m /\ view' = "AwaitingConfirm"
  \/ m.kind = "file" /\ note' = m /\ UNCHANGED view
  \/ ShowNew(m)
  \/ m.kind \in {"breakPoint", "close"} /\ UNCHANGED <<view, note>>
  \/ m.kind = "done" /\ note' = m /\ view' = "ReceiveDone"

Listen(r) ==
  /\ r \in listening /\ told[r] # <<>>
  /\ LET m == Head(told[r]) IN
     /\ Show(m)
     /\ listening' = IF m.kind \in {"error", "close"} THEN listening \ {r} ELSE listening
     /\ covered' = (covered \/ (current = r /\ Hides(m)))
  /\ told' = [told EXCEPT ![r] = Tail(@)]
  /\ stale' = (stale \/ current # r)
  /\ UNCHANGED <<current, thread, waits, answers>>

\* The channel is empty and its other end gone.
ListenerEnds(r) ==
  /\ r \in listening /\ told[r] = <<>> /\ thread[r] = "ended"
  /\ listening' = listening \ {r}
  /\ UNCHANGED <<viewVars, thread, waits, told, answers, stale, covered>>

-----------------------------------------------------------------------------
(* The user.                                                               *)

\* What is on display, and the progress of an earlier run, stay.
Receive(r) ==
  /\ view = "Idle" /\ thread[r] = "off"
  /\ view' = "Connecting" /\ current' = r /\ waits' = {}
  /\ thread' = [thread EXCEPT ![r] = "starting"]
  /\ listening' = listening \cup {r}
  /\ UNCHANGED <<note, told, answers, stale, covered>>

\* FlashCatReceiver::new has failed.
ReceiveFails ==
  /\ view = "Idle"
  /\ note' = Plain("error")
  /\ UNCHANGED <<view, current, thread, waits, listening, told, answers, stale, covered>>

\* FlashCatReceiver::shutdown of the receiver the view holds, which it lets go.
LetGo ==
  /\ current' = None /\ waits' = {}
  /\ thread' = [r \in Receivers |->
       IF r # current THEN thread[r]
       ELSE CASE thread[r] = "starting" -> "cut" [] thread[r] = "on" -> "closing"
              [] OTHER -> thread[r]]
  /\ UNCHANGED <<listening, told, stale, covered>>

\* Mutant of CancelReceive: the question stays on display.
CancelReceiveAsking ==
  /\ view \in {"Connecting", "AwaitingConfirm", "Receiving"}
  /\ view' = "Idle" /\ LetGo
  /\ UNCHANGED <<note, answers>>

CancelReceive ==
  /\ view \in {"Connecting", "AwaitingConfirm", "Receiving"}
  /\ view' = "Idle" /\ note' = Plain("none") /\ LetGo
  /\ UNCHANGED answers

\* After completion the receiver is let go without its shutdown.
ResetReceive ==
  /\ view = "ReceiveDone"
  /\ view' = "Idle" /\ note' = Plain("none") /\ current' = None /\ waits' = {}
  /\ UNCHANGED <<thread, listening, told, answers, stale, covered>>

\* send_confirm: to the receiver the view holds, whoever has asked.
Confirm(accept) ==
  answers' = [r \in Receivers |->
    IF r = current THEN answers[r] \cup {[question |-> note, accept |-> accept]}
    ELSE answers[r]]

Answer(accept) ==
  /\ IsQuestion(note) /\ (note.kind = "file" \/ accept)
  /\ Confirm(accept)
  /\ note' = Plain("none")
  /\ UNCHANGED <<view, current, thread, waits, listening, told, stale, covered>>

RefuseShare ==
  /\ note.kind = "share"
  /\ Confirm(FALSE)
  /\ note' = Plain("none") /\ view' = "Idle" /\ LetGo

\* Open the directory or not.
LeaveDone ==
  /\ note.kind = "done"
  /\ note' = Plain("none")
  /\ UNCHANGED <<view, current, thread, waits, listening, told, answers, stale, covered>>

ReceiveNext ==
  \/ ReceiveFails \/ CancelReceive \/ ResetReceive \/ RefuseShare \/ LeaveDone
  \/ \E b \in BOOLEAN : Answer(b)
  \/ \E r \in Receivers :
       \/ Asks(r) \/ OfferNew(r) \/ OfferBreakPoint(r) \/ AllDone(r)
       \/ Started(r) \/ Ends(r) \/ Listen(r) \/ ListenerEnds(r)
       \/ \E k \in {"message", "error", "close"} : Other(r, k)
       \/ \E f \in Files : OfferExisting(r, f)
       \/ \E a \in answers[r] : TakeAnswer(r, a)

-----------------------------------------------------------------------------
\* A receiver is never told the answer to another one's question, a view that
\* shows a transfer has a receiver to cancel, and one that shows none has no
\* receiver that is listened to: as long as no message of a receiver that was let
\* go, which its listener does not tell from the others, has changed the view.
OwnAnswer ==
  ~stale =>
    /\ \A r \in Receivers : \A a \in answers[r] : a.question.asker = r
    /\ view # "Idle" => current # None
    /\ view = "Idle" => current \notin listening

\* A receiver whose question is not on display, nor on its way there or back,
\* waits in vain.  A question about a file is lost only to another question, a text
\* or the end on top of it, whatever files, breakpoints and answers to others come
\* in between, and however often the share is asked about; a question about the
\* share is lost also to the first file that comes while it is on display.
NoQuestionLost ==
  ~stale /\ ~covered /\ current \in listening /\ thread[current] = "on" =>
    \A q \in waits :
      \/ note = q
      \/ \E i \in DOMAIN told[current] : told[current][i] = q
      \/ \E b \in BOOLEAN : [question |-> q, accept |-> b] \in answers[current]
=============================================================================
