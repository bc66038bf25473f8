------------------------------ MODULE SendView ------------------------------
(***************************************************************************)
(* The desktop app's send view: choosing files, collecting them, sharing   *)
(* them with a FlashCatSender in a thread of its own, and a listener that  *)
(* changes the view by what the sender tells, as in ReceiveView.           *)
(***************************************************************************)
EXTENDS Integers, Sequences

CONSTANTS
  Senders,   \* senders the user may start, one after the other
  NewsLimit  \* bound: messages that wait in a channel

NoSender == "none"

ASSUME SendViewAssumption == NewsLimit \in Nat \ {0} /\ NoSender \notin Senders

VARIABLES
  sendView,  \* send_state
  sender,    \* flash_cat_sender
  chosen,    \* there are selected files
  dialogs,   \* a file dialog is open; it does not block the view
  job,       \* the task and thread of each sender
  share,     \* of each sender: "waiting", "sending" or "completed"
  hearing,   \* senders whose listener goes on
  news,      \* messages on their way to the listener
  late,      \* history: the choice of files changed while the view was busy
  overrun    \* history: the view was changed by a sender it does not hold

choiceVars == <<chosen, dialogs, late>>
jobVars == <<job, share, hearing, news>>
sendVars == <<sendView, sender, choiceVars, jobVars, overrun>>

Choosing == sendView \in {"Idle", "FileSelected"}
Sharing == sendView \in {"AwaitingReceive", "Sending"}

SendInit ==
  /\ sendView = "Idle" /\ sender = NoSender
  /\ chosen = FALSE /\ dialogs = FALSE
  /\ job = [s \in Senders |-> "off"] /\ share = [s \in Senders |-> "waiting"]
  /\ hearing = {} /\ news = [s \in Senders |-> <<>>]
  /\ late = FALSE /\ overrun = FALSE

-----------------------------------------------------------------------------
(* Choosing files.                                                         *)

OpenDialog ==
  /\ Choosing /\ ~dialogs
  /\ dialogs' = TRUE
  /\ UNCHANGED <<sendView, sender, chosen, late, jobVars, overrun>>

\* What was picked comes in whatever the view is doing by then.
Picked ==
  /\ dialogs /\ dialogs' = FALSE
  /\ chosen' = TRUE /\ sendView' = "FileSelected"
  /\ late' = (late \/ ~Choosing)
  /\ UNCHANGED <<sender, jobVars, overrun>>

NothingPicked ==
  /\ dialogs /\ dialogs' = FALSE
  /\ UNCHANGED <<sendView, sender, chosen, late, jobVars, overrun>>

\* The list of files, with a button to remove each, is shown while they are
\* collected too; the last one that goes, or a click that cleans the list before
\* that, makes the view idle.
RemoveLast ==
  /\ sendView = "FileSelected" \/ (sendView = "Collecting" /\ chosen)
  /\ chosen' = FALSE /\ sendView' = "Idle"
  /\ late' = (late \/ ~Choosing)
  /\ UNCHANGED <<sender, dialogs, jobVars, overrun>>

-----------------------------------------------------------------------------
(* The button.                                                             *)

\* The files are collected in the background.
Send(s) ==
  /\ sendView = "FileSelected" /\ chosen /\ job[s] = "off"
  /\ sendView' = "Collecting"
  /\ job' = [job EXCEPT ![s] = "collecting"]
  /\ UNCHANGED <<sender, choiceVars, share, hearing, news, overrun>>

\* The sender the view held before is let go, and not shut down.
Collected(s) ==
  /\ job[s] = "collecting"
  /\ sendView' = "AwaitingReceive" /\ sender' = s
  /\ job' = [job EXCEPT ![s] = "starting"]
  /\ hearing' = hearing \cup {s}
  /\ UNCHANGED <<choiceVars, share, news, overrun>>

Halt(s) == job' = [t \in Senders |->
  IF t # s THEN job[t]
  ELSE CASE job[t] = "starting" -> "cut" [] job[t] = "on" -> "closing" [] OTHER -> job[t]]

\* Mutant of CancelSend: a share nobody has received from is not shut down.
CancelSendQuietly ==
  /\ Sharing /\ chosen
  /\ IF sendView = "Sending" THEN Halt(sender) ELSE UNCHANGED job
  /\ sender' = NoSender
  /\ sendView' = "FileSelected"
  /\ UNCHANGED <<choiceVars, share, hearing, news, overrun>>

\* The button needs selected files to be enabled.
CancelSend ==
  /\ Sharing /\ chosen
  /\ Halt(sender) /\ sender' = NoSender
  /\ sendView' = "FileSelected"
  /\ UNCHANGED <<choiceVars, share, hearing, news, overrun>>

ResetSend ==
  /\ sendView = "SendDone" /\ chosen
  /\ sendView' = "Idle" /\ sender' = NoSender /\ chosen' = FALSE
  /\ UNCHANGED <<dialogs, late, jobVars, overrun>>

-----------------------------------------------------------------------------
(* The sender's thread and its listener.                                   *)

Reports(s, message) ==
  /\ job[s] \in {"on", "closing"} /\ Len(news[s]) < NewsLimit
  /\ job' = [job EXCEPT ![s] = IF @ = "closing" \/ s \notin hearing THEN "ended" ELSE @]
  /\ news' = [news EXCEPT ![s] = IF s \in hearing THEN Append(@, message) ELSE @]
  /\ UNCHANGED <<sendView, sender, choiceVars, hearing, overrun>>

SendsOn(s) == /\ share[s] # "completed" /\ Reports(s, "progress")
              /\ share' = [share EXCEPT ![s] = "sending"]
Completes(s) == /\ share[s] # "completed" /\ Reports(s, "completed")
                /\ share' = [share EXCEPT ![s] = "completed"]
Rejected(s) == share[s] = "waiting" /\ Reports(s, "reject") /\ UNCHANGED share
Tells(s, kind) == Reports(s, kind) /\ UNCHANGED share

JobGoes(s, from, to) ==
  /\ job[s] \in from
  /\ job' = [job EXCEPT ![s] = to]
  /\ UNCHANGED <<sendView, sender, choiceVars, share, hearing, news, overrun>>
JobStarted(s) == JobGoes(s, {"starting"}, "on")
JobEnds(s) == JobGoes(s, {"starting", "cut", "closing"}, "ended")

\* After an error, a refusal or the receiver's end the listener stops; the sender
\* is neither let go nor shut down.
Hear(s) ==
  /\ s \in hearing /\ news[s] # <<>>
  /\ LET m == Head(news[s]) IN
     /\ sendView' = CASE m \in {"error", "reject"} -> "FileSelected"
                      [] m = "progress"            -> "Sending"
                      [] m = "completed"           -> "SendDone"
                      [] OTHER                     -> sendView
     /\ hearing' = IF m \in {"error", "reject", "close"} THEN hearing \ {s} ELSE hearing
  /\ news' = [news EXCEPT ![s] = Tail(@)]
  /\ overrun' = (overrun \/ sender # s)
  /\ UNCHANGED <<sender, choiceVars, job, share>>

HearingEnds(s) ==
  /\ s \in hearing /\ news[s] = <<>> /\ job[s] = "ended"
  /\ hearing' = hearing \ {s}
  /\ UNCHANGED <<sendView, sender, choiceVars, job, share, news, overrun>>

SendNext ==
  \/ Picked \/ NothingPicked \/ RemoveLast \/ CancelSend \/ ResetSend
  \/ \E s \in Senders :
       \/ Collected(s) \/ JobStarted(s) \/ JobEnds(s)
       \/ SendsOn(s) \/ Completes(s) \/ Rejected(s) \/ Hear(s) \/ HearingEnds(s)
       \/ \E k \in {"error", "close", "other"} : Tells(s, k)

-----------------------------------------------------------------------------
\* A share that goes on is the one on view, where it can be cancelled, or has
\* reported why it is not: unless files were picked or removed while the view was
\* busy, or a sender that was let go has reported something late.
SharesAreHeld ==
  ~late /\ ~overrun =>
    /\ Sharing => sender # NoSender /\ chosen
    /\ \A s \in Senders : job[s] \in {"starting", "on"} =>
         (s = sender /\ Sharing) \/ s \notin hearing \/ share[s] = "completed"
=============================================================================
