----------------------------- MODULE AppProofs ------------------------------
(***************************************************************************)
(* Proofs about the desktop app, for any receivers, senders and files, any *)
(* number of settings changes and any bounds of the channels.  The views   *)
(* and the settings have no variable in common: each has an invariant of   *)
(* its own, which the steps of the others leave alone.                     *)
(***************************************************************************)
EXTENDS App, TLAPS

-----------------------------------------------------------------------------
(* The settings.                                                           *)

States == Nat \cup {Mixed}
Saves == [state : Nat, open : BOOLEAN]

SettingsType ==
  /\ memory \in Nat /\ file \in States /\ made \in Nat
  /\ saves \subseteq Saves
  /\ spoilt \in BOOLEAN

\* At most one save runs, of the state in memory; while it has the file open
\* nothing else was written to it.
IsTheSave(w) == saves = {w} /\ w.state = memory /\ (w.open => file = 0)

OneSave ==
  ~spoilt => (saves = {} /\ file = memory) \/ (\E w \in saves : IsTheSave(w))

SettingsInv == SettingsType /\ OneSave

-----------------------------------------------------------------------------
(* The send view.                                                          *)

JobStates == {"off", "collecting", "starting", "on", "cut", "closing", "ended"}
News == {"progress", "completed", "reject", "error", "close", "other"}

SendType ==
  /\ sendView \in {"Idle", "FileSelected", "Collecting", "AwaitingReceive",
                   "Sending", "SendDone"}
  /\ sender \in Senders \cup {NoSender}
  /\ chosen \in BOOLEAN /\ dialogs \in BOOLEAN
  /\ late \in BOOLEAN /\ overrun \in BOOLEAN
  /\ job \in [Senders -> JobStates]
  /\ share \in [Senders -> {"waiting", "sending", "completed"}]
  /\ hearing \subseteq Senders
  /\ news \in [Senders -> Seq(News)]

\* A share is completed before that is told.
CompletedFirst ==
  \A s \in Senders : \A i \in DOMAIN news[s] :
    news[s][i] = "completed" => share[s] = "completed"

\* The sender the view holds is listened to only while it is on view, files are
\* collected for a share to come only then, and one that is let go by a reset has
\* completed.
HeldOnView ==
  /\ sender \in hearing => chosen /\ (Sharing \/ sendView = "SendDone")
  /\ sender \in hearing /\ sendView = "SendDone" => share[sender] = "completed"
  /\ \A s \in Senders : job[s] = "collecting" =>
       /\ chosen /\ sendView = "Collecting"
       /\ \A t \in Senders : job[t] = "collecting" => t = s

OnView == ~late /\ ~overrun => HeldOnView

SendInv == SendType /\ CompletedFirst /\ OnView /\ SharesAreHeld

-----------------------------------------------------------------------------
(* The receive view.                                                       *)

Kinds == {"none", "new", "breakPoint", "done", "message", "error", "close"}
Questions(r) == {Share(r)} \cup {Duplicate(r, f) : f \in Files}
Messages(r) == {Plain(k) : k \in Kinds} \cup Questions(r)

ReceiveType ==
  /\ view \in {"Idle", "Connecting", "AwaitingConfirm", "Receiving", "ReceiveDone"}
  /\ current \in Receivers \cup {None}
  /\ listening \subseteq Receivers
  /\ thread \in [Receivers -> {"off", "starting", "on", "cut", "closing", "ended"}]
  /\ DOMAIN told = Receivers /\ \A r \in Receivers : told[r] \in Seq(Messages(r))
  /\ \A r \in Receivers : r = current => waits \subseteq Questions(r)
  /\ DOMAIN answers = Receivers
  /\ stale \in BOOLEAN /\ covered \in BOOLEAN

\* What is on display comes from the receiver the view holds, and a question about
\* a file is there only while files come in.
OwnDisplay ==
  /\ IsQuestion(note) => current \in Receivers /\ note \in Questions(current)
  /\ view = "Idle" => ~IsQuestion(note)
  /\ note.kind = "file" => view = "Receiving"

\* The answers are to questions of the receiver they are given to.
OwnAnswers ==
  \A r \in Receivers : \A a \in answers[r] :
    a.question \in Questions(r) /\ a.accept \in BOOLEAN

\* A receiver asks and tells nothing before it runs, and asks about a file right
\* after it has offered it.
TurnOf(r) ==
  /\ thread[r] \in {"off", "starting"} => told[r] = <<>> /\ (r = current => waits = {})
  /\ \A i \in DOMAIN told[r] : told[r][i].kind = "file" =>
       IF i = 1 THEN r = current => view = "Receiving" ELSE told[r][i - 1].kind = "new"

InTurn == \A r \in Receivers : TurnOf(r)

Viewed ==
  /\ view # "Idle" => current # None
  /\ view = "Idle" => current \notin listening

\* A question a receiver waits for is on display, or on its way there or back.
OnTheWay(r, q) == \E i \in DOMAIN told[r] : told[r][i] = q
Answered(r, q) == \E b \in BOOLEAN : [question |-> q, accept |-> b] \in answers[r]

NoLoss ==
  \A r \in Receivers :
    r = current /\ r \in listening /\ thread[r] = "on" =>
      \A q \in waits : note = q \/ OnTheWay(r, q) \/ Answered(r, q)

Orderly == OwnDisplay /\ OwnAnswers /\ InTurn /\ Viewed

ReceiveInv ==
  ReceiveType /\ (~stale => Orderly) /\ (~stale /\ ~covered => NoLoss)

AppInv == SettingsInv /\ SendInv /\ ReceiveInv

-----------------------------------------------------------------------------
(* Proofs: the settings.                                                   *)

\* The app starts with the settings of its file.
LEMMA SettingsStart == SettingsInit => SettingsInv
<1> SUFFICES ASSUME SettingsInit PROVE SettingsInv
  OBVIOUS
<1>1. SettingsType BY DEF SettingsInit, SettingsType, States
<1>2. OneSave BY DEF SettingsInit, OneSave
<1>3. QED BY <1>1, <1>2 DEF SettingsInv

\* What the steps of a save make of its record.
LEMMA SaveRecord ==
  /\ \A n \in Nat : LET w == [state |-> n, open |-> FALSE] IN
       w \in Saves /\ w.state = n /\ ~w.open
  /\ \A w \in Saves : LET v == [w EXCEPT !.open = TRUE] IN
       v \in Saves /\ v.state = w.state
BY DEF Saves

\* A change while no save runs starts the only one.
LEMMA ChangeKept == SettingsInv /\ Change => SettingsInv'
<1> SUFFICES ASSUME SettingsInv, Change PROVE SettingsInv'
  OBVIOUS
<1>1. /\ memory' = made + 1 /\ made' = made + 1 /\ file' = file
      /\ saves' = saves \cup {[state |-> made + 1, open |-> FALSE]}
      /\ spoilt' = (spoilt \/ saves # {})
  BY DEF Change, Save
<1>2. /\ memory \in Nat /\ file \in States /\ made \in Nat /\ saves \subseteq Saves
      /\ spoilt \in BOOLEAN
  BY DEF SettingsInv, SettingsType
<1> DEFINE w == [state |-> made + 1, open |-> FALSE]
<1>3. w \in Saves /\ w.state = made + 1 /\ ~w.open
  BY <1>2, SaveRecord
<1>4. saves' = saves \cup {w} BY <1>1
<1> HIDE DEF w
<1>5. SettingsType'
  BY <1>1, <1>2, <1>3, <1>4 DEF SettingsType
<1>6. OneSave'
  BY <1>1, <1>2, <1>3, <1>4 DEF OneSave, IsTheSave
<1>7. QED BY <1>5, <1>6 DEF SettingsInv

\* The steps of a save.
LEMMA SaveKept == ASSUME SettingsInv, SettingsNext PROVE SettingsInv'
<1> PICK w \in saves : Truncate(w) \/ Write(w) \/ SaveFails(w)
  BY DEF SettingsNext
<1>0. /\ w \in Saves /\ w.state \in Nat /\ memory \in Nat /\ spoilt \in BOOLEAN
      /\ file \in States /\ made \in Nat /\ saves \subseteq Saves
  BY DEF SettingsInv, SettingsType, Saves
<1>01. ~spoilt => IsTheSave(w)
  <2> SUFFICES ASSUME ~spoilt PROVE IsTheSave(w)
    OBVIOUS
  <2>1. PICK v \in saves : IsTheSave(v)
    BY DEF SettingsInv, OneSave
  <2>2. v = w BY <2>1 DEF IsTheSave
  <2>3. QED BY <2>1, <2>2
<1>1. CASE Truncate(w)
  <2> DEFINE v == [w EXCEPT !.open = TRUE]
  <2>1. v \in Saves /\ v.state = w.state
    BY <1>0, SaveRecord
  <2>2. /\ ~w.open /\ file' = 0 /\ UNCHANGED <<memory, made, spoilt>>
        /\ saves' = (saves \ {w}) \cup {v}
    BY <1>1 DEF Truncate
  <2> HIDE DEF v
  <2>3. SettingsType'
    BY <1>0, <2>1, <2>2 DEF SettingsType, States
  <2>4. OneSave'
    BY <1>0, <1>01, <2>1, <2>2 DEF OneSave, IsTheSave
  <2>5. QED BY <2>3, <2>4 DEF SettingsInv
<1>2. CASE Write(w)
  <2>1. SettingsType' BY <1>0, <1>2 DEF Write, SettingsType, States
  <2>2. OneSave' BY <1>0, <1>01, <1>2 DEF Write, OneSave, IsTheSave
  <2>3. QED BY <2>1, <2>2 DEF SettingsInv
<1>3. CASE SaveFails(w)
  <2>1. SettingsType' BY <1>0, <1>3 DEF SaveFails, SettingsType
  <2>2. OneSave' BY <1>3 DEF SaveFails, OneSave
  <2>3. QED BY <2>1, <2>2 DEF SettingsInv
<1>4. QED BY <1>1, <1>2, <1>3

\* The app is opened again.
LEMMA ReopenKept == SettingsInv /\ Reopen => SettingsInv'
<1> SUFFICES ASSUME SettingsInv, Reopen PROVE SettingsInv'
  OBVIOUS
<1>1. SettingsType' BY DEF SettingsInv, SettingsType, Reopen, States
<1>2. OneSave'
  <2> SUFFICES ASSUME ~spoilt' PROVE saves' = {} /\ file' = memory'
    BY DEF OneSave, IsTheSave
  <2>1. ~spoilt /\ saves = {} BY DEF Reopen, SettingsInv, SettingsType
  <2>2. file = memory /\ memory \in Nat
    BY <2>1 DEF SettingsInv, SettingsType, OneSave
  <2>3. QED BY <2>2 DEF Reopen, Mixed
<1>3. QED BY <1>1, <1>2 DEF SettingsInv

-----------------------------------------------------------------------------
(* Proofs: the send view.                                                  *)

\* The send view starts with nothing chosen and nobody listened to.
LEMMA SendStart == SendInit => SendInv
<1> SUFFICES ASSUME SendInit PROVE SendInv
  OBVIOUS
<1> USE DEF SendInit
<1>1. SendType
  <2>1. <<>> \in Seq(News) OBVIOUS
  <2>2. news \in [Senders -> Seq(News)] BY <2>1
  <2>3. QED BY <2>2 DEF SendType, JobStates
<1>2. CompletedFirst BY DEF CompletedFirst
<1>3. OnView BY DEF OnView, HeldOnView
<1>4. SharesAreHeld BY DEF SharesAreHeld, Sharing
<1>5. QED BY <1>1, <1>2, <1>3, <1>4 DEF SendInv

\* The user: steps that leave the shares and what is told of them alone.
LEMMA ChoiceStep ==
  ASSUME SendInv,
         OpenDialog \/ Picked \/ NothingPicked \/ RemoveLast \/ ResetSend
  PROVE  SendInv'
<1> USE DEF OpenDialog, Picked, NothingPicked, RemoveLast, ResetSend, jobVars, choiceVars,
            Choosing, Sharing
<1>1. SendType'
  BY DEF SendInv, SendType
<1>2. CompletedFirst'
  BY DEF SendInv, CompletedFirst
<1>3. OnView'
  <2> SUFFICES ASSUME ~late', ~overrun'
               PROVE  HeldOnView'
    BY DEF OnView
  <2>1. ~late /\ ~overrun /\ HeldOnView
    BY DEF SendInv, OnView, SendType
  <2>2. UNCHANGED <<job, share, hearing>> /\ sender' \in {sender, NoSender}
    OBVIOUS
  <2>3. NoSender \notin hearing BY SendViewAssumption DEF SendInv, SendType
  <2>4. CASE OpenDialog \/ NothingPicked
    BY <2>1, <2>4 DEF HeldOnView
  <2>5. CASE Picked
    BY <2>1, <2>2, <2>5 DEF HeldOnView, SendInv, SendType
  <2>6. CASE RemoveLast
    BY <2>1, <2>2, <2>6 DEF HeldOnView, SendInv, SendType
  <2>7. CASE ResetSend
    BY <2>1, <2>2, <2>3, <2>7 DEF HeldOnView
  <2>8. QED BY <2>4, <2>5, <2>6, <2>7
<1>4. SharesAreHeld'
  BY DEF SendInv, OnView, HeldOnView, SendType, SharesAreHeld
<1>5. QED BY <1>1, <1>2, <1>3, <1>4 DEF SendInv

\* Files are collected for a share.
LEMMA SendStep ==
  ASSUME SendInv, NEW s \in Senders, Send(s)
  PROVE  SendInv'
<1> USE DEF Send, choiceVars, Choosing, Sharing
<1>1. SendType'
  BY DEF SendInv, SendType, JobStates
<1>2. CompletedFirst'
  BY DEF SendInv, CompletedFirst
<1>3. OnView'
  <2> SUFFICES ASSUME ~late', ~overrun'
               PROVE  HeldOnView'
    BY DEF OnView
  <2>1. ~late /\ ~overrun /\ HeldOnView
    BY DEF SendInv, OnView, SendType
  <2>2. QED BY <2>1 DEF HeldOnView, SendInv, SendType
<1>4. SharesAreHeld'
  BY DEF SendInv, OnView, HeldOnView, SendType, SharesAreHeld
<1>5. QED BY <1>1, <1>2, <1>3, <1>4 DEF SendInv

\* The view takes the new sender, and lets the one before go.
LEMMA CollectedStep ==
  ASSUME SendInv, NEW s \in Senders, Collected(s)
  PROVE  SendInv'
<1> USE SendViewAssumption DEF Collected, choiceVars, Choosing, Sharing
<1>1. SendType'
  BY DEF SendInv, SendType, JobStates
<1>2. CompletedFirst'
  BY DEF SendInv, CompletedFirst
<1>3. OnView'
  <2> SUFFICES ASSUME ~late', ~overrun'
               PROVE  HeldOnView'
    BY DEF OnView
  <2>1. ~late /\ ~overrun /\ HeldOnView
    BY DEF SendInv, OnView, SendType
  <2>2. QED BY <2>1 DEF HeldOnView, SendInv, SendType
<1>4. SharesAreHeld'
  BY DEF SendInv, OnView, HeldOnView, SendType, SharesAreHeld
<1>5. QED BY <1>1, <1>2, <1>3, <1>4 DEF SendInv

\* A cancelled share is shut down.
LEMMA CancelStep ==
  ASSUME SendInv, CancelSend
  PROVE  SendInv'
<1> USE SendViewAssumption DEF CancelSend, choiceVars, Choosing, Sharing
<1>0. /\ job' \in [Senders -> JobStates]
      /\ \A t \in Senders \ {sender} : job'[t] = job[t]
      /\ \A t \in Senders : /\ job'[t] = "collecting" => job[t] = "collecting"
                            /\ t = sender => job'[t] \notin {"starting", "on"}
  BY DEF SendInv, SendType, Halt, JobStates
<1>1. SendType'
  BY <1>0 DEF SendInv, SendType
<1>2. CompletedFirst'
  BY DEF SendInv, CompletedFirst
<1>3. OnView'
  BY <1>0 DEF SendInv, OnView, HeldOnView, SendType
<1>4. SharesAreHeld'
  BY <1>0 DEF SendInv, SendType, SharesAreHeld
<1>5. QED BY <1>1, <1>2, <1>3, <1>4 DEF SendInv

\* A message put into a channel.
LEMMA Appended ==
  ASSUME NEW S, NEW q \in Seq(S), NEW m \in S
  PROVE  /\ Append(q, m) \in Seq(S)
         /\ \A i \in DOMAIN Append(q, m) : Append(q, m)[i] = m \/ (i \in DOMAIN q /\ Append(q, m)[i] = q[i])
OBVIOUS

\* A sender's thread starts, ends or tells something.
LEMMA JobStep ==
  ASSUME SendInv, NEW s \in Senders,
         \/ JobStarted(s) \/ JobEnds(s) \/ SendsOn(s) \/ Completes(s) \/ Rejected(s)
         \/ \E k \in {"error", "close", "other"} : Tells(s, k)
  PROVE  SendInv'
<1> USE DEF SendInv, SendType, choiceVars
<1>1. /\ UNCHANGED <<sendView, sender, choiceVars, hearing, overrun>>
      /\ job' \in [Senders -> JobStates]
      /\ \A t \in Senders : /\ job'[t] = "collecting" => job[t] = "collecting"
                            /\ job'[t] \in {"starting", "on"} => job[t] \in {"starting", "on"}
  BY DEF JobStarted, JobEnds, JobGoes, SendsOn, Completes, Rejected, Tells, Reports, JobStates
<1>2. /\ share' \in [Senders -> {"waiting", "sending", "completed"}]
      /\ \A t \in Senders : share[t] = "completed" => share'[t] = "completed"
  BY DEF JobStarted, JobEnds, JobGoes, SendsOn, Completes, Rejected, Tells, Reports
<1>3. \/ UNCHANGED news
      \/ \E m \in News : /\ m = "completed" => share'[s] = "completed"
                         /\ news' = [news EXCEPT ![s] = Append(@, m)]
  <2> DEFINE Told == \/ UNCHANGED news
                     \/ \E m \in News : /\ m = "completed" => share'[s] = "completed"
                                        /\ news' = [news EXCEPT ![s] = Append(@, m)]
  <2>1. ASSUME NEW m \in News, Reports(s, m), m = "completed" => share'[s] = "completed"
        PROVE  Told
    <3>1. news' = [news EXCEPT ![s] = IF s \in hearing THEN Append(@, m) ELSE @]
      BY <2>1 DEF Reports
    <3>2. CASE s \in hearing BY <2>1, <3>1, <3>2
    <3>3. CASE s \notin hearing BY <3>1, <3>3
    <3>4. QED BY <3>2, <3>3
  <2>2. CASE JobStarted(s) \/ JobEnds(s) BY <2>2 DEF JobStarted, JobEnds, JobGoes
  <2>3. CASE SendsOn(s) BY <2>1, <2>3 DEF SendsOn, News
  <2>4. CASE Completes(s) BY <2>1, <2>4 DEF Completes, News
  <2>5. CASE Rejected(s) BY <2>1, <2>5 DEF Rejected, News
  <2>6. ASSUME NEW k \in {"error", "close", "other"}, Tells(s, k) PROVE Told
    BY <2>1, <2>6 DEF Tells, News
  <2>7. QED BY <2>2, <2>3, <2>4, <2>5, <2>6
<1>4. /\ news' \in [Senders -> Seq(News)]
      /\ CompletedFirst'
  <2>1. CASE UNCHANGED news
    BY <1>2, <2>1 DEF CompletedFirst
  <2>2. CASE ~ UNCHANGED news
    <3>1. PICK m \in News : /\ m = "completed" => share'[s] = "completed"
                            /\ news' = [news EXCEPT ![s] = Append(@, m)]
      BY <1>3, <2>2
    <3>2. news[s] \in Seq(News) OBVIOUS
    <3>3. \A i \in DOMAIN news'[s] : news'[s][i] = m \/ (i \in DOMAIN news[s] /\ news'[s][i] = news[s][i])
      BY <3>1, <3>2
    <3>4. CompletedFirst'
      BY <1>2, <3>1, <3>3 DEF CompletedFirst
    <3>5. QED BY <3>1, <3>2, <3>4, Appended
  <2>3. QED BY <2>1, <2>2
<1>5. OnView'
  BY <1>1, <1>2 DEF OnView, HeldOnView, Sharing
<1>6. SharesAreHeld'
  BY <1>1, <1>2 DEF SharesAreHeld, Sharing
<1>7. QED BY <1>1, <1>2, <1>4, <1>5, <1>6

\* The listener changes the view.
LEMMA HearStep ==
  ASSUME SendInv, NEW s \in Senders, Hear(s) \/ HearingEnds(s)
  PROVE  SendInv'
<1> USE DEF SendInv, SendType, choiceVars
<1>1. CASE HearingEnds(s)
  <2> USE <1>1 DEF HearingEnds
  <2>1. CompletedFirst' BY DEF CompletedFirst
  <2>2. OnView' BY DEF OnView, HeldOnView, Sharing
  <2>3. SharesAreHeld' BY DEF SharesAreHeld, Sharing
  <2>4. QED BY <2>1, <2>2, <2>3
<1>2. CASE Hear(s)
  <2> DEFINE m == Head(news[s])
  <2>0. news[s] \in Seq(News) /\ news[s] # <<>> BY <1>2 DEF Hear
  <2>1. m \in News /\ Tail(news[s]) \in Seq(News)
        /\ (m = "completed" => share[s] = "completed")
    BY <2>0 DEF CompletedFirst
  <2>2. /\ news' = [news EXCEPT ![s] = Tail(news[s])]
        /\ UNCHANGED <<sender, choiceVars, job, share>>
        /\ overrun' = (overrun \/ sender # s)
        /\ hearing' = IF m \in {"error", "reject", "close"} THEN hearing \ {s} ELSE hearing
        /\ s \in hearing
        /\ m \in {"error", "reject"} => sendView' = "FileSelected"
        /\ m = "progress" => sendView' = "Sending"
        /\ m = "completed" => sendView' = "SendDone"
        /\ m \in {"close", "other"} => sendView' = sendView
    BY <1>2 DEF Hear
  <2> HIDE DEF m
  <2>3. CompletedFirst'
    <3>1. \A i \in DOMAIN Tail(news[s]) : i + 1 \in DOMAIN news[s] /\ Tail(news[s])[i] = news[s][i + 1]
      BY <2>0
    <3>2. QED BY <2>2, <3>1 DEF CompletedFirst
  <2>4. SendType'
    BY <2>1, <2>2 DEF News
  <2>5. OnView'
    BY <2>1, <2>2 DEF OnView, HeldOnView, Sharing, News
  <2>6. SharesAreHeld'
    BY <2>1, <2>2, SendViewAssumption DEF OnView, HeldOnView, SharesAreHeld, Sharing, News
  <2>7. QED BY <2>3, <2>4, <2>5, <2>6
<1>3. QED BY <1>1, <1>2

\* Every step of the send view.
LEMMA SendKept ==
  ASSUME SendInv, \/ OpenDialog \/ (\E s \in Senders : Send(s))
                  \/ SendNext \/ UNCHANGED sendVars
  PROVE  SendInv'
<1>1. CASE UNCHANGED sendVars
  BY <1>1 DEF sendVars, choiceVars, jobVars, SendInv, SendType, CompletedFirst, OnView, HeldOnView,
              SharesAreHeld, Sharing
<1>2. QED
  BY <1>1, ChoiceStep, SendStep, CollectedStep, CancelStep, JobStep, HearStep DEF SendNext

-----------------------------------------------------------------------------
(* Proofs: the receive view.                                               *)

\* The messages and the questions of a receiver.
LEMMA QuestionFacts ==
  ASSUME NEW r
  PROVE  /\ \A q \in Questions(r) : /\ IsQuestion(q) /\ q.asker = r
                                    /\ q = Share(r) \/ q.kind = "file"
                                    /\ q.kind = "share" => q = Share(r)
         /\ \A m \in Messages(r) : /\ IsQuestion(m) => m \in Questions(r)
                                   /\ m.kind \in Kinds \cup {"share", "file"}
         /\ Share(r) \in Questions(r) /\ Share(r).kind = "share"
         /\ \A f \in Files : Duplicate(r, f) \in Questions(r) /\ Duplicate(r, f).kind = "file"
         /\ Questions(r) \subseteq Messages(r)
         /\ \A k \in Kinds : /\ Plain(k) \in Messages(r) /\ Plain(k).kind = k
                             /\ ~IsQuestion(Plain(k))
BY DEF Questions, Messages, IsQuestion, Share, Duplicate, Plain, Kinds

\* The receive view starts idle and without a receiver.
LEMMA ReceiveStart == ReceiveInit => ReceiveInv
<1> SUFFICES ASSUME ReceiveInit PROVE ReceiveInv
  OBVIOUS
<1> USE DEF ReceiveInit
<1>1. ~IsQuestion(note) /\ note.kind # "file"
  BY DEF IsQuestion, Plain
<1>2. ReceiveType
  <2>1. \A r \in Receivers : <<>> \in Seq(Messages(r)) OBVIOUS
  <2>2. QED BY <2>1 DEF ReceiveType
<1>3. OwnDisplay BY <1>1 DEF OwnDisplay
<1>4. OwnAnswers BY DEF OwnAnswers
<1>5. InTurn BY DEF InTurn, TurnOf
<1>6. Viewed BY DEF Viewed
<1>7. NoLoss BY DEF NoLoss
<1>8. QED BY <1>2, <1>3, <1>4, <1>5, <1>6, <1>7 DEF ReceiveInv, Orderly

\* The parts of the invariant that speak of the view alone.
LEMMA SameView ==
  ASSUME OwnDisplay, OwnAnswers, Viewed, UNCHANGED <<view, current, note, listening>>,
         \A t \in Receivers : answers'[t] \subseteq answers[t]
  PROVE  OwnDisplay' /\ OwnAnswers' /\ Viewed'
BY DEF OwnDisplay, OwnAnswers, Viewed

\* One sequence after another.
LEMMA Joined ==
  ASSUME NEW S, NEW p \in Seq(S), NEW q \in Seq(S)
  PROVE  /\ p \o q \in Seq(S) /\ Len(p \o q) = Len(p) + Len(q)
         /\ Len(p) \in Nat /\ DOMAIN p = 1..Len(p) /\ DOMAIN q = 1..Len(q)
         /\ DOMAIN (p \o q) = 1..(Len(p) + Len(q)) /\ Len(q) \in Nat
         /\ \A i \in DOMAIN p : (p \o q)[i] = p[i]
         /\ \A i \in DOMAIN q : (p \o q)[Len(p) + i] = q[i]
         /\ \A i \in DOMAIN (p \o q) \ DOMAIN p : (p \o q)[i] = q[i - Len(p)]
OBVIOUS

\* What a receiver has told.
LEMMA Telling ==
  ASSUME ReceiveType, NEW r \in Receivers, NEW ms \in Seq(Messages(r)), ms # <<>>,
         Tell(r, ms)
  PROVE  /\ UNCHANGED <<view, current, note, listening, stale, covered>>
         /\ DOMAIN answers' = Receivers
         /\ \A t \in Receivers : answers'[t] \subseteq answers[t]
         /\ \A t \in Receivers : thread'[t] = "on" => answers'[t] = answers[t]
         /\ thread' \in [Receivers -> {"off", "starting", "on", "cut", "closing", "ended"}]
         /\ \A t \in Receivers \ {r} : told'[t] = told[t] /\ thread'[t] = thread[t]
         /\ DOMAIN told' = Receivers /\ \A t \in Receivers : told'[t] \in Seq(Messages(t))
         /\ thread'[r] \notin {"off", "starting"}
         /\ thread'[r] = "on" => thread[r] = "on" /\ told'[r] = told[r] \o ms
         /\ told'[r] \in {told[r], told[r] \o <<Head(ms)>>, told[r] \o ms}
<1> USE DEF ReceiveType
<1>1. UNCHANGED <<view, current, note, listening, stale, covered>>
  BY DEF Tell, viewVars
<1>10. /\ DOMAIN answers' = Receivers
       /\ \A t \in Receivers : /\ answers'[t] \subseteq answers[t]
                               /\ thread'[t] = "on" => answers'[t] = answers[t]
  <2>1. answers' = [answers EXCEPT ![r] = IF thread'[r] = "ended" THEN {} ELSE answers[r]]
    BY DEF Tell
  <2>2. QED BY <2>1
<1>2. /\ thread' \in [Receivers -> {"off", "starting", "on", "cut", "closing", "ended"}]
      /\ \A t \in Receivers \ {r} : thread'[t] = thread[t]
      /\ thread'[r] \notin {"off", "starting"}
      /\ thread'[r] = "on" => thread[r] = "on" /\ r \in listening
  BY DEF Tell
<1>3. Head(ms) \in Messages(r) /\ <<Head(ms)>> \in Seq(Messages(r))
  OBVIOUS
<1> DEFINE new == IF r \notin listening THEN told[r]
                  ELSE told[r] \o IF thread[r] = "closing" THEN <<Head(ms)>> ELSE ms
<1>4. told' = [told EXCEPT ![r] = new]
  BY DEF Tell
<1>5. /\ new \in Seq(Messages(r))
      /\ new \in {told[r], told[r] \o <<Head(ms)>>, told[r] \o ms}
      /\ r \in listening /\ thread[r] = "on" => new = told[r] \o ms
  BY <1>3
<1> HIDE DEF new
<1>6. \A t \in Receivers : told'[t] = IF t = r THEN new ELSE told[t]
  BY <1>4
<1>7. DOMAIN told' = Receivers BY <1>4
<1>8. \A t \in Receivers : told'[t] \in Seq(Messages(t)) BY <1>5, <1>6
<1>9. \A t \in Receivers \ {r} : told'[t] = told[t] BY <1>6
<1>11. /\ thread'[r] = "on" => thread[r] = "on" /\ told'[r] = told[r] \o ms
       /\ told'[r] \in {told[r], told[r] \o <<Head(ms)>>, told[r] \o ms}
  BY <1>2, <1>5, <1>6
<1>12. /\ \A t \in Receivers : answers'[t] \subseteq answers[t]
       /\ \A t \in Receivers : thread'[t] = "on" => answers'[t] = answers[t]
       /\ \A t \in Receivers \ {r} : told'[t] = told[t] /\ thread'[t] = thread[t]
  BY <1>2, <1>9, <1>10
<1> HIDE DEF ReceiveType
<1>13. QED BY <1>1, <1>2, <1>7, <1>8, <1>10, <1>11, <1>12

\* A receiver tells something, and may wait for an answer to it.
LEMMA TellStep ==
  ASSUME ReceiveInv, NEW r \in Receivers, NEW ms \in Seq(Messages(r)), Tell(r, ms),
         \/ \E m : ms = <<m>> /\ m.kind # "file"
         \/ \E m : ms = <<Plain("new"), m>>,
         r # current => waits' = waits,
         r = current => waits' \subseteq Questions(r),
         \A q \in waits' : q \in waits \/ \E i \in DOMAIN ms : ms[i] = q
  PROVE  ReceiveInv'
<1>0. ReceiveType /\ ms # <<>>
  <2>1. Len(ms) \in {1, 2} OBVIOUS
  <2>2. ms # <<>> BY <2>1
  <2>3. QED BY <2>2 DEF ReceiveInv
<1>1. /\ UNCHANGED <<view, current, note, listening, stale, covered>>
      /\ DOMAIN answers' = Receivers
      /\ \A t \in Receivers : answers'[t] \subseteq answers[t]
      /\ \A t \in Receivers : thread'[t] = "on" => answers'[t] = answers[t]
      /\ thread' \in [Receivers -> {"off", "starting", "on", "cut", "closing", "ended"}]
      /\ \A t \in Receivers \ {r} : told'[t] = told[t] /\ thread'[t] = thread[t]
      /\ DOMAIN told' = Receivers /\ \A t \in Receivers : told'[t] \in Seq(Messages(t))
      /\ thread'[r] \notin {"off", "starting"}
      /\ thread'[r] = "on" => thread[r] = "on" /\ told'[r] = told[r] \o ms
      /\ told'[r] \in {told[r], told[r] \o <<Head(ms)>>, told[r] \o ms}
  BY <1>0, Telling
<1>2. ReceiveType'
  BY <1>0, <1>1 DEF ReceiveType
<1>3. told[r] \in Seq(Messages(r))
  BY <1>0 DEF ReceiveType
<1>4. ASSUME ~stale' PROVE Orderly'
  <2>1. Orderly BY <1>1, <1>4 DEF ReceiveInv
  <2>2. OwnDisplay' /\ OwnAnswers' /\ Viewed'
    BY <1>1, <2>1, SameView DEF Orderly
  <2>3. ASSUME NEW t \in Receivers \ {r} PROVE TurnOf(t)'
    <3>1. TurnOf(t) BY <2>1 DEF Orderly, InTurn
    <3>2. /\ told'[t] = told[t] /\ thread'[t] = thread[t]
          /\ t = current => waits' = waits
          /\ current' = current /\ view' = view
      BY <1>1, <2>3
    <3>3. QED BY <3>1, <3>2 DEF TurnOf
  <2>4. TurnOf(r)'
    <3>1. TurnOf(r) BY <2>1 DEF Orderly, InTurn
    <3>2. Plain("new").kind = "new" BY DEF Plain
    <3>4. Len(ms) \in {1, 2} /\ ms[1].kind # "file" /\ (Len(ms) = 2 => ms[1].kind = "new")
      BY <3>2
    <3> DEFINE Fits(new) == /\ told'[r] = told[r] \o new /\ Len(new) <= Len(ms)
                            /\ \A i \in 1..Len(new) : new[i] = ms[i]
    <3>31. \E new \in Seq(Messages(r)) : Fits(new)
      <4>1. CASE told'[r] = told[r]
        <5>1. Fits(<< >>) /\ << >> \in Seq(Messages(r)) BY <1>3, <3>4, <4>1
        <5> HIDE DEF Fits
        <5>2. QED BY <5>1
      <4>2. CASE told'[r] = told[r] \o <<Head(ms)>>
        <5>1. Fits(<<Head(ms)>>) /\ <<Head(ms)>> \in Seq(Messages(r)) BY <1>0, <3>4, <4>2
        <5> HIDE DEF Fits
        <5>2. QED BY <5>1
      <4>3. CASE told'[r] = told[r] \o ms
        <5>1. Fits(ms) BY <3>4, <4>3
        <5> HIDE DEF Fits
        <5>2. QED BY <5>1
      <4>4. QED BY <1>1, <4>1, <4>2, <4>3
    <3>32. PICK new \in Seq(Messages(r)) : Fits(new) BY <3>31
    <3>33. \A i \in DOMAIN told'[r] :
             \/ i \in DOMAIN told[r] /\ told'[r][i] = told[r][i]
             \/ i - Len(told[r]) \in 1..Len(ms) /\ told'[r][i] = ms[i - Len(told[r])]
      <4>1. ASSUME NEW i \in DOMAIN told'[r], i \notin DOMAIN told[r]
            PROVE  i - Len(told[r]) \in 1..Len(new) /\ told'[r][i] = new[i - Len(told[r])]
        BY <1>3, <3>32, <4>1, Joined
      <4>2. Len(new) <= Len(ms) /\ Len(new) \in Nat BY <3>32
      <4>3. \A i \in DOMAIN told[r] : told'[r][i] = told[r][i]
        BY <1>3, <3>32, Joined
      <4>4. QED BY <3>4, <3>32, <4>1, <4>2, <4>3
    <3>34. \A i \in DOMAIN told'[r] : i \in Nat /\ (i # 1 => i - 1 \in DOMAIN told'[r])
      BY <1>1
    <3>3. \A i \in DOMAIN told'[r] :
            \/ i \in DOMAIN told[r] /\ told'[r][i] = told[r][i]
            \/ i = Len(told[r]) + 1 /\ told'[r][i] = ms[1]
            \/ i = Len(told[r]) + 2 /\ told'[r][i] = ms[2] /\ Len(ms) = 2 /\ told'[r][i - 1] = ms[1]
      <4> SUFFICES ASSUME NEW i \in DOMAIN told'[r], i \notin DOMAIN told[r]
                   PROVE  \/ i = Len(told[r]) + 1 /\ told'[r][i] = ms[1]
                          \/ /\ i = Len(told[r]) + 2 /\ told'[r][i] = ms[2] /\ Len(ms) = 2
                             /\ told'[r][i - 1] = ms[1]
        BY <3>33
      <4>1. Len(told[r]) \in Nat /\ DOMAIN told[r] = 1..Len(told[r]) BY <1>3
      <4>2. CASE i - Len(told[r]) = 1 BY <3>33, <3>34, <4>1, <4>2
      <4>3. CASE i - Len(told[r]) = 2
        <5>1. i \in Nat /\ i = Len(told[r]) + 2 BY <3>34, <4>1, <4>3
        <5>2. told'[r][i] = ms[2] /\ Len(ms) = 2 BY <3>4, <3>33, <4>3
        <5>30. i - 1 \in DOMAIN told'[r]
          <6>1. i # 1 BY <4>1, <5>1
          <6>2. QED BY <3>34, <6>1
        <5>31. i - 1 = Len(told[r]) + 1 BY <4>1, <5>1
        <5>3. /\ i - 1 \in DOMAIN told'[r] /\ i - 1 \notin DOMAIN told[r]
              /\ (i - 1) - Len(told[r]) = 1
          BY <4>1, <5>30, <5>31
        <5>4. told'[r][i - 1] = ms[1] BY <3>33, <5>3
        <5>5. QED BY <5>1, <5>2, <5>4
      <4>4. QED BY <3>4, <3>33, <3>34, <4>1, <4>2, <4>3
    <3>5. \A i \in DOMAIN told[r] : i # 1 => i - 1 \in DOMAIN told[r]
      BY <1>3
    <3>6. \A i \in DOMAIN told[r] : i \in DOMAIN told'[r] /\ told'[r][i] = told[r][i]
      BY <1>3, <3>32, Joined
    <3>7. Len(told[r]) \in Nat BY <1>3
    <3>9. \A i \in DOMAIN told'[r] : told'[r][i].kind = "file" =>
             IF i = 1 THEN r = current' => view' = "Receiving"
             ELSE told'[r][i - 1].kind = "new"
      <4> SUFFICES ASSUME NEW i \in DOMAIN told'[r], told'[r][i].kind = "file"
                   PROVE  IF i = 1 THEN r = current' => view' = "Receiving"
                          ELSE told'[r][i - 1].kind = "new"
        OBVIOUS
      <4>1. CASE i \in DOMAIN told[r] /\ told'[r][i] = told[r][i]
        <5>1. IF i = 1 THEN r = current => view = "Receiving" ELSE told[r][i - 1].kind = "new"
          BY <3>1, <4>1 DEF TurnOf
        <5>2. i # 1 => told'[r][i - 1] = told[r][i - 1]
          BY <3>5, <3>6, <4>1
        <5>3. QED BY <1>1, <5>1, <5>2
      <4>2. CASE i = Len(told[r]) + 1 /\ told'[r][i] = ms[1]
        BY <3>4, <4>2
      <4>3. CASE /\ i = Len(told[r]) + 2 /\ told'[r][i] = ms[2] /\ Len(ms) = 2
                 /\ told'[r][i - 1] = ms[1]
        BY <3>4, <3>7, <4>3
      <4>4. QED BY <3>3, <4>1, <4>2, <4>3
    <3>10. QED BY <1>1, <3>9 DEF TurnOf
  <2>5. InTurn' BY <2>3, <2>4 DEF InTurn
  <2>6. QED BY <2>2, <2>5 DEF Orderly
<1>5. ASSUME ~stale', ~covered' PROVE NoLoss'
  <2>1. NoLoss BY <1>1, <1>5 DEF ReceiveInv
  <2> SUFFICES ASSUME NEW t \in Receivers, t = current', t \in listening', thread'[t] = "on",
                      NEW q \in waits'
               PROVE  note' = q \/ OnTheWay(t, q)' \/ Answered(t, q)'
    BY DEF NoLoss
  <2>2. Answered(t, q)' <=> Answered(t, q) BY <1>1 DEF Answered
  <2>3. CASE t # r
    <3>1. OnTheWay(t, q)' <=> OnTheWay(t, q) BY <1>1, <2>3 DEF OnTheWay
    <3>2. note = q \/ OnTheWay(t, q) \/ Answered(t, q)
      <4>1. t = current /\ t \in listening /\ thread[t] = "on" /\ q \in waits
        BY <1>1, <2>3
      <4>2. QED BY <2>1, <4>1 DEF NoLoss
    <3>3. QED BY <1>1, <2>2, <3>1, <3>2
  <2>4. CASE t = r
    <3>1. told'[r] = told[r] \o ms /\ thread[r] = "on"
      BY <1>1, <2>4
    <3>2. /\ \A i \in DOMAIN told[r] : i \in DOMAIN told'[r] /\ told'[r][i] = told[r][i]
          /\ \A i \in DOMAIN ms : /\ Len(told[r]) + i \in DOMAIN told'[r]
                                  /\ told'[r][Len(told[r]) + i] = ms[i]
      BY <1>3, <3>1, Joined
    <3>3. CASE \E i \in DOMAIN ms : ms[i] = q
      BY <2>4, <3>2, <3>3 DEF OnTheWay
    <3>4. CASE q \in waits
      <4>1. note = q \/ OnTheWay(r, q) \/ Answered(r, q)
        BY <1>1, <2>1, <2>4, <3>1, <3>4 DEF NoLoss
      <4>2. OnTheWay(r, q) => OnTheWay(r, q)' BY <3>2 DEF OnTheWay
      <4>3. QED BY <1>1, <2>2, <2>4, <4>1, <4>2
    <3>5. QED BY <2>4, <3>3, <3>4
  <2>5. QED BY <2>3, <2>4
<1>6. QED BY <1>2, <1>4, <1>5 DEF ReceiveInv

\* One message, and two.
LEMMA Messages12 ==
  ASSUME NEW S, NEW m \in S, NEW n \in S
  PROVE  /\ <<m>> \in Seq(S) /\ DOMAIN <<m>> = {1} /\ <<m>>[1] = m
         /\ <<m, n>> \in Seq(S) /\ DOMAIN <<m, n>> = {1, 2}
         /\ <<m, n>>[1] = m /\ <<m, n>>[2] = n
OBVIOUS

\* A receiver asks, offers files and tells what happens to it.
LEMMA ReceiverStep ==
  ASSUME ReceiveInv, NEW r \in Receivers,
         \/ Asks(r) \/ OfferNew(r) \/ OfferBreakPoint(r) \/ AllDone(r)
         \/ \E k \in {"message", "error", "close"} : Other(r, k)
         \/ \E f \in Files : OfferExisting(r, f)
  PROVE  ReceiveInv'
<1>0. r = current => waits \subseteq Questions(r)
  BY DEF ReceiveInv, ReceiveType
<1>1. /\ Share(r) \in Messages(r) /\ Share(r).kind = "share"
      /\ Share(r) \in Questions(r)
      /\ \A f \in Files : Duplicate(r, f) \in Messages(r) /\ Duplicate(r, f) \in Questions(r)
      /\ \A k \in Kinds : Plain(k) \in Messages(r) /\ Plain(k).kind = k
  BY QuestionFacts
<1>2. ASSUME NEW m \in Messages(r), m.kind # "file", Tell(r, <<m>>),
             UNCHANGED waits \/ (m \in Questions(r) /\ Waits(r, m))
      PROVE  ReceiveInv'
  <2> DEFINE ms == <<m>>
  <2>1. /\ ms \in Seq(Messages(r)) /\ DOMAIN ms = {1} /\ ms[1] = m
        /\ \E n : ms = <<n>> /\ n.kind # "file"
    BY <1>2, Messages12
  <2>2. Tell(r, ms) BY <1>2
  <2>3. /\ r # current => waits' = waits
        /\ r = current => waits' \subseteq Questions(r)
        /\ \A q \in waits' : q \in waits \/ ms[1] = q
    BY <1>0, <1>2, <2>1 DEF Waits
  <2> HIDE DEF ms
  <2>4. QED BY <2>1, <2>2, <2>3, TellStep
<1>3. ASSUME NEW m \in Messages(r), Tell(r, <<Plain("new"), m>>),
             UNCHANGED waits \/ (m \in Questions(r) /\ Waits(r, m))
      PROVE  ReceiveInv'
  <2> DEFINE ms == <<Plain("new"), m>>
  <2>0. Plain("new") \in Messages(r)
    BY <1>1 DEF Kinds
  <2>1. /\ ms \in Seq(Messages(r)) /\ DOMAIN ms = {1, 2} /\ ms[2] = m
        /\ \E n : ms = <<Plain("new"), n>>
    BY <2>0, Messages12
  <2>2. Tell(r, ms) BY <1>3
  <2>3. /\ r # current => waits' = waits
        /\ r = current => waits' \subseteq Questions(r)
        /\ \A q \in waits' : q \in waits \/ ms[2] = q
    BY <1>0, <1>3, <2>1 DEF Waits
  <2> HIDE DEF ms
  <2>4. QED BY <2>1, <2>2, <2>3, TellStep
<1>4. \A k \in Kinds : Tell(r, <<Plain(k)>>) /\ UNCHANGED waits => ReceiveInv'
  BY <1>1, <1>2 DEF Kinds
<1>5. CASE Asks(r) BY <1>1, <1>2, <1>5 DEF Asks
<1>6. CASE OfferNew(r) BY <1>4, <1>6 DEF OfferNew, Kinds
<1>7. CASE OfferBreakPoint(r) BY <1>1, <1>3, <1>7 DEF OfferBreakPoint, Kinds
<1>8. CASE AllDone(r) BY <1>4, <1>8 DEF AllDone, Kinds
<1>9. ASSUME NEW k \in {"message", "error", "close"}, Other(r, k) PROVE ReceiveInv'
  BY <1>4, <1>9 DEF Other, Kinds
<1>10. ASSUME NEW f \in Files, OfferExisting(r, f) PROVE ReceiveInv'
  BY <1>1, <1>3, <1>10 DEF OfferExisting
<1>11. QED BY <1>5, <1>6, <1>7, <1>8, <1>9, <1>10

\* A receiver takes an answer: the question is not waiting any more.
LEMMA TakeStep ==
  ASSUME ReceiveInv, NEW r \in Receivers, NEW a \in answers[r], TakeAnswer(r, a)
  PROVE  ReceiveInv'
<1>0. /\ ReceiveType /\ UNCHANGED <<view, current, note, thread, listening, told, stale, covered>>
      /\ answers' = [answers EXCEPT ![r] = @ \ {a}]
      /\ waits' = IF r = current THEN waits \ {a.question} ELSE waits
      /\ thread[r] \in {"on", "closing"}
  BY DEF TakeAnswer, viewVars, ReceiveInv
<1>1. /\ \A t \in Receivers \ {r} : answers'[t] = answers[t]
      /\ answers'[r] = answers[r] \ {a} /\ DOMAIN answers' = Receivers
      /\ waits' \subseteq waits
  BY <1>0 DEF ReceiveType
<1>2. ReceiveType'
  BY <1>0, <1>1 DEF ReceiveType
<1>3. ASSUME ~stale' PROVE Orderly'
  <2>1. Orderly BY <1>0, <1>3 DEF ReceiveInv
  <2>2. OwnDisplay' /\ Viewed'
    BY <1>0, <2>1 DEF Orderly, OwnDisplay, Viewed
  <2>3. OwnAnswers'
    BY <1>1, <2>1 DEF Orderly, OwnAnswers
  <2>4. ASSUME NEW t \in Receivers PROVE TurnOf(t)'
    <3>1. TurnOf(t) BY <2>1 DEF Orderly, InTurn
    <3>2. QED BY <1>0, <1>1, <3>1 DEF TurnOf
  <2>5. QED BY <2>2, <2>3, <2>4 DEF Orderly, InTurn
<1>4. ASSUME ~stale', ~covered' PROVE NoLoss'
  <2>1. NoLoss BY <1>0, <1>4 DEF ReceiveInv
  <2> SUFFICES ASSUME NEW t \in Receivers, t = current', t \in listening', thread'[t] = "on",
                      NEW q \in waits'
               PROVE  note' = q \/ OnTheWay(t, q)' \/ Answered(t, q)'
    BY DEF NoLoss
  <2>2. q \in waits /\ (t = r => q # a.question)
    BY <1>0, <1>1
  <2>3. note = q \/ OnTheWay(t, q) \/ Answered(t, q)
    BY <1>0, <2>1, <2>2 DEF NoLoss
  <2>4. OnTheWay(t, q) => OnTheWay(t, q)' BY <1>0 DEF OnTheWay
  <2>5. Answered(t, q) => Answered(t, q)'
    <3> SUFFICES ASSUME NEW b \in BOOLEAN, [question |-> q, accept |-> b] \in answers[t]
                 PROVE  [question |-> q, accept |-> b] \in answers'[t]
      BY DEF Answered
    <3>1. [question |-> q, accept |-> b].question = q OBVIOUS
    <3>2. t = r => [question |-> q, accept |-> b] # a BY <2>2, <3>1
    <3>3. QED BY <1>1, <3>2
  <2>6. QED BY <1>0, <2>3, <2>4, <2>5
<1>5. QED BY <1>2, <1>3, <1>4 DEF ReceiveInv

\* A receiver's thread and a listener come and go.
LEMMA ThreadStep ==
  ASSUME ReceiveInv, NEW r \in Receivers, Started(r) \/ Ends(r) \/ ListenerEnds(r)
  PROVE  ReceiveInv'
<1>0. /\ ReceiveType
      /\ UNCHANGED <<view, current, note, waits, told, stale, covered>>
      /\ listening' \subseteq listening
      /\ thread' \in [Receivers -> {"off", "starting", "on", "cut", "closing", "ended"}]
      /\ \A t \in Receivers :
           thread'[t] \in {"off", "starting"} => thread[t] \in {"off", "starting"}
      /\ \A t \in Receivers : thread'[t] = "on" =>
           thread[t] = "on" \/ thread[t] = "starting"
  BY DEF Started, Ends, ListenerEnds, ThreadGoes, viewVars, ReceiveInv, ReceiveType
<1>5. /\ DOMAIN answers' = Receivers
      /\ \A t \in Receivers : /\ answers'[t] \subseteq answers[t]
                              /\ thread'[t] = "on" => answers'[t] = answers[t]
  <2>0. DOMAIN answers = Receivers /\ thread \in [Receivers ->
          {"off", "starting", "on", "cut", "closing", "ended"}]
    BY <1>0 DEF ReceiveType
  <2>1. CASE ListenerEnds(r) BY <2>0, <2>1 DEF ListenerEnds
  <2>2. CASE Started(r) BY <2>0, <2>2 DEF Started, ThreadGoes
  <2>3. CASE Ends(r) BY <2>0, <2>3 DEF Ends, ThreadGoes
  <2>4. QED BY <2>1, <2>2, <2>3
<1>1. ReceiveType' BY <1>0, <1>5 DEF ReceiveType
<1>2. ASSUME ~stale' PROVE Orderly'
  <2>1. Orderly BY <1>0, <1>2 DEF ReceiveInv
  <2>2. OwnDisplay' /\ OwnAnswers' /\ Viewed'
    <3>1. OwnDisplay' BY <1>0, <2>1 DEF Orderly, OwnDisplay
    <3>2. OwnAnswers'
      <4>1. ASSUME NEW t \in Receivers, NEW a \in answers'[t]
            PROVE  a.question \in Questions(t) /\ a.accept \in BOOLEAN
        <5>1. a \in answers[t] BY <1>5, <4>1
        <5>2. QED BY <2>1, <5>1 DEF Orderly, OwnAnswers
      <4>2. QED BY <4>1 DEF OwnAnswers
    <3>3. Viewed' BY <1>0, <2>1 DEF Orderly, Viewed
    <3>4. QED BY <3>1, <3>2, <3>3
  <2>3. InTurn' BY <1>0, <2>1 DEF Orderly, InTurn, TurnOf
  <2>4. QED BY <2>2, <2>3 DEF Orderly
<1>3. ASSUME ~stale', ~covered' PROVE NoLoss'
  <2>1. NoLoss /\ InTurn BY <1>0, <1>3 DEF ReceiveInv, Orderly
  <2> SUFFICES ASSUME NEW t \in Receivers, t = current', t \in listening', thread'[t] = "on",
                      NEW q \in waits'
               PROVE  note' = q \/ OnTheWay(t, q)' \/ Answered(t, q)'
    BY DEF NoLoss
  <2>2. thread[t] = "on" BY <1>0, <2>1 DEF InTurn, TurnOf
  <2>3. note = q \/ OnTheWay(t, q) \/ Answered(t, q) BY <1>0, <2>1, <2>2 DEF NoLoss
  <2>4. OnTheWay(t, q) => OnTheWay(t, q)' BY <1>0 DEF OnTheWay
  <2>5. Answered(t, q) => Answered(t, q)'
    <3>1. answers'[t] = answers[t] BY <1>5
    <3>2. QED BY <3>1 DEF Answered
  <2>6. QED BY <1>0, <2>3, <2>4, <2>5
<1>4. QED BY <1>1, <1>2, <1>3 DEF ReceiveInv

\* The listener of the receiver that the view holds shows its next message.
LEMMA ListenStep ==
  ASSUME ReceiveInv, NEW r \in Receivers, Listen(r)
  PROVE  ReceiveInv'
<1> DEFINE m == Head(told[r])
<1>0. /\ ReceiveType /\ r \in listening /\ told[r] # <<>> /\ told[r] \in Seq(Messages(r))
      /\ UNCHANGED <<current, thread, waits, answers>>
      /\ told' = [told EXCEPT ![r] = Tail(@)]
      /\ Show(m) /\ m = told[r][1] /\ 1 \in DOMAIN told[r] /\ m \in Messages(r)
      /\ listening' = IF m.kind \in {"error", "close"} THEN listening \ {r} ELSE listening
      /\ covered' = (covered \/ (current = r /\ Hides(m)))
      /\ stale' = (stale \/ current # r)
  BY DEF Listen, ReceiveInv, ReceiveType
<1>1. /\ \A t \in Receivers \ {r} : told'[t] = told[t]
      /\ DOMAIN told' = Receivers /\ \A t \in Receivers : told'[t] \in Seq(Messages(t))
      /\ told'[r] = Tail(told[r])
  BY <1>0 DEF ReceiveType
<1>2. /\ \A i \in DOMAIN told'[r] : /\ i + 1 \in DOMAIN told[r] /\ told'[r][i] = told[r][i + 1]
                                    /\ i \in DOMAIN told[r] /\ i + 1 # 1 /\ (i + 1) - 1 = i
                                    /\ i # 1 => i - 1 \in DOMAIN told'[r] /\ told'[r][i - 1] = told[r][i]
      /\ \A i \in DOMAIN told[r] : i # 1 => i - 1 \in DOMAIN told'[r] /\ told'[r][i - 1] = told[r][i]
  BY <1>0, <1>1
<1>3. /\ IsQuestion(m) => m \in Questions(r)
      /\ IsQuestion(m) <=> m.kind \in {"share", "file"}
      /\ \A k \in Kinds : ~IsQuestion(Plain(k)) /\ Plain(k).kind = k
      /\ m.kind \in {"new", "breakPoint", "done", "message", "error", "close", "share", "file", "none"}
      /\ m.kind # "none"
  BY <1>0, QuestionFacts DEF IsQuestion, Kinds, Show, ShowNew
<1> HIDE DEF m
<1>4. /\ m.kind \in {"message", "error", "share", "file", "done"} => note' = m
      /\ m.kind \in {"breakPoint", "close"} => note' = note
      /\ m.kind = "new" => note' = IF view = "Receiving" THEN note ELSE Plain("none")
      /\ m.kind \in {"message", "file", "breakPoint", "close"} => view' = view
      /\ m.kind = "error" => view' = "Idle"
      /\ m.kind = "share" => view' = "AwaitingConfirm"
      /\ m.kind = "new" => view' = "Receiving"
      /\ m.kind = "done" => view' = "ReceiveDone"
  BY <1>0 DEF Show, ShowNew
<1>5. ReceiveType'
  BY <1>0, <1>1, <1>3, <1>4 DEF ReceiveType
<1>6. ASSUME ~stale' PROVE ~stale /\ current = r /\ current' = r
  BY <1>0, <1>6
<1>7. ASSUME ~stale' PROVE Orderly'
  <2>1. Orderly BY <1>6, <1>7 DEF ReceiveInv
  <2>2. current = r /\ current' = r /\ view # "Idle"
    BY <1>0, <1>6, <1>7, <2>1 DEF Orderly, Viewed
  <2>3. TurnOf(r) BY <2>1 DEF Orderly, InTurn
  <2>4. m.kind = "file" => view = "Receiving"
    BY <1>0, <2>2, <2>3 DEF TurnOf
  <2>5. OwnDisplay'
    <3>1. IsQuestion(note') => note' \in Questions(r)
      BY <1>3, <1>4, <2>1, <2>2 DEF Orderly, OwnDisplay, Kinds
    <3>2. view' = "Idle" => ~IsQuestion(note')
      BY <1>3, <1>4, <2>2
    <3>3. note'.kind = "file" => view' = "Receiving"
      BY <1>3, <1>4, <2>1, <2>4 DEF Orderly, OwnDisplay, Kinds
    <3>4. QED BY <2>2, <3>1, <3>2, <3>3 DEF OwnDisplay, IsQuestion
  <2>6. OwnAnswers' BY <1>0, <2>1 DEF Orderly, OwnAnswers
  <2>7. ASSUME NEW t \in Receivers \ {r} PROVE TurnOf(t)'
    <3>1. TurnOf(t) /\ t # current' BY <2>1, <2>2 DEF Orderly, InTurn
    <3>2. UNCHANGED <<thread, waits>> /\ told'[t] = told[t]
      BY <1>0, <1>1
    <3>3. QED BY <3>1, <3>2 DEF TurnOf
  <2>8. TurnOf(r)'
    <3>1. thread'[r] \notin {"off", "starting"}
      BY <1>0, <2>3 DEF TurnOf
    <3>3. ASSUME NEW i \in DOMAIN told'[r], told'[r][i].kind = "file"
          PROVE  IF i = 1 THEN r = current' => view' = "Receiving"
                 ELSE told'[r][i - 1].kind = "new"
      <4>1. told[r][i].kind = "new"
        BY <1>2, <2>3, <3>3 DEF TurnOf
      <4>2. CASE i = 1 BY <1>0, <1>4, <4>1, <4>2
      <4>3. CASE i # 1 BY <1>2, <4>1, <4>3
      <4>4. QED BY <4>2, <4>3
    <3>4. QED BY <3>1, <3>3 DEF TurnOf
  <2>9. Viewed'
    <3>1. current' # None BY <2>2, ReceiveViewAssumption
    <3>2. view' = "Idle" => current' \notin listening'
      BY <1>0, <1>3, <1>4, <2>2
    <3>3. QED BY <3>1, <3>2 DEF Viewed
  <2>10. QED BY <2>5, <2>6, <2>7, <2>8, <2>9 DEF Orderly, InTurn
<1>8. ASSUME ~stale', ~covered' PROVE NoLoss'
  <2>1. current = r /\ current' = r /\ ~stale /\ ~covered /\ ~Hides(m)
    BY <1>0, <1>6, <1>8
  <2>2. NoLoss /\ Orderly BY <2>1 DEF ReceiveInv
  <2> SUFFICES ASSUME r \in listening', thread'[r] = "on", NEW q \in waits'
               PROVE  note' = q \/ OnTheWay(r, q)' \/ Answered(r, q)'
    BY <2>1 DEF NoLoss
  <2>3. q \in waits /\ q \in Questions(r) /\ m.kind \notin {"error", "close"}
    BY <1>0, <2>1 DEF ReceiveType
  <2>4. note = q \/ OnTheWay(r, q) \/ Answered(r, q)
    BY <1>0, <2>1, <2>2, <2>3 DEF NoLoss
  <2>5. IsQuestion(q) /\ q.asker = r /\ (q = Share(r) \/ q.kind = "file")
    BY <2>3, QuestionFacts
  <2>6. CASE Answered(r, q) BY <1>0, <2>6 DEF Answered
  <2>7. CASE OnTheWay(r, q)
    <3>1. PICK i \in DOMAIN told[r] : told[r][i] = q BY <2>7 DEF OnTheWay
    <3>2. CASE i = 1
      BY <1>0, <1>3, <1>4, <2>5, <3>1, <3>2
    <3>3. CASE i # 1 BY <1>2, <3>1, <3>3 DEF OnTheWay
    <3>4. QED BY <3>2, <3>3
  <2>8. CASE note = q
    <3>1. /\ IsQuestion(m) => m = q
          /\ m.kind \notin {"message", "done"}
          /\ m.kind = "new" => q.kind # "share"
      BY <2>1, <2>3, <2>5, <2>8 DEF Hides
    <3>2. m.kind \in {"new", "breakPoint", "share", "file"}
      BY <1>3, <2>3, <3>1
    <3>3. CASE m.kind = "breakPoint" BY <1>4, <2>8, <3>3
    <3>4. CASE m.kind = "new"
      <4>1. q.kind = "file" BY <2>3, <3>1, <3>4, QuestionFacts
      <4>2. view = "Receiving" BY <2>2, <2>8, <4>1 DEF Orderly, OwnDisplay
      <4>3. QED BY <1>4, <2>8, <3>4, <4>2
    <3>5. CASE m.kind \in {"share", "file"}
      BY <1>3, <1>4, <3>1, <3>5
    <3>6. QED BY <3>2, <3>3, <3>4, <3>5
  <2>9. QED BY <2>4, <2>6, <2>7, <2>8
<1>9. QED BY <1>5, <1>7, <1>8 DEF ReceiveInv

\* The view takes a receiver that has told nothing yet.
LEMMA ReceiveClick ==
  ASSUME ReceiveInv, NEW r \in Receivers, Receive(r)
  PROVE  ReceiveInv'
<1>0. /\ ReceiveType /\ view = "Idle" /\ thread[r] = "off"
      /\ view' = "Connecting" /\ current' = r
      /\ thread' = [thread EXCEPT ![r] = "starting"]
      /\ listening' = listening \cup {r}
      /\ waits' = {} /\ UNCHANGED <<note, told, answers, stale, covered>>
  BY DEF Receive, ReceiveInv
<1>1. /\ thread' \in [Receivers -> {"off", "starting", "on", "cut", "closing", "ended"}]
      /\ thread'[r] = "starting" /\ \A t \in Receivers \ {r} : thread'[t] = thread[t]
  BY <1>0 DEF ReceiveType
<1>2. ReceiveType' BY <1>0, <1>1 DEF ReceiveType
<1>3. ASSUME ~stale' PROVE Orderly'
  <2>1. Orderly BY <1>0, <1>3 DEF ReceiveInv
  <2>2. OwnDisplay' BY <1>0, <2>1 DEF Orderly, OwnDisplay, IsQuestion
  <2>3. OwnAnswers' BY <1>0, <2>1 DEF Orderly, OwnAnswers
  <2>4. Viewed' BY <1>0, ReceiveViewAssumption DEF Viewed
  <2>5. told[r] = <<>> BY <1>0, <2>1 DEF Orderly, InTurn, TurnOf
  <2>6. TurnOf(r)' BY <1>0, <2>5 DEF TurnOf
  <2>7. ASSUME NEW t \in Receivers \ {r} PROVE TurnOf(t)'
    <3>1. TurnOf(t) /\ thread'[t] = thread[t] BY <1>1, <2>1 DEF Orderly, InTurn
    <3>2. QED BY <1>0, <3>1 DEF TurnOf
  <2>8. QED BY <2>2, <2>3, <2>4, <2>6, <2>7 DEF Orderly, InTurn
<1>4. NoLoss' BY <1>0, <1>1 DEF NoLoss
<1>5. QED BY <1>2, <1>3, <1>4 DEF ReceiveInv

\* The view lets its receiver go.
LEMMA LetGoStep ==
  ASSUME ReceiveInv,
         current' = None, UNCHANGED <<listening, told, stale, covered>>,
         UNCHANGED thread \/ LetGo,
         view' = "Idle", note' = Plain("none"),
         DOMAIN answers' = Receivers, ~stale => OwnAnswers'
  PROVE  ReceiveInv'
<1>1. /\ thread' \in [Receivers -> {"off", "starting", "on", "cut", "closing", "ended"}]
      /\ \A t \in Receivers :
           thread'[t] \in {"off", "starting"} => thread[t] \in {"off", "starting"}
  BY DEF LetGo, ReceiveInv, ReceiveType
<1>2. ReceiveType /\ None \notin Receivers
  BY ReceiveViewAssumption DEF ReceiveInv
<1>3. ReceiveType' BY <1>1, <1>2 DEF ReceiveType
<1>4. ASSUME ~stale' PROVE Orderly'
  <2>1. Orderly BY <1>4 DEF ReceiveInv
  <2>2. OwnDisplay' BY QuestionFacts DEF OwnDisplay, IsQuestion, Plain
  <2>3. Viewed' BY <1>2 DEF Viewed, ReceiveType
  <2>4. InTurn' BY <1>1, <1>2, <2>1 DEF Orderly, InTurn, TurnOf
  <2>5. QED BY <1>4, <2>2, <2>3, <2>4 DEF Orderly
<1>5. NoLoss' BY <1>2 DEF NoLoss
<1>6. QED BY <1>3, <1>4, <1>5 DEF ReceiveInv

\* An answer goes to the receiver the view holds, which has asked.
LEMMA Confirmed ==
  ASSUME ReceiveInv, NEW b \in BOOLEAN, IsQuestion(note), Confirm(b)
  PROVE  /\ DOMAIN answers' = Receivers
         /\ ~stale => OwnAnswers'
         /\ \A t \in Receivers : answers[t] \subseteq answers'[t]
         /\ current \in Receivers => [question |-> note, accept |-> b] \in answers'[current]
<1> DEFINE a == [question |-> note, accept |-> b]
<1>1. a.question = note /\ a.accept = b OBVIOUS
<1>2. /\ DOMAIN answers' = Receivers
      /\ \A t \in Receivers : answers'[t] = IF t = current THEN answers[t] \cup {a} ELSE answers[t]
  BY DEF Confirm
<1> HIDE DEF a
<1>3. ASSUME ~stale PROVE OwnAnswers'
  <2>1. OwnAnswers /\ note \in Questions(current)
    BY <1>3 DEF ReceiveInv, Orderly, OwnDisplay
  <2>2. QED BY <1>1, <1>2, <2>1 DEF OwnAnswers
<1>4. a \in answers'[current] \/ current \notin Receivers BY <1>2
<1>5. QED BY <1>2, <1>3, <1>4 DEF a

\* What the user does with the notification and the buttons.
LEMMA UserStep ==
  ASSUME ReceiveInv,
         \/ ReceiveFails \/ CancelReceive \/ ResetReceive \/ RefuseShare \/ LeaveDone
         \/ \E b \in BOOLEAN : Answer(b)
  PROVE  ReceiveInv'
<1>1. CASE CancelReceive \/ ResetReceive
  <2>1. /\ current' = None /\ view' = "Idle" /\ note' = Plain("none")
        /\ UNCHANGED <<listening, told, stale, covered, answers>>
        /\ UNCHANGED thread \/ LetGo
    BY <1>1 DEF CancelReceive, ResetReceive, LetGo
  <2>2. DOMAIN answers' = Receivers /\ (~stale => OwnAnswers')
    BY <2>1 DEF ReceiveInv, ReceiveType, Orderly, OwnAnswers
  <2>3. QED BY <2>1, <2>2, LetGoStep
<1>2. CASE RefuseShare
  <2>1. /\ current' = None /\ view' = "Idle" /\ note' = Plain("none")
        /\ UNCHANGED <<listening, told, stale, covered>>
        /\ LetGo /\ Confirm(FALSE) /\ IsQuestion(note)
    BY <1>2 DEF RefuseShare, LetGo, IsQuestion
  <2>2. DOMAIN answers' = Receivers /\ (~stale => OwnAnswers')
    BY <2>1, Confirmed
  <2>3. QED BY <2>1, <2>2, LetGoStep
<1>3. ASSUME UNCHANGED <<view, current, thread, waits, listening, told, stale, covered>>,
             ~IsQuestion(note'), note'.kind # "file",
             DOMAIN answers' = Receivers, ~stale => OwnAnswers',
             \A t \in Receivers : answers[t] \subseteq answers'[t],
             \A q : ~stale /\ note = q /\ IsQuestion(q) /\ current \in Receivers =>
                    Answered(current, q)'
      PROVE  ReceiveInv'
  <2>0. UNCHANGED <<view, current, thread, waits, listening, told, stale, covered>>
    BY <1>3
  <2>1. ReceiveType' BY <1>3, <2>0 DEF ReceiveInv, ReceiveType
  <2>2. ASSUME ~stale' PROVE Orderly'
    <3>1. Orderly BY <2>0, <2>2 DEF ReceiveInv
    <3>2. OwnDisplay' BY <1>3 DEF OwnDisplay, IsQuestion
    <3>3. InTurn' BY <2>0, <3>1 DEF Orderly, InTurn, TurnOf
    <3>4. Viewed' BY <2>0, <3>1 DEF Orderly, Viewed
    <3>5. QED BY <1>3, <2>0, <2>2, <3>2, <3>3, <3>4 DEF Orderly
  <2>3. ASSUME ~stale', ~covered' PROVE NoLoss'
    <3>1. NoLoss /\ ReceiveType BY <2>0, <2>3 DEF ReceiveInv
    <3> SUFFICES ASSUME NEW r \in Receivers, r = current, r \in listening, thread[r] = "on",
                        NEW q \in waits
                 PROVE  OnTheWay(r, q)' \/ Answered(r, q)'
      BY <2>0 DEF NoLoss
    <3>2. note = q \/ OnTheWay(r, q) \/ Answered(r, q) BY <3>1 DEF NoLoss
    <3>3. IsQuestion(q) BY <3>1, QuestionFacts DEF ReceiveType
    <3>4. OnTheWay(r, q) => OnTheWay(r, q)' BY <2>0 DEF OnTheWay
    <3>5. Answered(r, q) => Answered(r, q)' BY <1>3 DEF Answered
    <3>6. note = q => Answered(r, q)' BY <1>3, <2>0, <2>3, <3>3 DEF Answered
    <3>7. QED BY <3>2, <3>4, <3>5, <3>6
  <2>4. QED BY <2>1, <2>2, <2>3 DEF ReceiveInv
<1>4. ASSUME NEW b \in BOOLEAN, Answer(b) PROVE ReceiveInv'
  <2>1. /\ IsQuestion(note) /\ Confirm(b) /\ note' = Plain("none")
        /\ UNCHANGED <<view, current, thread, waits, listening, told, stale, covered>>
    BY <1>4 DEF Answer
  <2>2. ~IsQuestion(note') /\ note'.kind # "file" BY <2>1 DEF IsQuestion, Plain
  <2>3. /\ DOMAIN answers' = Receivers /\ (~stale => OwnAnswers')
        /\ \A t \in Receivers : answers[t] \subseteq answers'[t]
        /\ current \in Receivers => [question |-> note, accept |-> b] \in answers'[current]
    BY <2>1, Confirmed
  <2>4. \A q : note = q /\ IsQuestion(q) /\ current \in Receivers => Answered(current, q)'
    BY <2>1, <2>3 DEF Answered
  <2>5. QED BY <1>3, <2>1, <2>2, <2>3, <2>4
<1>5. CASE ReceiveFails \/ LeaveDone
  <2>1. /\ UNCHANGED <<view, current, thread, waits, listening, told, answers, stale, covered>>
        /\ ~IsQuestion(note') /\ note'.kind # "file"
        /\ ReceiveFails => view = "Idle"
        /\ LeaveDone => note.kind = "done"
    BY <1>5 DEF ReceiveFails, LeaveDone, IsQuestion, Plain
  <2>2. DOMAIN answers' = Receivers /\ (~stale => OwnAnswers')
    BY <2>1 DEF ReceiveInv, ReceiveType, Orderly, OwnAnswers
  <2>3. ~stale => ~IsQuestion(note)
    <3>1. LeaveDone => ~IsQuestion(note) BY <2>1 DEF IsQuestion
    <3>2. ReceiveFails /\ ~stale => ~IsQuestion(note)
      BY <2>1 DEF ReceiveInv, Orderly, OwnDisplay
    <3>3. QED BY <1>5, <3>1, <3>2
  <2>4. QED BY <1>3, <2>1, <2>2, <2>3
<1>6. QED BY <1>1, <1>2, <1>4, <1>5

\* Every step of the receive view.
LEMMA ReceiveKept ==
  ASSUME ReceiveInv, (\E r \in Receivers : Receive(r)) \/ ReceiveNext \/ UNCHANGED receiveVars
  PROVE  ReceiveInv'
<1>1. CASE UNCHANGED receiveVars
  BY <1>1 DEF receiveVars, viewVars, ReceiveInv, ReceiveType, Orderly, OwnDisplay,
              OwnAnswers, InTurn, TurnOf, Viewed, NoLoss, OnTheWay, Answered
<1>2. CASE ReceiveNext
  <2>1. \/ \E r \in Receivers :
             \/ Asks(r) \/ OfferNew(r) \/ OfferBreakPoint(r) \/ AllDone(r)
             \/ Started(r) \/ Ends(r) \/ Listen(r) \/ ListenerEnds(r)
             \/ \E k \in {"message", "error", "close"} : Other(r, k)
             \/ \E f \in Files : OfferExisting(r, f)
             \/ \E a \in answers[r] : TakeAnswer(r, a)
        \/ ReceiveFails \/ CancelReceive \/ ResetReceive \/ RefuseShare \/ LeaveDone
        \/ \E b \in BOOLEAN : Answer(b)
    BY <1>2 DEF ReceiveNext
  <2>2. QED
    BY <2>1, ReceiverStep, TakeStep, ThreadStep, ListenStep, UserStep
<1>3. QED BY <1>1, <1>2, ReceiveClick

-----------------------------------------------------------------------------
(* The app.                                                                *)

\* The three invariants hold side by side.
LEMMA AlwaysApp == Spec => []AppInv
<1>1. Init => AppInv
  BY SettingsStart, SendStart, ReceiveStart DEF Init, AppInv
<1>2. AppInv /\ [Next]_vars => AppInv'
  <2> SUFFICES ASSUME AppInv, [Next]_vars PROVE AppInv'
    OBVIOUS
  <2>0. SettingsInv /\ SendInv /\ ReceiveInv BY DEF AppInv
  <2>1. SettingsInv'
    <3>1. UNCHANGED settingsVars => SettingsInv'
      BY <2>0 DEF settingsVars, SettingsInv, SettingsType, OneSave, IsTheSave
    <3>2. Change \/ SettingsNext \/ Reopen \/ UNCHANGED settingsVars
      BY DEF Next, Begins, GoesOn, Restart, vars
    <3>3. QED BY <2>0, <3>1, <3>2, ChangeKept, SaveKept, ReopenKept
  <2>2. SendInv'
    <3>1. OpenDialog \/ (\E s \in Senders : Send(s)) \/ SendNext \/ UNCHANGED sendVars
      BY DEF Next, Begins, GoesOn, Restart, vars
    <3>2. QED BY <2>0, <3>1, SendKept
  <2>3. ReceiveInv'
    <3>1. (\E r \in Receivers : Receive(r)) \/ ReceiveNext \/ UNCHANGED receiveVars
      BY DEF Next, Begins, GoesOn, Restart, vars
    <3>2. QED BY <2>0, <3>1, ReceiveKept
  <2>4. QED BY <2>1, <2>2, <2>3 DEF AppInv
<1>3. QED BY <1>1, <1>2, PTL DEF Spec

\* Once its saves are over the settings file holds what the app runs with, however
\* many changes there were, unless saves overlapped, failed or were cut off.
THEOREM SettingsAreKept == Spec => []SettingsKept
<1>1. AppInv => SettingsKept
  BY DEF AppInv, SettingsInv, OneSave, SettingsKept
<1>2. QED BY <1>1, AlwaysApp, PTL

\* A share that goes on is the one on view, or has told why it is not, whatever
\* files are picked, sent and cancelled, and in whatever order the senders report.
THEOREM SharesStayHeld == Spec => []SharesAreHeld
<1>1. AppInv => SharesAreHeld
  BY DEF AppInv, SendInv
<1>2. QED BY <1>1, AlwaysApp, PTL

\* No receiver gets the answer to another one's question, and the view has a
\* receiver to cancel just when it shows one at work.
THEOREM AnswersAreOwn == Spec => []OwnAnswer
<1>1. ASSUME AppInv PROVE OwnAnswer
  <2> SUFFICES ASSUME ~stale PROVE OwnAnswers /\ Viewed
    BY QuestionFacts DEF OwnAnswer, OwnAnswers, Viewed
  <2>1. QED BY <1>1 DEF AppInv, ReceiveInv, Orderly
<1>2. QED BY <1>1, AlwaysApp, PTL

\* A question the running receiver waits for is on display, or on its way to the
\* view or back, unless something was shown on top of it or, if it is about the
\* share, a file came: for any number of files, of questions at a time, and of times
\* the share and its files are asked about.
THEOREM QuestionsAreAnswerable == Spec => []NoQuestionLost
<1>1. ASSUME AppInv PROVE NoQuestionLost
  <2> SUFFICES ASSUME ~stale, ~covered, current \in listening, thread[current] = "on",
                      NEW q \in waits
               PROVE  note = q \/ OnTheWay(current, q) \/ Answered(current, q)
    BY DEF NoQuestionLost, OnTheWay, Answered
  <2>1. NoLoss /\ current \in Receivers
    BY <1>1 DEF AppInv, ReceiveInv, ReceiveType
  <2>2. QED BY <2>1 DEF NoLoss
<1>2. QED BY <1>1, AlwaysApp, PTL
=============================================================================
