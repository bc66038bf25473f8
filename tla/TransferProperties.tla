------------------------- MODULE TransferProperties -------------------------
(***************************************************************************)
(* What makes a transfer correct: properties of Transfer, the turns its    *)
(* messages take, and the abstract copy it implements.                     *)
(***************************************************************************)
EXTENDS Transfer

\* The "receive file failed" exits of the receiver's loop are never taken: no
\* BreakPoint, FileData or FileDone comes for a file that is not open, whatever
\* the user answers, however late, and wherever the sender stops.
NoUnknownFile == rstate # "unknownFile"

\* A file the receiver reports finished has the sender's content: all of it if
\* it was created or restarted; the sender's chunks over the old ones if it was
\* overwritten; the sender's chunks behind the saved ones if it was resumed.
FinishedContent ==
  \A f \in finished :
    LET n == Len(Source[f]) IN
    /\ choice[f] \in {"create", "restart"} => disk[f] = Source[f]
    /\ choice[f] = "overwrite" =>
         Len(disk[f]) >= n /\ SubSeq(disk[f], 1, n) = Source[f]
    /\ choice[f] = "resume" =>
         LET s == SavedChunks(old[f]) IN
         disk[f] = SubSeq(old[f], 1, s) \o SubSeq(Source[f], s + 1, n)
    /\ choice[f] \notin {"none", "keep"}

\* The receiver holds no more files open than the sender's tasks that run or
\* gave up on them: a file is closed before the file that takes its permit.
OpenFilesBounded ==
  ~cancel => Cardinality(recvFiles) <=
    MaxConcurrent + Cardinality({f \in Files : task[f] \in {"failed", "timedOut"}})

\* The sender's main loop, which hands confirms on outside of its select!, stops
\* for want of room in the confirm channel only after more answers came too late
\* than the channel holds: every other confirm finds a dispatcher to take it.
LoopBlockedByLateAnswers ==
  /\ Arrived("newFile") \/ Arrived("breakPoint")
  /\ Len(confirmQ) = ConfirmCap /\ disp = "off"
  => Cardinality({f \in Files : task[f] = "timedOut"}) > ConfirmCap

\* Done is the last word of a share that was not cancelled: when the receiver
\* reports ReceiveDone or the sender Completed, no question is open, no file is
\* open, and every file is there or was kept.
DoneMeansSettled ==
  (receiveDone \/ completed) /\ share = "accepted" /\ ~cancel =>
    /\ prompts = {} /\ recvFiles = {}
    /\ \A f \in Files :
         IF f \in EmptyDirs \/ choice[f] = "keep" THEN choice[f] # "none"
                                                  ELSE f \in finished

\* Without the user's consent no existing file changes, a file that was kept or
\* is finished is not touched again, and nothing is written to a refused share.
ConsentedWrites ==
  [][\A f \in Files : disk'[f] # disk[f] =>
       /\ old[f] # NoFile => choice'[f] \in {"overwrite", "resume", "restart"}
       /\ f \notin finished
       /\ share = "accepted"]_vars

\* Once accepted, send_files comes to an end even if the user never answers a
\* question, the connection is lost or the transfer is cancelled while both links
\* are full and each side waits for room in the other's: only a receiver that
\* stopped with an error can keep it waiting.
SendFilesEnds ==
  share = "accepted" ~> sf \in {"done", "failed"} \/ rstate # "run"

\* An accepted share completes on the sender's side, unless it is cancelled,
\* the connection or the receiver fails, or a task fails or times out.
AcceptedCompletes ==
  share = "accepted" ~>
    \/ completed \/ cancel \/ ~up \/ rstate # "run"
    \/ \E f \in Files : task[f] \in {"failed", "timedOut"}
-----------------------------------------------------------------------------
(* The turn of a file: what is under way about it is in one place only, a  *)
(* request, a question, a confirm or a task that streams.                  *)

IsRequest(m, f)  == m.type = "NewFileRequest" /\ m.file = f
IsBody(m, f)     == m.type \in Body /\ m.file = f
IsQuestion(p, f) == p.kind \in {"duplicate", "breakPoint"} /\ p.file = f
IsConfirm(c, f)  == c.kind \in {"newFile", "breakPoint"} /\ c.file = f

Requested(f) == \E i \in 1..Len(toReceiver) : IsRequest(toReceiver[i], f)
OneRequest(f) ==
  \A i, j \in 1..Len(toReceiver) :
    IsRequest(toReceiver[i], f) /\ IsRequest(toReceiver[j], f) => i = j

Questioned(f) == \E p \in prompts : IsQuestion(p, f)
OneQuestion(f) ==
  \A p, q \in prompts : IsQuestion(p, f) /\ IsQuestion(q, f) => p = q

Replied(f) == \E i \in 1..Len(toSender) : IsConfirm(toSender[i], f)
OneReply(f) ==
  \A i, j \in 1..Len(toSender) :
    IsConfirm(toSender[i], f) /\ IsConfirm(toSender[j], f) => i = j

Queued(f) == \E i \in 1..Len(confirmQ) : IsConfirm(confirmQ[i], f)
OneQueued(f) ==
  \A i, j \in 1..Len(confirmQ) :
    IsConfirm(confirmQ[i], f) /\ IsConfirm(confirmQ[j], f) => i = j

Confirmed(f) == oneshot[f] # None

Streamed(f) == \E i \in 1..Len(toReceiver) : IsBody(toReceiver[i], f)
IsDone(m, f) == m.type = "FileDone" /\ m.file = f
DoneSent(f) == \E i \in 1..Len(toReceiver) : IsDone(toReceiver[i], f)
DoneLast(f) ==
  \A i, j \in 1..Len(toReceiver) :
    IsDone(toReceiver[i], f) /\ IsBody(toReceiver[j], f) => j <= i

\* A confirm that lets the sender stream the file.
Grant(c, f) ==
  IsConfirm(c, f) /\ (c.kind = "breakPoint" \/ (c.accept /\ f \notin EmptyDirs))
GrantReplied(f) == \E i \in 1..Len(toSender) : Grant(toSender[i], f)
GrantQueued(f)  == \E i \in 1..Len(confirmQ) : Grant(confirmQ[i], f)
Streaming(f)    == task[f] \in {"point", "stream", "send"}

\* A task that sent its request and was not answered.
Unanswered(f) == task[f] \in {"wait", "timedOut"}

\* Until its request is sent, nothing is under way about a file.
UnaskedTurn(f) ==
  task[f] \in {"none", "start"} =>
    /\ ~Requested(f) /\ ~Questioned(f) /\ ~Streamed(f)
    /\ ~Replied(f) /\ ~Queued(f) /\ ~Confirmed(f)

\* A request is alone, and its task waits or gave up.
RequestTurn(f) ==
  /\ OneRequest(f)
  /\ Requested(f) => /\ Unanswered(f) /\ ~Questioned(f) /\ ~Streamed(f)
                     /\ ~Replied(f) /\ ~Queued(f) /\ ~Confirmed(f)

\* So is a question, and it is about an open file.
QuestionTurn(f) ==
  /\ OneQuestion(f)
  /\ Questioned(f) => /\ Unanswered(f) /\ ~Streamed(f) /\ f \in recvFiles
                      /\ ~Replied(f) /\ ~Queued(f) /\ ~Confirmed(f)

\* So is a confirm, on the link, in the channel or handed to the task.
ConfirmTurn(f) ==
  /\ OneReply(f) /\ OneQueued(f)
  /\ Replied(f) => Unanswered(f) /\ ~Streamed(f) /\ ~Queued(f) /\ ~Confirmed(f)
  /\ Queued(f) => Unanswered(f) /\ ~Streamed(f) /\ ~Confirmed(f)
  /\ Confirmed(f) => Unanswered(f) /\ ~Streamed(f) /\ IsConfirm(oneshot[f], f)

\* What lets the sender stream leaves the file open at the receiver.
GrantTurn(f) ==
  \/ GrantReplied(f) \/ GrantQueued(f) \/ Grant(oneshot[f], f) \/ Streaming(f)
  => f \in recvFiles

\* While messages about its content are under way a file is open; FileDone is
\* the last of them.
StreamTurn(f) ==
  /\ Streamed(f) => f \in recvFiles
  /\ DoneSent(f) => task[f] = "ok"
  /\ DoneLast(f)

FileTurn(f) == /\ UnaskedTurn(f) /\ RequestTurn(f) /\ QuestionTurn(f)
               /\ ConfirmTurn(f) /\ GrantTurn(f) /\ StreamTurn(f)

\* The request, the question, the confirm and the stream of a file take turns:
\* never two of them at once, no matter how the tasks, the dispatcher and the
\* user interleave or when a confirm times out.
OneTurn == \A f \in Files : FileTurn(f)

-----------------------------------------------------------------------------
(* Refinement: tasks, confirms and messages together copy each file in     *)
(* order, once, and only where the user allowed it.                        *)

\* An accepted breakpoint counts before its BreakPoint message has arrived.
CopyPosition(f) ==
  IF choice[f] = "resume" /\ recvPos[f] < SavedChunks(old[f])
    THEN SavedChunks(old[f]) ELSE recvPos[f]

CopyState(f) ==
  CASE choice[f] = "none" -> "pending"
    [] choice[f] = "keep" -> "kept"
    [] f \in finished \cup EmptyDirs /\ choice[f] \notin {"none", "keep"} -> "done"
    [] OTHER -> "copying"

Copy == INSTANCE FileCopy WITH
  state <- [f \in Files |-> CopyState(f)],
  at <- [f \in Files |-> CopyPosition(f)]

\* The transfer implements FileCopy: what reaches the receiver's disk over the
\* links, in whatever interleaving of tasks and answers, is an in-order copy.
CopySpec == Copy!Spec

=============================================================================
