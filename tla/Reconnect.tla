----------------------------- MODULE Reconnect -----------------------------
(***************************************************************************)
(* A share over connections that are lost and established again.  The      *)
(* relay's session, with its two queues, outlives the connections of       *)
(* either side.  A sender that comes back asks for the resume state        *)
(* and starts another `send_files`; a receiver that comes back makes the   *)
(* relay report Ready again.                                               *)
(*                                                                         *)
(* The relay learns of a lost connection later than the side that lost it: *)
(* that side may be back while the handler of its former connection still  *)
(* hands on what had arrived, and takes from the queue of the session.     *)
(*                                                                         *)
(* Each send_files is a run of its own: its tasks and its waiters live on  *)
(* when its connection is gone.  Permits, dispatcher and links are as in   *)
(* Transfer, with less detail.                                             *)
(***************************************************************************)
EXTENDS Contents

CONSTANTS
  NumFiles,      \* number of files the sender collected
  MaxConcurrent, \* MAX_CONCURRENT_FILES
  LinkCap,       \* messages under way in one direction
  NoFile,        \* stands for the content of a path where no file exists
  Source,        \* Source[f] is the content of the sender's file f
  MaxRuns,       \* bound: calls of send_files
  MaxLosses,     \* bound: lost connections
  MayLose,       \* the sides that may lose theirs: "sender", "receiver"
  EarlyLoss      \* whether the sender may, before its send_files has started

Files == 1..NumFiles
Runs == 1..MaxRuns

ASSUME ReconnectAssumption ==
  /\ NumFiles \in Nat /\ MaxRuns \in Nat /\ MaxLosses \in Nat
  /\ MaxConcurrent \in Nat \ {0} /\ LinkCap \in Nat \ {0}
  /\ NoFile \notin Seq(Chunk)
  /\ Source \in [Files -> Seq(Chunk)]
  /\ MayLose \subseteq {"sender", "receiver"} /\ EarlyLoss \in BOOLEAN

VARIABLES
  link,        \* the sender's connection: "up", "lost", or "joined" again
  conn,        \* the number of the sender's connection
  rlink,       \* the receiver's: "first", "lost", or "again" for a later one
  losses,      \* the number of lost connections
  late,        \* for each former connection of the sender, what the relay's handler
               \* of it had not handed on when the sender was back
  lateReplies, \* the same for the receiver's
  mixed,       \* history: the files (0 for Done) of the requests handed on after that
  missed,      \* history: such a handler took a reply when the sender was back
  toReceiver,  \* messages on their way to the receiver
  toSender,    \* messages on their way to the sender
  runs,        \* the number of calls of send_files
  run,         \* each call's control state, connection and next file
  resume,      \* the received chunks each call was told of
  task,        \* control state of each send_single_file of each call
  pos,         \* its read position
  told,        \* the confirm handed to it and not yet taken
  confirmQ,    \* the confirm channel of the sender's connection
  client,      \* the sender's CLI or app: "on", in "error", or "ended"
  completed,   \* the sender reported Completed
  prompts,     \* questions to the receiver's user, in order
  accepted,    \* history: the user has accepted the share
  answers,     \* history: the user's answers about each file
  recvFiles, recvPos, disk, \* as in Transfer
  finished,    \* history: files reported finished
  rstate,      \* the receiver's loop runs, or met an unknown file
  receiveDone  \* the receiver reported ReceiveDone

oldVars == <<late, lateReplies, mixed, missed>>
connVars == <<link, conn, rlink, losses, oldVars>>
runVars == <<runs, run, resume, task, pos, told>>
senderVars == <<runVars, confirmQ, client, completed>>
receiverVars == <<prompts, accepted, answers, recvFiles, recvPos, disk, finished, rstate,
                  receiveDone>>
vars == <<connVars, toReceiver, toSender, senderVars, receiverVars>>

-----------------------------------------------------------------------------
(* Messages.                                                               *)

Msg(type, f, n) == [type |-> type, file |-> f, n |-> n]
Reply(kind, f, accept, n) == [kind |-> kind, file |-> f, accept |-> accept, n |-> n]
ResumeReply(received) == [kind |-> "resume", received |-> received]
None == Reply("none", 0, FALSE, 0)

\* send_msg_to_relay by one of the connections that are there.
ToReceiver(m) == /\ Len(toReceiver) < LinkCap
                 /\ toReceiver' = Append(toReceiver, m)

ToSender(m) == /\ Len(toSender) < LinkCap
               /\ toSender' = Append(toSender, m)

\* A run is cancelled as soon as the main loop knows that its connection is gone.
Cancelled(r) == link = "lost" \/ run[r].conn # conn

\* Mutant of Post: a task looks its connection up when it sends.
PostAnywhere(r, m) ==
  IF link # "lost" THEN ToReceiver(m) ELSE UNCHANGED toReceiver

\* send_msg_to_relay by a task, on the connection its run was started with:
\* when that is gone the message may be buffered all the same (or TaskFails).
Post(r, m) == IF Cancelled(r) THEN UNCHANGED toReceiver ELSE ToReceiver(m)

-----------------------------------------------------------------------------
(* Losing connections and coming back.                                     *)

SenderOn == client # "ended"
Serving == SenderOn /\ link = "up"

\* The sender's connection breaks and the main loop notices: send_files_shutdown
\* is signalled, what is not yet at the relay does not get there.
SenderLost ==
  /\ Serving /\ "sender" \in MayLose /\ losses < MaxLosses
  /\ EarlyLoss \/ \E r \in 1..runs : run[r].conn = conn
  /\ link' = "lost" /\ losses' = losses + 1
  /\ \E n \in 0..Len(toReceiver) : toReceiver' = SubSeq(toReceiver, 1, n)
  /\ UNCHANGED <<conn, rlink, oldVars, toSender, senderVars, receiverVars>>

\* The handler of a lost connection takes messages too, also beside that of a
\* later one, until the relay notices: they go nowhere.
SenderMisses ==
  /\ link = "lost" \/ late # <<>>
  /\ toSender # <<>>
  /\ toSender' = Tail(toSender)
  /\ missed' = (missed \/ link # "lost")
  /\ UNCHANGED <<link, conn, rlink, losses, late, lateReplies, mixed, toReceiver, senderVars,
                 receiverVars>>

\* Mutant of SenderBack: the send_files of the lost connection are not shut down.
SenderBackKeeps ==
  /\ SenderOn /\ link = "lost"
  /\ link' = "joined"
  /\ confirmQ' = <<>>
  /\ UNCHANGED <<conn, rlink, losses, oldVars, toReceiver, toSender, runVars, client,
                 completed, receiverVars>>

\* establish_channel succeeded: another connection, another confirm channel.  The
\* handler of the former one has handed on the first n of what arrived, and may hold
\* the rest, waiting for room in the queue of the session.
SenderBack ==
  /\ SenderOn /\ link = "lost"
  /\ link' = "joined" /\ conn' = conn + 1
  /\ confirmQ' = <<>>
  /\ \E n \in 0..Len(toReceiver) :
       /\ toReceiver' = SubSeq(toReceiver, 1, n)
       /\ late' = Append(late, SubSeq(toReceiver, n + 1, Len(toReceiver)))
  /\ UNCHANGED <<rlink, losses, lateReplies, mixed, missed, toSender, runVars, client,
                 completed, receiverVars>>

\* It hands that on behind what the new connection has sent, if the relay does not
\* notice first.
LateRequest(i) ==
  /\ late[i] # <<>>
  /\ ToReceiver(Head(late[i]))
  /\ late' = [late EXCEPT ![i] = Tail(@)]
  /\ mixed' = mixed \cup {Head(late[i]).file}
  /\ UNCHANGED <<link, conn, rlink, losses, lateReplies, missed, toSender, senderVars,
                 receiverVars>>

\* Joined on a later connection: ask for the resume state.
Joined ==
  /\ SenderOn /\ link = "joined"
  /\ ToReceiver(Msg("ResumeRequest", 0, 0))
  /\ link' = "up"
  /\ UNCHANGED <<conn, rlink, losses, oldVars, toSender, senderVars, receiverVars>>

ReceiverOn == rstate = "run" /\ rlink # "lost"

ReceiverLost ==
  /\ ReceiverOn /\ "receiver" \in MayLose /\ losses < MaxLosses
  /\ rlink' = "lost" /\ losses' = losses + 1
  /\ \E n \in 0..Len(toSender) : toSender' = SubSeq(toSender, 1, n)
  /\ UNCHANGED <<link, conn, oldVars, toReceiver, senderVars, receiverVars>>

ReceiverMisses ==
  /\ rlink # "first" /\ toReceiver # <<>>
  /\ toReceiver' = Tail(toReceiver)
  /\ UNCHANGED <<connVars, toSender, senderVars, receiverVars>>

\* The relay reports Ready for every connection of a receiver, and may hold replies of
\* the former one.
ReceiverBack ==
  /\ rlink = "lost"
  /\ rlink' = "again"
  /\ \E n \in 0..Len(toSender) :
       /\ n < LinkCap
       /\ toSender' = Append(SubSeq(toSender, 1, n), Reply("ready", 0, FALSE, 0))
       /\ lateReplies' = Append(lateReplies, SubSeq(toSender, n + 1, Len(toSender)))
  /\ UNCHANGED <<link, conn, losses, late, mixed, missed, toReceiver, senderVars,
                 receiverVars>>

LateReply(i) ==
  /\ lateReplies[i] # <<>>
  /\ ToSender(Head(lateReplies[i]))
  /\ lateReplies' = [lateReplies EXCEPT ![i] = Tail(@)]
  /\ UNCHANGED <<link, conn, rlink, losses, late, mixed, missed, toReceiver, senderVars,
                 receiverVars>>

-----------------------------------------------------------------------------
(* The sender's main loop.                                                 *)

Arrived(kind) == Serving /\ toSender # <<>> /\ Head(toSender).kind = kind
Taken == toSender' = Tail(toSender)

Ready ==
  /\ Arrived("ready") /\ Taken
  /\ ToReceiver(Msg("SendRequest", 0, 0))
  /\ UNCHANGED <<connVars, senderVars, receiverVars>>

\* send_files is spawned, with what the receiver has of each file.
Start(received) ==
  /\ runs < MaxRuns
  /\ runs' = runs + 1
  /\ run' = [run EXCEPT ![runs + 1] = [pc |-> "loop", conn |-> conn, next |-> 1]]
  /\ resume' = [resume EXCEPT ![runs + 1] = received]
  /\ UNCHANGED <<task, pos, told, confirmQ, client, completed>>

\* Mutant of ShareAccepted: the answer is not looked at.
ShareAnswered ==
  /\ Arrived("share") /\ Taken
  /\ Start([f \in Files |-> 0])
  /\ UNCHANGED <<connVars, toReceiver, receiverVars>>

ShareAccepted ==
  /\ Arrived("share") /\ Head(toSender).accept /\ Taken
  /\ Start([f \in Files |-> 0])
  /\ UNCHANGED <<connVars, toReceiver, receiverVars>>

ShareRejected ==
  /\ Arrived("share") /\ ~Head(toSender).accept /\ Taken
  /\ ToReceiver(Msg("Done", 0, 0))
  /\ client' = "ended"
  /\ UNCHANGED <<connVars, runVars, confirmQ, completed, receiverVars>>

\* Mutant of ResumeState: what the receiver has is not taken over.
ResumeFromScratch ==
  /\ Arrived("resume") /\ Taken
  /\ Start([f \in Files |-> IF Head(toSender).received[f] > 0 THEN Len(Source[f]) ELSE 0])
  /\ UNCHANGED <<connVars, toReceiver, receiverVars>>

\* Mutant of ResumeState: only if send_files was not started before.
ResumeOnce ==
  /\ Arrived("resume") /\ Taken
  /\ IF runs = 0 THEN Start(Head(toSender).received) ELSE UNCHANGED senderVars
  /\ UNCHANGED <<connVars, toReceiver, receiverVars>>

\* ResumeState starts send_files too, whether or not one was started before.
ResumeState ==
  /\ Arrived("resume") /\ Taken
  /\ Start(Head(toSender).received)
  /\ UNCHANGED <<connVars, toReceiver, receiverVars>>

\* The confirm channel, of the latest connection, is below its capacity.
EnqueueConfirm ==
  /\ Arrived("newFile") \/ Arrived("breakPoint")
  /\ Taken
  /\ confirmQ' = Append(confirmQ, Head(toSender))
  /\ UNCHANGED <<connVars, toReceiver, runVars, client, completed, receiverVars>>

DoneReplied ==
  /\ Arrived("done") /\ Taken
  /\ completed' = TRUE
  /\ client' = "ended"
  /\ UNCHANGED <<connVars, toReceiver, runVars, confirmQ, receiverVars>>

\* The CLI shuts the sender down on an error; the app drops its runtime.
ClientEnds ==
  /\ client = "error"
  /\ client' = "ended"
  /\ UNCHANGED <<connVars, toReceiver, toSender, runVars, confirmQ, completed, receiverVars>>

\* should_retry: the retries are used up, or the session is gone.
GiveUp ==
  /\ SenderOn /\ link = "lost"
  /\ client' = "ended"
  /\ UNCHANGED <<connVars, toReceiver, toSender, runVars, confirmQ, completed, receiverVars>>

-----------------------------------------------------------------------------
(* One call of send_files.                                                 *)

Ended == {"ok", "failed"}
Active(r) == {f \in Files : task[r][f] \notin {"none"} \cup Ended}

InRun(r, pc) == SenderOn /\ r <= runs /\ run[r].pc = pc
Go(r, pc) == run' = [run EXCEPT ![r].pc = pc]

\* An error of any run, a cancelled one too, is reported to the client.
Error == client' = IF client = "on" THEN "error" ELSE client

NextFile(r) ==
  /\ InRun(r, "loop")
  /\ Go(r, IF Cancelled(r) \/ run[r].next > NumFiles THEN "join" ELSE "acquire")
  /\ UNCHANGED <<connVars, toReceiver, toSender, runs, resume, task, pos, told, confirmQ,
                 client, completed, receiverVars>>

SpawnTask(r) ==
  /\ InRun(r, "acquire")
  /\ Cardinality(Active(r)) < MaxConcurrent
  /\ task' = [task EXCEPT ![r][run[r].next] = "start"]
  /\ run' = [run EXCEPT ![r].pc = "loop", ![r].next = @ + 1]
  /\ UNCHANGED <<connVars, toReceiver, toSender, runs, resume, pos, told, confirmQ,
                 client, completed, receiverVars>>

\* Mutant of JoinTasks: Done without waiting for the tasks.
JoinTasksEarly(r) ==
  /\ InRun(r, "join")
  /\ Post(r, Msg("Done", 0, 0))
  /\ Go(r, "done")
  /\ UNCHANGED <<connVars, toSender, runs, resume, task, pos, told, confirmQ, client,
                 completed, receiverVars>>

\* All tasks have ended: their first error, or Done (of a cancelled run too).
JoinTasks(r) ==
  /\ InRun(r, "join")
  /\ Active(r) = {}
  /\ \/ /\ \A f \in Files : task[r][f] # "failed"
        /\ Post(r, Msg("Done", 0, 0))
        /\ Go(r, "done")
        /\ UNCHANGED client
     \/ /\ Cancelled(r) \/ \E f \in Files : task[r][f] = "failed"
        /\ Go(r, "failed")
        /\ Error
        /\ UNCHANGED toReceiver
  /\ UNCHANGED <<connVars, toSender, runs, resume, task, pos, told, confirmQ, completed,
                 receiverVars>>

\* A confirm goes to a run of its connection whose dispatcher takes it (one that it
\* is taking when the connection is lost included); without a waiter it is lost.
Dispatch(r) ==
  /\ SenderOn /\ r <= runs /\ confirmQ # <<>>
  /\ run[r].conn = conn /\ run[r].pc \in {"loop", "acquire", "join"}
  /\ LET c == Head(confirmQ) IN
     told' = IF task[r][c.file] = "wait" /\ told[r][c.file] = None
               THEN [told EXCEPT ![r][c.file] = c] ELSE told
  /\ confirmQ' = Tail(confirmQ)
  /\ UNCHANGED <<connVars, toReceiver, toSender, runs, run, resume, task, pos, client,
                 completed, receiverVars>>

-----------------------------------------------------------------------------
(* send_single_file.                                                       *)

InTask(r, f, pc) == SenderOn /\ task[r][f] = pc
Turn(r, f, pc) == task' = [task EXCEPT ![r][f] = pc]

\* Some of the file is there: BreakPoint, and the data from that position.
ResumeFile(r, f) ==
  /\ InTask(r, f, "start") /\ resume[r][f] > 0
  /\ Post(r, Msg("BreakPoint", f, resume[r][f]))
  /\ pos' = [pos EXCEPT ![r][f] = resume[r][f]]
  /\ Turn(r, f, "stream")
  /\ UNCHANGED <<connVars, toSender, runs, run, resume, told, confirmQ, client, completed,
                 receiverVars>>

RequestFile(r, f) ==
  /\ InTask(r, f, "start") /\ resume[r][f] = 0
  /\ Post(r, Msg("NewFileRequest", f, 0))
  /\ Turn(r, f, "wait")
  /\ UNCHANGED <<connVars, toSender, runs, run, resume, pos, told, confirmQ, client,
                 completed, receiverVars>>

Confirmed(r, f) == /\ InTask(r, f, "wait") /\ told[r][f] # None
                   /\ told' = [told EXCEPT ![r][f] = None]

FileKept(r, f) ==
  /\ Confirmed(r, f)
  /\ told[r][f].kind = "newFile" /\ ~told[r][f].accept
  /\ Turn(r, f, "ok")
  /\ UNCHANGED <<connVars, toReceiver, toSender, runs, run, resume, pos, confirmQ, client,
                 completed, receiverVars>>

\* From the start, or from the breakpoint that was accepted.
FileConfirmed(r, f) ==
  /\ Confirmed(r, f)
  /\ told[r][f].kind = "breakPoint" \/ told[r][f].accept
  /\ IF told[r][f].kind = "breakPoint" /\ told[r][f].accept
       THEN Post(r, Msg("BreakPoint", f, told[r][f].n)) ELSE UNCHANGED toReceiver
  /\ pos' = [pos EXCEPT ![r][f] = told[r][f].n]
  /\ Turn(r, f, "stream")
  /\ UNCHANGED <<connVars, toSender, runs, run, resume, confirmQ, client, completed,
                 receiverVars>>

\* Nothing but the confirm or the timer ends the wait, even in a cancelled run.
ConfirmTimeout(r, f) ==
  /\ InTask(r, f, "wait") /\ told[r][f] = None
  /\ Turn(r, f, "failed")
  /\ UNCHANGED <<connVars, toReceiver, toSender, runs, run, resume, pos, told, confirmQ,
                 client, completed, receiverVars>>

StreamCancelled(r, f) ==
  /\ InTask(r, f, "stream") /\ Cancelled(r)
  /\ Turn(r, f, "ok")
  /\ UNCHANGED <<connVars, toReceiver, toSender, runs, run, resume, pos, told, confirmQ,
                 client, completed, receiverVars>>

SendChunk(r, f) ==
  /\ InTask(r, f, "stream") /\ pos[r][f] < Len(Source[f])
  /\ Post(r, Msg("FileData", f, pos[r][f] + 1))
  /\ pos' = [pos EXCEPT ![r][f] = @ + 1]
  /\ UNCHANGED <<connVars, toSender, runs, run, resume, task, told, confirmQ, client,
                 completed, receiverVars>>

SendFileDone(r, f) ==
  /\ InTask(r, f, "stream") /\ pos[r][f] >= Len(Source[f])
  /\ Post(r, Msg("FileDone", f, 0))
  /\ Turn(r, f, "ok")
  /\ UNCHANGED <<connVars, toSender, runs, run, resume, pos, told, confirmQ, client,
                 completed, receiverVars>>

\* The connection's channel is closed: the send fails.
TaskFails(r, f) ==
  /\ SenderOn /\ r <= runs /\ Cancelled(r)
  /\ task[r][f] \in {"start", "stream"}
  /\ Turn(r, f, "failed")
  /\ UNCHANGED <<connVars, toReceiver, toSender, runs, run, resume, pos, told, confirmQ,
                 client, completed, receiverVars>>

-----------------------------------------------------------------------------
(* The receiver's loop and its user.                                       *)

Received(type) == /\ ReceiverOn /\ toReceiver # <<>> /\ Head(toReceiver).type = type
                  /\ toReceiver' = Tail(toReceiver)
ReceivedFile(type, f) == Received(type) /\ Head(toReceiver).file = f

Ask(kind, f, n) == prompts' = Append(prompts, Reply(kind, f, FALSE, n))

Open(f) == /\ recvFiles' = recvFiles \cup {f}
           /\ recvPos' = [recvPos EXCEPT ![f] = 0]

RecvSendRequest ==
  /\ Received("SendRequest")
  /\ Ask("share", 0, 0)
  /\ UNCHANGED <<connVars, toSender, senderVars, accepted, answers, recvFiles, recvPos, disk,
                 finished, rstate, receiveDone>>

RecvNewFile(f) ==
  /\ ReceivedFile("NewFileRequest", f)
  /\ disk[f] = NoFile
  /\ disk' = [disk EXCEPT ![f] = <<>>]
  /\ Open(f)
  /\ ToSender(Reply("newFile", f, TRUE, 0))
  /\ UNCHANGED <<connVars, senderVars, prompts, accepted, answers, finished, rstate, receiveDone>>

\* Another RecvFile takes the place of one that is open.
RecvExistingFile(f) ==
  /\ ReceivedFile("NewFileRequest", f)
  /\ disk[f] # NoFile
  /\ Open(f)
  /\ IF AtBreakPoint(disk[f], Source[f])
       THEN Ask("breakPoint", f, SavedChunks(disk[f])) ELSE Ask("newFile", f, 0)
  /\ UNCHANGED <<connVars, toSender, senderVars, accepted, answers, disk, finished, rstate,
                 receiveDone>>

Lookup(f) == rstate' = IF f \in recvFiles THEN "run" ELSE "unknownFile"

RecvBreakPoint(f) ==
  /\ ReceivedFile("BreakPoint", f)
  /\ Lookup(f)
  /\ recvPos' = [recvPos EXCEPT ![f] = Head(toReceiver).n]
  /\ UNCHANGED <<connVars, toSender, senderVars, prompts, accepted, answers, recvFiles, disk,
                 finished, receiveDone>>

RecvFileData(f) ==
  /\ ReceivedFile("FileData", f)
  /\ Lookup(f)
  /\ IF f \in recvFiles
       THEN /\ disk' = [disk EXCEPT
                 ![f] = WriteAt(@, recvPos[f], Source[f][Head(toReceiver).n])]
            /\ recvPos' = [recvPos EXCEPT ![f] = @ + 1]
       ELSE UNCHANGED <<disk, recvPos>>
  /\ UNCHANGED <<connVars, toSender, senderVars, prompts, accepted, answers, recvFiles, finished,
                 receiveDone>>

RecvFileDone(f) ==
  /\ ReceivedFile("FileDone", f)
  /\ Lookup(f)
  /\ finished' = finished \cup (recvFiles \cap {f})
  /\ recvFiles' = recvFiles \ {f}
  /\ UNCHANGED <<connVars, toSender, senderVars, prompts, accepted, answers, recvPos, disk,
                 receiveDone>>

\* ResumeRequest: the progress of the files that are open; none is ever listed
\* as completed.
RecvResumeRequest ==
  /\ Received("ResumeRequest")
  /\ ToSender(ResumeReply([f \in Files |-> IF f \in recvFiles THEN recvPos[f] ELSE 0]))
  /\ UNCHANGED <<connVars, senderVars, receiverVars>>

RecvDone ==
  /\ Received("Done")
  /\ ToSender(Reply("done", 0, FALSE, 0))
  /\ receiveDone' = TRUE
  /\ UNCHANGED <<connVars, senderVars, prompts, accepted, answers, recvFiles, recvPos, disk,
                 finished, rstate>>

\* The user answers the questions in their order, also one asked a second time.
Answered(kind) == ReceiverOn /\ prompts # <<>> /\ Head(prompts).kind = kind
                  /\ prompts' = Tail(prompts)

\* What the user answered about the file in question, for the properties.
Note(accept) == answers' = [answers EXCEPT ![Head(prompts).file] = @ \cup {accept}]

AnswerShare(accept) ==
  /\ Answered("share")
  /\ ToSender(Reply("share", 0, accept, 0))
  /\ accepted' = (accepted \/ accept)
  /\ UNCHANGED <<connVars, toReceiver, senderVars, answers, recvFiles, recvPos, disk,
                 finished, rstate, receiveDone>>

\* "overwrite?": a file that is not to be overwritten is no longer open.
AnswerDuplicate(accept) ==
  /\ Answered("newFile")
  /\ Note(accept)
  /\ ToSender([Head(prompts) EXCEPT !.accept = accept])
  /\ recvFiles' = IF accept THEN recvFiles ELSE recvFiles \ {Head(prompts).file}
  /\ UNCHANGED <<connVars, toReceiver, senderVars, accepted, recvPos, disk, finished,
                 rstate, receiveDone>>

\* "Resume transfer?": otherwise the file, if open, is cut and begun anew.
AnswerBreakPoint(accept) ==
  /\ Answered("breakPoint")
  /\ Note(accept)
  /\ LET f == Head(prompts).file IN
     /\ ToSender(Reply("breakPoint", f, accept, IF accept THEN Head(prompts).n ELSE 0))
     /\ IF accept \/ f \notin recvFiles
          THEN UNCHANGED <<disk, recvPos>>
          ELSE /\ disk' = [disk EXCEPT ![f] = <<>>]
               /\ recvPos' = [recvPos EXCEPT ![f] = 0]
  /\ UNCHANGED <<connVars, toReceiver, senderVars, accepted, recvFiles, finished, rstate,
                 receiveDone>>

-----------------------------------------------------------------------------
(* The receiver has joined, and the relay reported Ready for the first time. *)

Init ==
  /\ link = "up" /\ conn = 1 /\ rlink = "first" /\ losses = 0
  /\ late = <<>> /\ lateReplies = <<>> /\ mixed = {} /\ missed = FALSE
  /\ toReceiver = <<>> /\ toSender = <<Reply("ready", 0, FALSE, 0)>>
  /\ runs = 0
  /\ run = [r \in Runs |-> [pc |-> "none", conn |-> 0, next |-> 1]]
  /\ resume = [r \in Runs |-> [f \in Files |-> 0]]
  /\ task = [r \in Runs |-> [f \in Files |-> "none"]]
  /\ pos = [r \in Runs |-> [f \in Files |-> 0]]
  /\ told = [r \in Runs |-> [f \in Files |-> None]]
  /\ confirmQ = <<>> /\ client = "on" /\ completed = FALSE
  /\ prompts = <<>> /\ accepted = FALSE /\ answers = [f \in Files |-> {}]
  /\ recvFiles = {} /\ recvPos = [f \in Files |-> 0]
  /\ disk = [f \in Files |-> NoFile]
  /\ finished = {} /\ rstate = "run" /\ receiveDone = FALSE

Connections == \/ SenderLost \/ SenderMisses \/ ReceiverLost \/ ReceiverMisses \/ GiveUp
               \/ \E i \in DOMAIN late : LateRequest(i)
               \/ \E i \in DOMAIN lateReplies : LateReply(i)

SenderLoop == \/ SenderBack \/ Joined \/ Ready \/ ShareAccepted \/ ShareRejected
              \/ ResumeState \/ EnqueueConfirm \/ DoneReplied

SendFiles(r) == NextFile(r) \/ SpawnTask(r) \/ JoinTasks(r) \/ Dispatch(r)

SendSingleFile(r, f) ==
  \/ ResumeFile(r, f) \/ RequestFile(r, f) \/ FileKept(r, f) \/ FileConfirmed(r, f)
  \/ ConfirmTimeout(r, f) \/ StreamCancelled(r, f) \/ SendChunk(r, f) \/ SendFileDone(r, f)

ReceiverLoop ==
  \/ ReceiverBack \/ RecvSendRequest \/ RecvResumeRequest \/ RecvDone
  \/ \E f \in Files : \/ RecvNewFile(f) \/ RecvExistingFile(f) \/ RecvBreakPoint(f)
                      \/ RecvFileData(f) \/ RecvFileDone(f)

User == \E a \in BOOLEAN : AnswerShare(a) \/ AnswerDuplicate(a) \/ AnswerBreakPoint(a)

Next == \/ Connections \/ SenderLoop \/ ClientEnds \/ ReceiverLoop \/ User
        \/ \E r \in Runs : SendFiles(r)
        \/ \E r \in Runs, f \in Files : SendSingleFile(r, f) \/ TaskFails(r, f)

\* The runtime polls what can go on and the confirm timers fire, the relay can be
\* reached again, and the user answers.
Fairness ==
  /\ WF_vars(SenderLoop) /\ WF_vars(ClientEnds) /\ WF_vars(ReceiverLoop) /\ WF_vars(User)
  /\ \A r \in Runs : WF_vars(SendFiles(r))
  /\ \A r \in Runs, f \in Files : WF_vars(SendSingleFile(r, f))

Spec == Init /\ [][Next]_vars
FairSpec == Spec /\ Fairness

-----------------------------------------------------------------------------
(* Properties.                                                             *)

\* The receiver kept its first connection: only the sender's was ever lost.
ReceiverStayed == rlink = "first"

\* The user refused to overwrite or to resume this file.
Refused(f) == FALSE \in answers[f]

\* A file that was reported finished is the sender's file, and stays so through
\* reconnections of the sender that have it transferred a second time, as long as
\* the user does not have it begun anew, and nothing the relay still held of it from
\* a lost connection arrives after the sender is back.
FinishedStaysSource ==
  ReceiverStayed => \A f \in finished \ mixed : ~Refused(f) => disk[f] = Source[f]

\* The progress of an open file, which the resume state reports, is progress: so
\* much of the file is the sender's, with no gap and nothing out of order, under the
\* same conditions; what is late of other files does not disturb it.
ReceivedIsPrefix ==
  ReceiverStayed =>
    \A f \in recvFiles \ mixed : ~Refused(f) =>
      /\ recvPos[f] <= Len(Source[f]) /\ recvPos[f] <= Len(disk[f])
      /\ SubSeq(disk[f], 1, recvPos[f]) = SubSeq(Source[f], 1, recvPos[f])

\* A file is never streamed by two calls of send_files whose messages arrive,
\* whatever the handlers of lost connections still take or hand on.
OneStream ==
  ReceiverStayed =>
    \A f \in Files, r, s \in 1..runs :
      task[r][f] = "stream" /\ task[s][f] = "stream" /\ ~Cancelled(r) /\ ~Cancelled(s)
        => r = s

\* Completed and ReceiveDone mean that every file was received or refused, also
\* when the calls of send_files before the last one were cancelled, unless it is the
\* Done of a lost connection that arrives after the sender is back.
DoneIsComplete ==
  ReceiverStayed /\ 0 \notin mixed /\ accepted /\ (completed \/ receiveDone)
    => \A f \in Files : f \in finished \/ Refused(f)

\* Nothing is written before the user has accepted the share, whoever lost a
\* connection, and whatever the handlers of lost connections still hand on.
NothingBeforeConsent == \A f \in Files : disk[f] # NoFile => accepted

\* A share whose sender comes back, again and again, goes on: it completes unless the
\* sender's client is ended by an error or gives up, the user refused a file, or the
\* handler of a lost connection took a reply meant for the new one or handed on what
\* it still held.
ResumedCompletes ==
  runs > 0 ~> \/ completed \/ client = "ended"
              \/ ~ReceiverStayed \/ \E f \in Files : Refused(f)
              \/ missed \/ mixed # {}

\* A file that was reported finished is the sender's file, unless the user refused it.
FinishedIsSource == \A f \in finished : ~Refused(f) => disk[f] = Source[f]
=============================================================================
