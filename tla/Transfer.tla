------------------------------ MODULE Transfer ------------------------------
(***************************************************************************)
(* One file transfer of flash-cat over one connection: the sender's        *)
(* `send_files` with its concurrent `send_single_file` tasks, its confirm  *)
(* dispatcher and its main loop, and the receiver's message loop with its  *)
(* open `RecvFile`s and its user.  The relay between the two is a pair of  *)
(* FIFO links (a module of its own, RelayChannel); a connection that is   *)
(* lost is not re-established here.                                        *)
(*                                                                         *)
(* Contents are sequences of chunks: one chunk is one FileData message.    *)
(***************************************************************************)
EXTENDS Contents

CONSTANTS
  NumFiles,      \* number of entries the sender collected
  MaxConcurrent, \* MAX_CONCURRENT_FILES
  LinkCap,       \* messages a link holds (bounded queues of the whole path)
  ConfirmCap,    \* capacity of the sender's confirm channel
  NoFile,        \* stands for the content of a path where no file exists
  Source,        \* Source[f] is the content of the sender's file f
  EmptyDirs,     \* the entries that are empty directories
  OldContents    \* OldContents[f]: what the receiver's disk may hold before

Files == 1..NumFiles

ASSUME SizesAssumption ==
  /\ NumFiles \in Nat
  /\ MaxConcurrent \in Nat \ {0}
  /\ LinkCap \in Nat \ {0}
  /\ ConfirmCap \in Nat \ {0}

ASSUME ContentsAssumption ==
  /\ NoFile \notin Seq(Chunk)
  /\ EmptyDirs \subseteq Files
  /\ Source \in [Files -> Seq(Chunk)]
  /\ OldContents \in [Files -> SUBSET (Seq(Chunk) \cup {NoFile})]

VARIABLES
  up,         \* the sender's connection carries messages
  cancel,     \* send_files_shutdown of this connection was signalled
  toReceiver, \* messages on their way to the receiver
  toSender,   \* messages on their way to the sender
  share,      \* how far the share request got
  sf,         \* control state of send_files
  nextFile,   \* the entry send_files looks at next
  permits,    \* free permits of the semaphore
  task,       \* control state of each send_single_file task
  pos,        \* read position of each task, in chunks
  waiters,    \* files with an entry in confirm_waiters
  oneshot,    \* the confirm handed to a task and not yet taken by it
  disp,       \* the confirm dispatcher
  confirmQ,   \* the bounded confirm channel
  completed,  \* the sender reported Completed
  prompts,    \* questions the receiver's user has not answered
  recvFiles,  \* keys of recv_files: files with an open RecvFile
  recvPos,    \* the writer position (= progress) of each RecvFile
  disk,       \* the receiver's disk
  old,        \* history: the disk before the transfer
  choice,     \* history: how each file came to be written or kept
  finished,   \* files whose FileDone the receiver has handled
  rstate,     \* the receiver's loop runs, or the error it ended with
  receiveDone \* the receiver reported ReceiveDone

linkVars     == <<up, cancel, toReceiver, toSender>>
loopVars     == <<share, sf, nextFile, completed>>
taskVars     == <<permits, task, pos>>
confirmVars  == <<waiters, oneshot, disp, confirmQ>>
senderVars   == <<loopVars, taskVars, confirmVars>>
fileVars     == <<recvFiles, recvPos, disk>>
historyVars  == <<old, choice, finished>>
endVars      == <<rstate, receiveDone>>
receiverVars == <<prompts, fileVars, historyVars, endVars>>
vars == <<linkVars, senderVars, receiverVars>>

-----------------------------------------------------------------------------
(* Messages.                                                               *)

None == [kind |-> "none", file |-> 0, accept |-> FALSE, n |-> 0]

\* `n` is a position: of a BreakPoint, or the number of a FileData's chunk.
ToReceiver(type, f, n) == [type |-> type, file |-> f, n |-> n]

FileConfirm(kind, f, accept, n) ==
  [kind |-> kind, file |-> f, accept |-> accept, n |-> n]

\* Messages about the content of a file, legal only for an open RecvFile.
Body == {"BreakPoint", "FileData", "FileDone"}

ToReceiverMsg ==
  [type : {"SendRequest", "Done"}, file : {0}, n : {0}]
  \cup [type : {"NewFileRequest", "BreakPoint", "FileDone"},
        file : Files, n : Nat]
  \cup {m \in [type : {"FileData"}, file : Files, n : Nat] :
          m.n \in 1..Len(Source[m.file])}

Confirm ==
  [kind : {"newFile", "breakPoint"}, file : Files, accept : BOOLEAN, n : Nat]

ToSenderMsg ==
  Confirm \cup [kind : {"share", "done"}, file : {0}, accept : BOOLEAN, n : {0}]

Prompt == [kind : {"share", "duplicate", "breakPoint"},
           file : Files \cup {0}, n : Nat]

\* send_msg_to_relay of the sender.  It waits for room; on a lost connection
\* the message is buffered and never arrives (or SendFails).
Post(m) ==
  IF up
    THEN /\ Len(toReceiver) < LinkCap
         /\ toReceiver' = Append(toReceiver, m)
    ELSE UNCHANGED toReceiver

\* send_msg_to_relay of the receiver.
Reply(m) ==
  IF up
    THEN /\ Len(toSender) < LinkCap
         /\ toSender' = Append(toSender, m)
    ELSE UNCHANGED toSender

-----------------------------------------------------------------------------
(* The sender's main loop (relay_channel).  It serves the connection until *)
(* it signals send_files_shutdown, so it runs exactly while ~cancel.       *)

Serving == ~cancel

Arrived(kind) ==
  /\ Serving
  /\ toSender # <<>>
  /\ Head(toSender).kind = kind

\* The relay reported Ready: ask the receiver to take the share.
Ready ==
  /\ Serving
  /\ share = "ready"
  /\ Post(ToReceiver("SendRequest", 0, 0))
  /\ share' = "asked"
  /\ UNCHANGED <<up, cancel, toSender, sf, nextFile, taskVars, confirmVars,
                 completed, receiverVars>>

\* ShareConfirm(Accept): send_files is spawned.
ShareAccepted ==
  /\ Arrived("share")
  /\ Head(toSender).accept
  /\ toSender' = Tail(toSender)
  /\ share' = "accepted"
  /\ sf' = "loop"
  /\ disp' = "start"
  /\ UNCHANGED <<up, cancel, toReceiver, nextFile, taskVars, waiters, oneshot,
                 confirmQ, completed, receiverVars>>

\* ShareConfirm(Reject): Done without a file.
ShareRejected ==
  /\ Arrived("share")
  /\ ~Head(toSender).accept
  /\ toSender' = Tail(toSender)
  /\ Post(ToReceiver("Done", 0, 0))
  /\ share' = "rejected"
  /\ UNCHANGED <<up, cancel, sf, nextFile, taskVars, confirmVars, completed,
                 receiverVars>>

\* FileConfirm goes to the bounded confirm channel; a full one blocks the loop.
EnqueueConfirm ==
  /\ Arrived("newFile") \/ Arrived("breakPoint")
  /\ Len(confirmQ) < ConfirmCap
  /\ confirmQ' = Append(confirmQ, Head(toSender))
  /\ toSender' = Tail(toSender)
  /\ UNCHANGED <<up, cancel, toReceiver, loopVars, taskVars, waiters, oneshot,
                 disp, receiverVars>>

\* The receiver answered Done: the CLI and the app report Completed.
DoneReplied ==
  /\ Arrived("done")
  /\ toSender' = Tail(toSender)
  /\ completed' = TRUE
  /\ UNCHANGED <<up, cancel, toReceiver, share, sf, nextFile, taskVars,
                 confirmVars, receiverVars>>

\* The user stops the transfer, or messages.next() ended: send_files is told
\* to stop and the loop leaves this connection.  It drops the connection's
\* stream after its `close`, or has lost it: the link ends too (HangUp).
Cancel ==
  /\ Serving
  /\ cancel' = TRUE
  /\ UNCHANGED <<up, toReceiver, toSender, senderVars, receiverVars>>

\* The sender's connection breaks; what was under way arrives up to a point.
LinkDown ==
  /\ up
  /\ up' = FALSE
  /\ \E n \in 0..Len(toReceiver) : toReceiver' = SubSeq(toReceiver, 1, n)
  /\ \E n \in 0..Len(toSender) : toSender' = SubSeq(toSender, 1, n)
  /\ UNCHANGED <<cancel, senderVars, receiverVars>>

\* Mutant of HangUp: a cancelled loop keeps its stream open.
HangUpNever == FALSE /\ LinkDown

\* The link of a loop that has left it: it goes down for certain.
HangUp == cancel /\ LinkDown

-----------------------------------------------------------------------------
(* send_files: the loop over the files, the dispatcher and the end.        *)

\* Mutant of NextFile: off by one at the end of the list.
NextFileOffByOne ==
  /\ sf = "loop"
  /\ sf' = IF cancel \/ nextFile > NumFiles + 1 THEN "join" ELSE "acquire"
  /\ UNCHANGED <<linkVars, share, nextFile, taskVars, confirmVars, completed,
                 receiverVars>>

\* Head of the loop: cancelled or no more files, or one more file.
NextFile ==
  /\ sf = "loop"
  /\ sf' = IF cancel \/ nextFile > NumFiles THEN "join" ELSE "acquire"
  /\ UNCHANGED <<linkVars, share, nextFile, taskVars, confirmVars, completed,
                 receiverVars>>

\* acquire_owned() returned a permit: the task is spawned with it.
SpawnTask ==
  /\ sf = "acquire"
  /\ permits > 0
  /\ permits' = permits - 1
  /\ task' = [task EXCEPT ![nextFile] = "start"]
  /\ nextFile' = nextFile + 1
  /\ sf' = "loop"
  /\ UNCHANGED <<linkVars, share, pos, confirmVars, completed, receiverVars>>

Ended == {"ok", "failed", "timedOut"}

\* Mutant of JoinTasks: the tasks are not awaited.
JoinTasksEarly ==
  /\ sf = "join"
  /\ disp' = "off"
  /\ sf' = "sendDone"
  /\ UNCHANGED <<linkVars, share, nextFile, taskVars, waiters, oneshot,
                 confirmQ, completed, receiverVars>>

\* All join handles returned: stop the dispatcher, report the first error
\* or go on to Done.
JoinTasks ==
  /\ sf = "join"
  /\ \A f \in Files : task[f] \in Ended \cup {"none"}
  /\ disp' = "off"
  /\ sf' = IF \E f \in Files : task[f] \in {"failed", "timedOut"}
             THEN "failed" ELSE "sendDone"
  /\ UNCHANGED <<linkVars, share, nextFile, taskVars, waiters, oneshot,
                 confirmQ, completed, receiverVars>>

\* Mutant of SendDone: Done is sent as soon as the last task is spawned.
SendDoneEarly ==
  /\ sf = "join"
  /\ Post(ToReceiver("Done", 0, 0))
  /\ sf' = "done"
  /\ UNCHANGED <<up, cancel, toSender, share, nextFile, taskVars, confirmVars,
                 completed, receiverVars>>

\* Done to the receiver, SendDone to the user (even when cancelled).
SendDone ==
  /\ sf = "sendDone"
  /\ \/ Post(ToReceiver("Done", 0, 0)) /\ sf' = "done"
     \/ ~up /\ sf' = "failed" /\ UNCHANGED toReceiver
  /\ UNCHANGED <<up, cancel, toSender, share, nextFile, taskVars, confirmVars,
                 completed, receiverVars>>

\* The dispatcher looks at the cancel flag before it waits for a confirm.
DispatcherStart ==
  /\ disp = "start"
  /\ disp' = IF cancel THEN "off" ELSE "recv"
  /\ UNCHANGED <<linkVars, loopVars, taskVars, waiters, oneshot, confirmQ,
                 receiverVars>>

\* One confirm to the task that waits for it; without a waiter it is lost.
Dispatch ==
  /\ disp = "recv"
  /\ confirmQ # <<>>
  /\ LET c == Head(confirmQ) IN
       /\ waiters' = waiters \ {c.file}
       /\ oneshot' = IF c.file \in waiters
                       THEN [oneshot EXCEPT ![c.file] = c] ELSE oneshot
  /\ confirmQ' = Tail(confirmQ)
  /\ disp' = IF cancel THEN "off" ELSE "recv"
  /\ UNCHANGED <<linkVars, loopVars, taskVars, receiverVars>>

-----------------------------------------------------------------------------
(* send_single_file: one task per file.                                    *)

\* The task of f ends in state s and drops its permit.
End(f, s) ==
  /\ task' = [task EXCEPT ![f] = s]
  /\ permits' = permits + 1

\* Register for the confirm, then offer the file.
RequestFile(f) ==
  /\ task[f] = "start"
  /\ waiters' = waiters \cup {f}
  /\ Post(ToReceiver("NewFileRequest", f, 0))
  /\ task' = [task EXCEPT ![f] = "wait"]
  /\ UNCHANGED <<up, cancel, toSender, loopVars, permits, pos, oneshot, disp,
                 confirmQ, receiverVars>>

Answered(f) == task[f] = "wait" /\ oneshot[f] # None

\* The confirm rejects a new file: ContinueFile, no data.
FileKept(f) ==
  /\ Answered(f)
  /\ oneshot[f].kind = "newFile" /\ ~oneshot[f].accept
  /\ oneshot' = [oneshot EXCEPT ![f] = None]
  /\ End(f, "ok")
  /\ UNCHANGED <<linkVars, loopVars, pos, waiters, disp, confirmQ,
                 receiverVars>>

\* Mutant of FileResumed: the position is taken but not announced.
FileResumedSilently(f) ==
  /\ Answered(f)
  /\ oneshot[f].kind = "breakPoint" /\ oneshot[f].accept
  /\ oneshot' = [oneshot EXCEPT ![f] = None]
  /\ pos' = [pos EXCEPT ![f] = oneshot[f].n]
  /\ task' = [task EXCEPT ![f] = "stream"]
  /\ UNCHANGED <<linkVars, loopVars, permits, waiters, disp, confirmQ,
                 receiverVars>>

\* An accepted breakpoint: BreakPoint, then the data from that position.
FileResumed(f) ==
  /\ Answered(f)
  /\ oneshot[f].kind = "breakPoint" /\ oneshot[f].accept
  /\ oneshot' = [oneshot EXCEPT ![f] = None]
  /\ pos' = [pos EXCEPT ![f] = oneshot[f].n]
  /\ task' = [task EXCEPT ![f] = "point"]
  /\ UNCHANGED <<linkVars, loopVars, permits, waiters, disp, confirmQ,
                 receiverVars>>

\* Mutant of FileAccepted: a rejected file is sent all the same.
FileAcceptedAnyway(f) ==
  /\ Answered(f)
  /\ f \notin EmptyDirs
  /\ oneshot' = [oneshot EXCEPT ![f] = None]
  /\ pos' = [pos EXCEPT ![f] = 0]
  /\ task' = [task EXCEPT ![f] = "stream"]
  /\ UNCHANGED <<linkVars, loopVars, permits, waiters, disp, confirmQ,
                 receiverVars>>

\* Any other confirm, a rejected breakpoint too: stream from the start.
FileAccepted(f) ==
  /\ Answered(f)
  /\ oneshot[f].kind = "newFile" <=> oneshot[f].accept
  /\ f \notin EmptyDirs
  /\ oneshot' = [oneshot EXCEPT ![f] = None]
  /\ pos' = [pos EXCEPT ![f] = 0]
  /\ task' = [task EXCEPT ![f] = "stream"]
  /\ UNCHANGED <<linkVars, loopVars, permits, waiters, disp, confirmQ,
                 receiverVars>>

\* An empty directory has no data.
DirAccepted(f) ==
  /\ Answered(f)
  /\ oneshot[f].kind = "newFile" <=> oneshot[f].accept
  /\ f \in EmptyDirs
  /\ oneshot' = [oneshot EXCEPT ![f] = None]
  /\ End(f, "ok")
  /\ UNCHANGED <<linkVars, loopVars, pos, waiters, disp, confirmQ,
                 receiverVars>>

\* No confirm within FILE_CONFIRM_TIMEOUT: the waiter is removed.
ConfirmTimeout(f) ==
  /\ task[f] = "wait"
  /\ oneshot[f] = None
  /\ waiters' = waiters \ {f}
  /\ End(f, "timedOut")
  /\ UNCHANGED <<linkVars, loopVars, pos, oneshot, disp, confirmQ,
                 receiverVars>>

\* The accepted breakpoint is sent ahead of the data.
SendBreakPoint(f) ==
  /\ task[f] = "point"
  /\ Post(ToReceiver("BreakPoint", f, pos[f]))
  /\ task' = [task EXCEPT ![f] = "stream"]
  /\ UNCHANGED <<up, cancel, toSender, loopVars, permits, pos, confirmVars,
                 receiverVars>>

\* stream_file_data, one turn of its loop: the cancel flag is looked at, the
\* next chunk read, and only then does the send wait for room.
ReadChunk(f) ==
  /\ task[f] = "stream"
  /\ ~cancel
  /\ task' = [task EXCEPT ![f] = "send"]
  /\ UNCHANGED <<linkVars, loopVars, permits, pos, confirmVars, receiverVars>>

StreamCancelled(f) ==
  /\ task[f] = "stream"
  /\ cancel
  /\ End(f, "ok")
  /\ UNCHANGED <<linkVars, loopVars, pos, confirmVars, receiverVars>>

SendChunk(f) ==
  /\ task[f] = "send"
  /\ pos[f] < Len(Source[f])
  /\ Post(ToReceiver("FileData", f, pos[f] + 1))
  /\ pos' = [pos EXCEPT ![f] = @ + 1]
  /\ task' = [task EXCEPT ![f] = "stream"]
  /\ UNCHANGED <<up, cancel, toSender, loopVars, permits, confirmVars,
                 receiverVars>>

SendFileDone(f) ==
  /\ task[f] = "send"
  /\ pos[f] >= Len(Source[f])
  /\ Post(ToReceiver("FileDone", f, 0))
  /\ End(f, "ok")
  /\ UNCHANGED <<up, cancel, toSender, loopVars, pos, confirmVars,
                 receiverVars>>

\* A send fails because the connection's channel is gone, or the source file
\* cannot be opened or read: the task ends with the error.
TaskFails(f) ==
  /\ \/ task[f] = "stream"
     \/ ~up /\ task[f] \in {"start", "point", "send"}
  /\ waiters' = IF task[f] = "start" THEN waiters \cup {f} ELSE waiters
  /\ End(f, "failed")
  /\ UNCHANGED <<linkVars, loopVars, pos, oneshot, disp, confirmQ,
                 receiverVars>>
-----------------------------------------------------------------------------
(* The receiver's loop: one action per message and per answer of the user. *)

Received(type) ==
  /\ rstate = "run"
  /\ toReceiver # <<>>
  /\ Head(toReceiver).type = type
  /\ toReceiver' = Tail(toReceiver)

ReceivedFile(type, f) == Received(type) /\ Head(toReceiver).file = f

RecvSendRequest ==
  /\ Received("SendRequest")
  /\ prompts' = prompts \cup {[kind |-> "share", file |-> 0, n |-> 0]}
  /\ UNCHANGED <<up, cancel, toSender, senderVars, fileVars, historyVars,
                 endVars>>

Accept(f) == FileConfirm("newFile", f, TRUE, 0)

\* NewFileRequest for an empty directory: create it and accept.
RecvDirRequest(f) ==
  /\ ReceivedFile("NewFileRequest", f)
  /\ f \in EmptyDirs
  /\ Reply(Accept(f))
  /\ choice' = [choice EXCEPT ![f] = "create"]
  /\ UNCHANGED <<up, cancel, senderVars, prompts, fileVars, old, finished,
                 endVars>>

\* The RecvFile of f is opened with its writer at position 0.
Open(f) ==
  /\ recvFiles' = recvFiles \cup {f}
  /\ recvPos' = [recvPos EXCEPT ![f] = 0]

\* NewFileRequest for a path without a file: create it and accept.
RecvNewFile(f) ==
  /\ ReceivedFile("NewFileRequest", f)
  /\ f \notin EmptyDirs
  /\ disk[f] = NoFile
  /\ disk' = [disk EXCEPT ![f] = <<>>]
  /\ Open(f)
  /\ Reply(Accept(f))
  /\ choice' = [choice EXCEPT ![f] = "create"]
  /\ UNCHANGED <<up, cancel, senderVars, prompts, old, finished, endVars>>

\* Mutant of RecvExistingFile: the file is opened with File::create.
RecvExistingFileTruncates(f) ==
  /\ ReceivedFile("NewFileRequest", f)
  /\ f \notin EmptyDirs
  /\ disk[f] # NoFile
  /\ Open(f)
  /\ disk' = [disk EXCEPT ![f] = <<>>]
  /\ prompts' = prompts \cup {[kind |-> "duplicate", file |-> f, n |-> 0]}
  /\ UNCHANGED <<up, cancel, toSender, senderVars, historyVars, endVars>>

\* NewFileRequest for an existing file: open it as it is and ask the user.
RecvExistingFile(f) ==
  /\ ReceivedFile("NewFileRequest", f)
  /\ f \notin EmptyDirs
  /\ disk[f] # NoFile
  /\ Open(f)
  /\ prompts' = prompts \cup
       {IF AtBreakPoint(disk[f], Source[f])
          THEN [kind |-> "breakPoint", file |-> f, n |-> SavedChunks(disk[f])]
          ELSE [kind |-> "duplicate", file |-> f, n |-> 0]}
  /\ UNCHANGED <<up, cancel, toSender, senderVars, disk, historyVars, endVars>>

\* Without a RecvFile the message ends the loop: "receive file failed".
Lookup(f) == rstate' = IF f \in recvFiles THEN "run" ELSE "unknownFile"

RecvBreakPoint(f) ==
  /\ ReceivedFile("BreakPoint", f)
  /\ Lookup(f)
  /\ recvPos' = IF f \in recvFiles
                  THEN [recvPos EXCEPT ![f] = Head(toReceiver).n] ELSE recvPos
  /\ UNCHANGED <<up, cancel, toSender, senderVars, prompts, recvFiles, disk,
                 historyVars, receiveDone>>

RecvFileData(f) ==
  /\ ReceivedFile("FileData", f)
  /\ Lookup(f)
  /\ IF f \in recvFiles
       THEN /\ disk' = [disk EXCEPT
                 ![f] = WriteAt(@, recvPos[f], Source[f][Head(toReceiver).n])]
            /\ recvPos' = [recvPos EXCEPT ![f] = @ + 1]
       ELSE UNCHANGED <<disk, recvPos>>
  /\ UNCHANGED <<up, cancel, toSender, senderVars, prompts, recvFiles,
                 historyVars, receiveDone>>

RecvFileDone(f) ==
  /\ ReceivedFile("FileDone", f)
  /\ Lookup(f)
  /\ recvFiles' = recvFiles \ {f}
  /\ finished' = finished \cup (recvFiles \cap {f})
  /\ UNCHANGED <<up, cancel, toSender, senderVars, prompts, recvPos, disk, old,
                 choice, receiveDone>>

\* Mutant of RecvDone: Done is not answered.
RecvDoneSilently ==
  /\ Received("Done")
  /\ receiveDone' = TRUE
  /\ UNCHANGED <<up, cancel, toSender, senderVars, prompts, fileVars,
                 historyVars, rstate>>

\* Done is answered with Done and reported as ReceiveDone.
RecvDone ==
  /\ Received("Done")
  /\ Reply([kind |-> "done", file |-> 0, accept |-> FALSE, n |-> 0])
  /\ receiveDone' = TRUE
  /\ UNCHANGED <<up, cancel, senderVars, prompts, fileVars, historyVars,
                 rstate>>

\* Opening, writing or flushing a file fails: the error ends the loop.
RecvIoError(f) ==
  /\ \E type \in {"NewFileRequest", "FileData"} : ReceivedFile(type, f)
  /\ rstate' = "ioError"
  /\ UNCHANGED <<up, cancel, toSender, senderVars, prompts, fileVars,
                 historyVars, receiveDone>>

-----------------------------------------------------------------------------
(* confirm_rx: an answer of the receiver's user reaches the loop.          *)

Asked(p) == rstate = "run" /\ p \in prompts

AnswerShare(accept) ==
  /\ Asked([kind |-> "share", file |-> 0, n |-> 0])
  /\ prompts' = prompts \ {[kind |-> "share", file |-> 0, n |-> 0]}
  /\ Reply([kind |-> "share", file |-> 0, accept |-> accept, n |-> 0])
  /\ UNCHANGED <<up, cancel, toReceiver, senderVars, fileVars, historyVars,
                 endVars>>

Duplicate(f) == [kind |-> "duplicate", file |-> f, n |-> 0]

\* Mutant of Overwrite: the question stays open and can be answered again.
OverwriteTwice(f) ==
  /\ Asked(Duplicate(f))
  /\ Reply(Accept(f))
  /\ choice' = [choice EXCEPT ![f] = "overwrite"]
  /\ UNCHANGED <<up, cancel, toReceiver, senderVars, prompts, fileVars, old,
                 finished, endVars>>

\* "overwrite?" yes: the open RecvFile stays, at position 0 of the old file.
Overwrite(f) ==
  /\ Asked(Duplicate(f))
  /\ prompts' = prompts \ {Duplicate(f)}
  /\ Reply(Accept(f))
  /\ choice' = [choice EXCEPT ![f] = "overwrite"]
  /\ UNCHANGED <<up, cancel, toReceiver, senderVars, fileVars, old, finished,
                 endVars>>

\* Mutant of Keep: the RecvFile stays open.
KeepOpen(f) ==
  /\ Asked(Duplicate(f))
  /\ prompts' = prompts \ {Duplicate(f)}
  /\ Reply(FileConfirm("newFile", f, FALSE, 0))
  /\ choice' = [choice EXCEPT ![f] = "keep"]
  /\ UNCHANGED <<up, cancel, toReceiver, senderVars, fileVars, old, finished,
                 endVars>>

\* "overwrite?" no: the RecvFile is dropped.
Keep(f) ==
  /\ Asked(Duplicate(f))
  /\ prompts' = prompts \ {Duplicate(f)}
  /\ Reply(FileConfirm("newFile", f, FALSE, 0))
  /\ recvFiles' = recvFiles \ {f}
  /\ choice' = [choice EXCEPT ![f] = "keep"]
  /\ UNCHANGED <<up, cancel, toReceiver, senderVars, recvPos, disk, old,
                 finished, endVars>>

\* "Resume transfer?" yes: continue behind the saved chunks.
ResumeAt(f, n) ==
  /\ Asked([kind |-> "breakPoint", file |-> f, n |-> n])
  /\ prompts' = prompts \ {[kind |-> "breakPoint", file |-> f, n |-> n]}
  /\ Reply(FileConfirm("breakPoint", f, TRUE, n))
  /\ choice' = [choice EXCEPT ![f] = "resume"]
  /\ UNCHANGED <<up, cancel, toReceiver, senderVars, fileVars, old, finished,
                 endVars>>

\* "Resume transfer?" no: the file is cut to nothing and received anew.
Restart(f, n) ==
  /\ Asked([kind |-> "breakPoint", file |-> f, n |-> n])
  /\ prompts' = prompts \ {[kind |-> "breakPoint", file |-> f, n |-> n]}
  /\ Reply(FileConfirm("breakPoint", f, FALSE, 0))
  /\ IF f \in recvFiles
       THEN /\ disk' = [disk EXCEPT ![f] = <<>>]
            /\ recvPos' = [recvPos EXCEPT ![f] = 0]
       ELSE UNCHANGED <<disk, recvPos>>
  /\ choice' = [choice EXCEPT ![f] = "restart"]
  /\ UNCHANGED <<up, cancel, toReceiver, senderVars, recvFiles, old, finished,
                 endVars>>
-----------------------------------------------------------------------------
(* Both sides have joined and the relay has reported Ready.                *)

Init ==
  /\ up = TRUE /\ cancel = FALSE
  /\ toReceiver = <<>> /\ toSender = <<>>
  /\ share = "ready" /\ sf = "idle" /\ nextFile = 1
  /\ permits = MaxConcurrent
  /\ task = [f \in Files |-> "none"]
  /\ pos = [f \in Files |-> 0]
  /\ waiters = {}
  /\ oneshot = [f \in Files |-> None]
  /\ disp = "off" /\ confirmQ = <<>> /\ completed = FALSE
  /\ prompts = {} /\ recvFiles = {}
  /\ recvPos = [f \in Files |-> 0]
  /\ disk \in [Files -> UNION {OldContents[f] : f \in Files}]
  /\ \A f \in Files : disk[f] \in OldContents[f]
  /\ old = disk
  /\ choice = [f \in Files |-> "none"]
  /\ finished = {} /\ rstate = "run" /\ receiveDone = FALSE

SenderLoop == \/ Ready \/ ShareAccepted \/ ShareRejected
              \/ EnqueueConfirm \/ DoneReplied

SendFiles == NextFile \/ SpawnTask \/ JoinTasks \/ SendDone

Dispatcher == DispatcherStart \/ Dispatch

SendSingleFile(f) ==
  \/ RequestFile(f) \/ FileKept(f) \/ FileResumed(f) \/ FileAccepted(f)
  \/ DirAccepted(f) \/ ConfirmTimeout(f) \/ SendBreakPoint(f) \/ ReadChunk(f)
  \/ StreamCancelled(f) \/ SendChunk(f) \/ SendFileDone(f)

ReceiverLoop ==
  \/ RecvSendRequest \/ RecvDone
  \/ \E f \in Files :
       \/ RecvDirRequest(f) \/ RecvNewFile(f) \/ RecvExistingFile(f)
       \/ RecvBreakPoint(f) \/ RecvFileData(f) \/ RecvFileDone(f)

AnswerFile(f) ==
  \/ Overwrite(f) \/ Keep(f)
  \/ \E n \in 0..Len(Source[f]) : ResumeAt(f, n) \/ Restart(f, n)

User == (\E accept \in BOOLEAN : AnswerShare(accept))
        \/ \E f \in Files : AnswerFile(f)

Failure == \/ Cancel \/ LinkDown
           \/ \E f \in Files : TaskFails(f) \/ RecvIoError(f)

\* Nothing is left to do: the transfer ended, was refused, or failed.
Terminated ==
  /\ \/ completed
     \/ rstate # "run"
     \/ sf = "failed"
     \/ (cancel \/ ~up) /\ sf \in {"idle", "done"}
  /\ UNCHANGED vars

Next ==
  \/ SenderLoop \/ SendFiles \/ Dispatcher
  \/ \E f \in Files : SendSingleFile(f)
  \/ ReceiverLoop \/ User \/ Failure \/ Terminated

(* The runtime polls every task that can go on, and a timer fires: weak    *)
(* fairness for each loop and task, and for the end of a link whose loop   *)
(* has left it.  None for other failures and the user.                     *)
Fairness ==
  /\ WF_vars(SenderLoop) /\ WF_vars(SendFiles) /\ WF_vars(Dispatcher)
  /\ WF_vars(HangUp)
  /\ \A f \in Files : WF_vars(SendSingleFile(f))
  /\ WF_vars(ReceiverLoop)

Spec == Init /\ [][Next]_vars
FairSpec == Spec /\ Fairness

-----------------------------------------------------------------------------
TaskState == {"none", "start", "wait", "point", "stream", "send"} \cup Ended

\* A task that holds a permit.
Active(f) == task[f] \in {"start", "wait", "point", "stream", "send"}

\* Every variable of the two loops, their tasks and the links has its type.
TypeOK ==
  /\ up \in BOOLEAN /\ cancel \in BOOLEAN
  /\ toReceiver \in Seq(ToReceiverMsg) /\ toSender \in Seq(ToSenderMsg)
  /\ share \in {"ready", "asked", "accepted", "rejected"}
  /\ sf \in {"idle", "loop", "acquire", "join", "sendDone", "done", "failed"}
  /\ nextFile \in 1..(NumFiles + 1)
  /\ sf = "acquire" => nextFile \in Files
  /\ permits \in Nat
  /\ task \in [Files -> TaskState]
  /\ pos \in [Files -> Nat]
  /\ waiters \subseteq Files
  /\ oneshot \in [Files -> Confirm \cup {None}]
  /\ disp \in {"off", "start", "recv"}
  /\ confirmQ \in Seq(Confirm)
  /\ completed \in BOOLEAN
  /\ prompts \subseteq Prompt
  /\ recvFiles \subseteq Files
  /\ recvPos \in [Files -> Nat]
  /\ disk \in [Files -> Seq(Chunk) \cup {NoFile}]
  /\ \A f \in recvFiles : disk[f] # NoFile
  /\ old \in [Files -> Seq(Chunk) \cup {NoFile}]
  /\ choice \in [Files -> {"none", "create", "overwrite", "keep", "resume",
                           "restart"}]
  /\ finished \subseteq Files
  /\ rstate \in {"run", "unknownFile", "ioError"}
  /\ receiveDone \in BOOLEAN
=============================================================================
