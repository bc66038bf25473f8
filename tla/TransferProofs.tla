--------------------------- MODULE TransferProofs ---------------------------
(***************************************************************************)
(* Proofs about Transfer, for any number of files, any contents and any    *)
(* capacities of the links, the confirm channel and the semaphore.         *)
(*                                                                         *)
(* The first part is its types, the turns of a file, and the consent to    *)
(* write it.  The request, the question, the confirm and the stream of a   *)
(* file never overlap, so that no message ever names a file the receiver   *)
(* does not hold open; and whatever lets the sender stream an existing     *)
(* file goes back to what the user chose.  A step changes each of the two  *)
(* links, the confirm channel and the questions in a simple way.  The      *)
(* first lemmas about turns say what that does to the predicates of        *)
(* TransferProperties; after them the predicates on the queues stay        *)
(* folded, and every action is a case of propositional logic.              *)
(*                                                                         *)
(* The second part is what arrives, and how it ends.  Every file is copied *)
(* by itself, in order, from where the receiver chose to start, or stays   *)
(* as it was: Transfer implements FileCopy, and a finished file has the    *)
(* sender's content.  Done is the last word: everything is settled when it *)
(* arrives.  And the permits of the sender bound what the receiver holds   *)
(* open, and what can stop the sender's loop.  The invariant of the copy   *)
(* says what the link carries of a file (the chunks behind the receiver's  *)
(* position, none missing and none twice), what a confirm under way means, *)
(* and what the disk holds up to that position.                            *)
(***************************************************************************)
EXTENDS TransferProperties, FiniteSetTheorems, SequenceTheorems, TLAPS

USE DEF linkVars, loopVars, taskVars, confirmVars, senderVars, fileVars,
        historyVars, endVars, receiverVars

-----------------------------------------------------------------------------
(* Sequences and contents.                                                 *)

\* Head and tail of a nonempty sequence over S are in S and over S.
LEMMA HeadTail ==
  ASSUME NEW S, NEW q \in Seq(S), q # <<>>
  PROVE  Head(q) \in S /\ Tail(q) \in Seq(S)
  OBVIOUS

\* Appending an element of S keeps a sequence over S.
LEMMA AppendType ==
  ASSUME NEW S, NEW q \in Seq(S), NEW m \in S
  PROVE  Append(q, m) \in Seq(S)
  OBVIOUS

\* What arrives of a link that broke is over the same set.
LEMMA PrefixType ==
  ASSUME NEW S, NEW q \in Seq(S), NEW n \in 0..Len(q)
  PROVE  SubSeq(q, 1, n) \in Seq(S)
  OBVIOUS

\* The stand-in for a missing file is not a content.
LEMMA NoFileIsNoContent == NoFile \notin Seq(Chunk)
  BY ContentsAssumption

\* The content of a file that was just created or cut is one.
LEMMA EmptyContent == <<>> \in Seq(Chunk) /\ <<>> # NoFile
<1>1. <<>> \in Seq(Chunk)
  OBVIOUS
<1> QED
  BY <1>1, NoFileIsNoContent

\* The number of saved chunks is a number: the scan looks at finitely many.
LEMMA SavedChunksType ==
  ASSUME NEW s \in Seq(Chunk)
  PROVE  SavedChunks(s) \in Nat
<1> DEFINE S == {i \in 1..Len(s) : \E j \in i..Len(s) : s[j] # Zero}
<1>1. IsFiniteSet(1..Len(s))
  BY FS_Interval
<1>2. IsFiniteSet(S)
  BY <1>1, FS_Subset
<1> QED
  BY <1>2, FS_CardinalityType DEF SavedChunks

\* Writing a chunk anywhere into a content gives a content.
LEMMA WriteAtType ==
  ASSUME NEW s \in Seq(Chunk), NEW p \in Nat, NEW c \in Chunk
  PROVE  WriteAt(s, p, c) \in Seq(Chunk)
  BY ZeroAssumption DEF WriteAt

-----------------------------------------------------------------------------
(* Messages.                                                               *)

\* The messages without a file are messages.
LEMMA PlainMessages ==
  /\ ToReceiver("SendRequest", 0, 0) \in ToReceiverMsg
  /\ ToReceiver("Done", 0, 0) \in ToReceiverMsg
  BY DEF ToReceiver, ToReceiverMsg

\* So are the messages about a file, FileData with the number of a chunk.
LEMMA FileMessages ==
  ASSUME NEW f \in Files, NEW n \in Nat
  PROVE  /\ ToReceiver("NewFileRequest", f, n) \in ToReceiverMsg
         /\ ToReceiver("BreakPoint", f, n) \in ToReceiverMsg
         /\ ToReceiver("FileDone", f, n) \in ToReceiverMsg
         /\ n \in 1..Len(Source[f]) =>
              ToReceiver("FileData", f, n) \in ToReceiverMsg
  BY DEF ToReceiver, ToReceiverMsg

\* The sender's link carries messages, before and after a send.
LEMMA PostType ==
  ASSUME toReceiver \in Seq(ToReceiverMsg), NEW m \in ToReceiverMsg, Post(m)
  PROVE  toReceiver' \in Seq(ToReceiverMsg)
  BY AppendType DEF Post

\* So does the receiver's.
LEMMA ReplyType ==
  ASSUME toSender \in Seq(ToSenderMsg), NEW m \in ToSenderMsg, Reply(m)
  PROVE  toSender' \in Seq(ToSenderMsg)
  BY AppendType DEF Reply

\* The kinds of reply the receiver sends.
LEMMA ReplyKinds ==
  ASSUME toSender \in Seq(ToSenderMsg)
  PROVE  /\ \A f \in Files, a \in BOOLEAN, k \in {"newFile", "breakPoint"},
               n \in Nat :
              Reply(FileConfirm(k, f, a, n)) => toSender' \in Seq(ToSenderMsg)
         /\ \A a \in BOOLEAN, k \in {"share", "done"} :
              Reply([kind |-> k, file |-> 0, accept |-> a, n |-> 0]) =>
                toSender' \in Seq(ToSenderMsg)
<1>1. \A f \in Files, a \in BOOLEAN, k \in {"newFile", "breakPoint"}, n \in Nat :
        FileConfirm(k, f, a, n) \in ToSenderMsg
  BY DEF FileConfirm, ToSenderMsg, Confirm
<1>2. \A a \in BOOLEAN, k \in {"share", "done"} :
        [kind |-> k, file |-> 0, accept |-> a, n |-> 0] \in ToSenderMsg
  BY DEF ToSenderMsg
<1> QED
  BY <1>1, <1>2, ReplyType

\* A message taken from the sender's link, and what is left of the link.
LEMMA ReceivedType ==
  ASSUME TypeOK, NEW t, Received(t)
  PROVE  /\ toReceiver' \in Seq(ToReceiverMsg)
         /\ Head(toReceiver) \in ToReceiverMsg
<1>1. toReceiver \in Seq(ToReceiverMsg)
  BY DEF TypeOK
<1> QED
  BY <1>1, HeadTail DEF Received

\* A confirm taken from the receiver's link, and what is left of the link.
LEMMA ArrivedConfirm ==
  ASSUME TypeOK, Arrived("newFile") \/ Arrived("breakPoint")
  PROVE  Head(toSender) \in Confirm /\ Tail(toSender) \in Seq(ToSenderMsg)
<1>1. toSender \in Seq(ToSenderMsg)
  BY DEF TypeOK
<1>2. Head(toSender) \in ToSenderMsg
  BY <1>1, HeadTail DEF Arrived
<1> QED
  BY <1>1, <1>2, HeadTail DEF Arrived, ToSenderMsg

\* The fields of messages that actions use.
LEMMA MessageFields ==
  /\ \A m \in ToReceiverMsg : m.n \in Nat
  /\ \A c \in Confirm : c.file \in Files /\ c.n \in Nat
  BY DEF ToReceiverMsg, Confirm
-----------------------------------------------------------------------------
(* Every action keeps the types.                                           *)

\* The sender's main loop keeps the types.
LEMMA SenderLoopType ==
  ASSUME TypeOK, SenderLoop
  PROVE  TypeOK'
<1>1. ASSUME Ready  PROVE TypeOK'
  BY <1>1, PostType, PlainMessages DEF TypeOK, Ready
<1>2. ASSUME ShareAccepted  PROVE TypeOK'
  BY <1>2, HeadTail DEF TypeOK, ShareAccepted, Arrived
<1>3. ASSUME ShareRejected  PROVE TypeOK'
  BY <1>3, HeadTail, PostType, PlainMessages DEF TypeOK, ShareRejected, Arrived
<1>4. ASSUME EnqueueConfirm  PROVE TypeOK'
  BY <1>4, ArrivedConfirm, AppendType DEF TypeOK, EnqueueConfirm
<1>5. ASSUME DoneReplied  PROVE TypeOK'
  BY <1>5, HeadTail DEF TypeOK, DoneReplied, Arrived
<1> QED
  BY <1>1, <1>2, <1>3, <1>4, <1>5 DEF SenderLoop

\* send_files and its dispatcher keep the types.
LEMMA SendFilesType ==
  ASSUME TypeOK, SendFiles \/ Dispatcher
  PROVE  TypeOK'
<1>1. ASSUME NextFile  PROVE TypeOK'
  BY <1>1, SizesAssumption DEF TypeOK, NextFile, Files
<1>2. ASSUME SpawnTask  PROVE TypeOK'
  BY <1>2, SizesAssumption DEF TypeOK, SpawnTask, Files, TaskState, Ended
<1>3. ASSUME JoinTasks  PROVE TypeOK'
  BY <1>3 DEF TypeOK, JoinTasks
<1>4. ASSUME SendDone  PROVE TypeOK'
  BY <1>4, PostType, PlainMessages DEF TypeOK, SendDone
<1>5. ASSUME DispatcherStart  PROVE TypeOK'
  BY <1>5 DEF TypeOK, DispatcherStart
<1>6. ASSUME Dispatch  PROVE TypeOK'
  BY <1>6, HeadTail, MessageFields DEF TypeOK, Dispatch
<1> QED
  BY <1>1, <1>2, <1>3, <1>4, <1>5, <1>6 DEF SendFiles, Dispatcher

\* Every task keeps the types, also when it fails.
LEMMA SendSingleFileType ==
  ASSUME TypeOK, NEW f \in Files, SendSingleFile(f) \/ TaskFails(f)
  PROVE  TypeOK'
<1>1. ASSUME RequestFile(f)  PROVE TypeOK'
  BY <1>1, PostType, FileMessages DEF TypeOK, RequestFile, TaskState, Ended
<1>2. ASSUME FileKept(f)  PROVE TypeOK'
  BY <1>2 DEF TypeOK, FileKept, TaskState, Ended, End
<1>3. ASSUME FileResumed(f)  PROVE TypeOK'
  BY <1>3, MessageFields DEF TypeOK, FileResumed, TaskState, Ended, Answered
<1>4. ASSUME FileAccepted(f)  PROVE TypeOK'
  BY <1>4 DEF TypeOK, FileAccepted, TaskState, Ended
<1>5. ASSUME DirAccepted(f)  PROVE TypeOK'
  BY <1>5 DEF TypeOK, DirAccepted, TaskState, Ended, End
<1>6. ASSUME ConfirmTimeout(f)  PROVE TypeOK'
  BY <1>6 DEF TypeOK, ConfirmTimeout, TaskState, Ended, End
<1>7. ASSUME SendBreakPoint(f)  PROVE TypeOK'
  BY <1>7, PostType, FileMessages DEF TypeOK, SendBreakPoint, TaskState, Ended
<1>8. ASSUME ReadChunk(f)  PROVE TypeOK'
  BY <1>8 DEF TypeOK, ReadChunk, TaskState, Ended
<1>9. ASSUME StreamCancelled(f)  PROVE TypeOK'
  BY <1>9 DEF TypeOK, StreamCancelled, TaskState, Ended, End
<1>10. ASSUME SendChunk(f)  PROVE TypeOK'
  BY <1>10, PostType, FileMessages, ContentsAssumption DEF TypeOK, SendChunk, TaskState, Ended
<1>11. ASSUME SendFileDone(f)  PROVE TypeOK'
  BY <1>11, PostType, FileMessages DEF TypeOK, SendFileDone, TaskState, Ended, End
<1>12. ASSUME TaskFails(f)  PROVE TypeOK'
  BY <1>12 DEF TypeOK, TaskFails, TaskState, Ended, End
<1> QED
  BY <1>1, <1>2, <1>3, <1>4, <1>5, <1>6, <1>7, <1>8, <1>9, <1>10, <1>11, <1>12 DEF SendSingleFile

\* The receiver's handlers of messages about a file keep the types.
LEMMA ReceiverFileType ==
  ASSUME TypeOK, NEW f \in Files,
         \/ RecvDirRequest(f) \/ RecvNewFile(f) \/ RecvExistingFile(f)
         \/ RecvBreakPoint(f) \/ RecvFileData(f) \/ RecvFileDone(f)
         \/ RecvIoError(f)
  PROVE  TypeOK'
<1>1. ASSUME RecvDirRequest(f)  PROVE TypeOK'
  <2>1. toSender \in Seq(ToSenderMsg)
    BY <1>1 DEF TypeOK
  <2>2. Reply(FileConfirm("newFile", f, TRUE, 0))
    BY <1>1 DEF RecvDirRequest, Accept
  <2>3. toSender' \in Seq(ToSenderMsg)
    BY <1>1, <2>1, <2>2, ReplyKinds
  <2> QED
    BY <1>1, <2>1, <2>2, <2>3, ReceivedType DEF TypeOK, RecvDirRequest, ReceivedFile
<1>2. ASSUME RecvNewFile(f)  PROVE TypeOK'
  <2>1. toSender \in Seq(ToSenderMsg)
    BY <1>2 DEF TypeOK
  <2>2. Reply(FileConfirm("newFile", f, TRUE, 0))
    BY <1>2 DEF RecvNewFile, Accept
  <2>3. toSender' \in Seq(ToSenderMsg)
    BY <1>2, <2>1, <2>2, ReplyKinds
  <2> QED
    BY <1>2, <2>1, <2>2, <2>3, ReceivedType, EmptyContent DEF TypeOK, RecvNewFile, ReceivedFile, Open
<1>3. ASSUME RecvExistingFile(f)  PROVE TypeOK'
  BY <1>3, ReceivedType, SavedChunksType DEF TypeOK, RecvExistingFile, ReceivedFile, Open, Prompt
<1>4. ASSUME RecvBreakPoint(f)  PROVE TypeOK'
  <2>1. Head(toReceiver) \in ToReceiverMsg /\ toReceiver' \in Seq(ToReceiverMsg)
    BY <1>4, ReceivedType DEF RecvBreakPoint, ReceivedFile
  <2>2. Head(toReceiver).n \in Nat
    BY <1>4, <2>1, MessageFields
  <2>3. recvPos' \in {recvPos, [recvPos EXCEPT ![f] = Head(toReceiver).n]}
    BY <1>4 DEF RecvBreakPoint
  <2>4. recvPos' \in [Files -> Nat]
    BY <2>2, <2>3 DEF TypeOK
  <2>5. rstate' \in {"run", "unknownFile"}
    BY <1>4 DEF RecvBreakPoint, Lookup
  <2> QED
    BY <1>4, <2>1, <2>4, <2>5 DEF TypeOK, RecvBreakPoint
<1>5. ASSUME RecvFileData(f)  PROVE TypeOK'
  <2> DEFINE c == Source[f][Head(toReceiver).n]
  <2>1. Head(toReceiver) \in ToReceiverMsg /\ toReceiver' \in Seq(ToReceiverMsg)
    BY <1>5, ReceivedType DEF RecvFileData, ReceivedFile
  <2>2. Head(toReceiver).n \in 1..Len(Source[f])
    BY <1>5, <2>1 DEF ToReceiverMsg, RecvFileData, ReceivedFile, Received
  <2>3. Source[f] \in Seq(Chunk)
    BY <1>5, ContentsAssumption
  <2>4. c \in Chunk
    BY <1>5, <2>2, <2>3
  <2>5. ASSUME f \in recvFiles  PROVE WriteAt(disk[f], recvPos[f], c) \in Seq(Chunk)
    <3>1. disk[f] \in Seq(Chunk) /\ recvPos[f] \in Nat
      BY <2>5 DEF TypeOK
    <3> QED
      BY <3>1, <2>4, WriteAtType
  <2>6. \/ UNCHANGED disk
        \/ /\ f \in recvFiles
           /\ disk' = [disk EXCEPT ![f] = WriteAt(disk[f], recvPos[f], c)]
    BY <1>5 DEF RecvFileData
  <2>7. disk' \in [Files -> Seq(Chunk) \cup {NoFile}]
    BY <2>5, <2>6 DEF TypeOK
  <2>8. \A g \in recvFiles : disk'[g] # NoFile
    BY <2>5, <2>6, NoFileIsNoContent DEF TypeOK
  <2>9. recvPos' \in {recvPos, [recvPos EXCEPT ![f] = recvPos[f] + 1]}
    BY <1>5 DEF RecvFileData
  <2>10. recvPos' \in [Files -> Nat]
    BY <2>9 DEF TypeOK
  <2>11. rstate' \in {"run", "unknownFile"}
    BY <1>5 DEF RecvFileData, Lookup
  <2>12. UNCHANGED <<up, cancel, toSender, senderVars, prompts, recvFiles,
                   historyVars, receiveDone>>
    BY <1>5 DEF RecvFileData
  <2> QED
    BY <2>1, <2>7, <2>8, <2>10, <2>11, <2>12 DEF TypeOK
<1>6. ASSUME RecvFileDone(f)  PROVE TypeOK'
  <2>1. rstate' \in {"run", "unknownFile"}
    BY <1>6 DEF RecvFileDone, Lookup
  <2> QED
    BY <1>6, <2>1, ReceivedType DEF TypeOK, RecvFileDone, ReceivedFile
<1>7. ASSUME RecvIoError(f)  PROVE TypeOK'
  BY <1>7, ReceivedType DEF TypeOK, RecvIoError, ReceivedFile
<1> QED
  BY <1>1, <1>2, <1>3, <1>4, <1>5, <1>6, <1>7

\* The answers of the receiver's user keep the types.
LEMMA UserType ==
  ASSUME TypeOK, User
  PROVE  TypeOK'
<1>1. ASSUME NEW a \in BOOLEAN, AnswerShare(a)  PROVE TypeOK'
  <2>1. toSender \in Seq(ToSenderMsg)
    BY <1>1 DEF TypeOK
  <2>2. Reply([kind |-> "share", file |-> 0, accept |-> a, n |-> 0])
    BY <1>1 DEF AnswerShare
  <2>3. toSender' \in Seq(ToSenderMsg)
    BY <1>1, <2>1, <2>2, ReplyKinds
  <2> QED
    BY <1>1, <2>1, <2>2, <2>3 DEF TypeOK, AnswerShare
<1>2. ASSUME NEW f \in Files, Overwrite(f)  PROVE TypeOK'
  <2>1. toSender \in Seq(ToSenderMsg)
    BY <1>2 DEF TypeOK
  <2>2. Reply(FileConfirm("newFile", f, TRUE, 0))
    BY <1>2 DEF Overwrite, Accept
  <2>3. toSender' \in Seq(ToSenderMsg)
    BY <1>2, <2>1, <2>2, ReplyKinds
  <2> QED
    BY <1>2, <2>1, <2>2, <2>3 DEF TypeOK, Overwrite
<1>3. ASSUME NEW f \in Files, Keep(f)  PROVE TypeOK'
  <2>1. toSender \in Seq(ToSenderMsg)
    BY <1>3 DEF TypeOK
  <2>2. Reply(FileConfirm("newFile", f, FALSE, 0))
    BY <1>3 DEF Keep
  <2>3. toSender' \in Seq(ToSenderMsg)
    BY <1>3, <2>1, <2>2, ReplyKinds
  <2> QED
    BY <1>3, <2>1, <2>2, <2>3 DEF TypeOK, Keep
<1>4. ASSUME NEW f \in Files, NEW n \in Nat, ResumeAt(f, n)  PROVE TypeOK'
  <2>1. toSender \in Seq(ToSenderMsg)
    BY <1>4 DEF TypeOK
  <2>2. Reply(FileConfirm("breakPoint", f, TRUE, n))
    BY <1>4 DEF ResumeAt
  <2>3. toSender' \in Seq(ToSenderMsg)
    BY <1>4, <2>1, <2>2, ReplyKinds
  <2> QED
    BY <1>4, <2>1, <2>2, <2>3 DEF TypeOK, ResumeAt
<1>5. ASSUME NEW f \in Files, NEW n \in Nat, Restart(f, n)  PROVE TypeOK'
  <2>1. toSender \in Seq(ToSenderMsg)
    BY <1>5 DEF TypeOK
  <2>2. Reply(FileConfirm("breakPoint", f, FALSE, 0))
    BY <1>5 DEF Restart
  <2>3. toSender' \in Seq(ToSenderMsg)
    BY <1>5, <2>1, <2>2, ReplyKinds
  <2>4. disk' \in [Files -> Seq(Chunk) \cup {NoFile}]
    BY <1>5, EmptyContent DEF TypeOK, Restart
  <2>5. recvPos' \in [Files -> Nat]
    <3>1. recvPos' \in {recvPos, [recvPos EXCEPT ![f] = 0]}
      BY <1>5 DEF Restart
    <3> QED
      BY <3>1 DEF TypeOK
  <2>6. \A g \in recvFiles : disk'[g] # NoFile
    BY <1>5, EmptyContent DEF TypeOK, Restart
  <2>7. UNCHANGED <<up, cancel, toReceiver, senderVars, recvFiles, old, finished,
                   endVars>>
    BY <1>5 DEF Restart
  <2>8. prompts' \subseteq Prompt
    BY <1>5 DEF TypeOK, Restart
  <2>9. choice' \in [Files -> {"none", "create", "overwrite", "keep",
                                "resume", "restart"}]
    BY <1>5 DEF TypeOK, Restart
  <2> QED
    BY <2>3, <2>4, <2>5, <2>6, <2>7, <2>8, <2>9 DEF TypeOK
<1> QED
  BY <1>1, <1>2, <1>3, <1>4, <1>5 DEF User, AnswerFile

\* The initial state has the types: the disk holds one of the old contents.
LEMMA InitType == Init => TypeOK
<1> SUFFICES ASSUME Init  PROVE TypeOK
  OBVIOUS
<1>1. disk \in [Files -> Seq(Chunk) \cup {NoFile}]
  BY ContentsAssumption DEF Init
<1>2. old = disk
  BY DEF Init
<1>3. nextFile \in 1..(NumFiles + 1) /\ permits \in Nat
  BY SizesAssumption DEF Init
<1>4. toReceiver \in Seq(ToReceiverMsg) /\ toSender \in Seq(ToSenderMsg)
      /\ confirmQ \in Seq(Confirm)
  BY DEF Init
<1> QED
  BY <1>1, <1>2, <1>3, <1>4 DEF Init, TypeOK, TaskState

\* Every step keeps the types.
LEMMA NextType == TypeOK /\ [Next]_vars => TypeOK'
<1> SUFFICES ASSUME TypeOK, [Next]_vars  PROVE TypeOK'
  OBVIOUS
<1>1. CASE UNCHANGED vars
  BY <1>1 DEF TypeOK, vars
<1>2. CASE SenderLoop
  BY <1>2, SenderLoopType
<1>3. CASE SendFiles \/ Dispatcher
  BY <1>3, SendFilesType
<1>4. ASSUME NEW f \in Files, SendSingleFile(f) \/ TaskFails(f)  PROVE TypeOK'
  BY <1>4, SendSingleFileType
<1>5. CASE RecvSendRequest
  BY <1>5, ReceivedType DEF TypeOK, RecvSendRequest, Prompt
<1>6. CASE RecvDone
  <2>1. toSender \in Seq(ToSenderMsg)
    BY DEF TypeOK
  <2>2. toSender' \in Seq(ToSenderMsg)
    BY <1>6, <2>1, ReplyKinds DEF RecvDone
  <2> QED
    BY <1>6, <2>2, ReceivedType DEF TypeOK, RecvDone
<1>7. ASSUME NEW f \in Files,
             \/ RecvDirRequest(f) \/ RecvNewFile(f) \/ RecvExistingFile(f)
             \/ RecvBreakPoint(f) \/ RecvFileData(f) \/ RecvFileDone(f)
             \/ RecvIoError(f)
      PROVE  TypeOK'
  BY <1>7, ReceiverFileType
<1>8. CASE User
  BY <1>8, UserType
<1>9. CASE Cancel
  BY <1>9 DEF TypeOK, Cancel
<1>10. CASE LinkDown
  <2>1. toReceiver' \in Seq(ToReceiverMsg) /\ toSender' \in Seq(ToSenderMsg)
    BY <1>10, PrefixType DEF TypeOK, LinkDown
  <2>2. up' \in BOOLEAN /\ UNCHANGED <<cancel, senderVars, receiverVars>>
    BY <1>10 DEF LinkDown
  <2> QED
    BY <2>1, <2>2 DEF TypeOK
<1>11. CASE Terminated
  BY <1>11 DEF TypeOK, Terminated, vars
<1> QED
  BY <1>1, <1>2, <1>3, <1>4, <1>5, <1>6, <1>7, <1>8, <1>9, <1>10, <1>11
     DEF Next, ReceiverLoop, Failure

\* TypeOK holds in every reachable state: in particular permits is never
\* taken below zero, no chunk beyond the end of a file is offered, and an open
\* RecvFile always has a file behind it.
THEOREM Typing == Spec => []TypeOK
  BY InitType, NextType, PTL DEF Spec

-----------------------------------------------------------------------------
(* What a change of a queue does to the turns of g.                        *)

\* Nothing about g is added to the link to the receiver.
LinkQuiet(g) ==
  /\ Requested(g)' => Requested(g)
  /\ OneRequest(g) => OneRequest(g)'
  /\ Streamed(g)' => Streamed(g)
  /\ DoneSent(g)' => DoneSent(g)
  /\ DoneLast(g) => DoneLast(g)'

\* No confirm for g is added to the link to the sender.
ReplyQuiet(g) ==
  /\ Replied(g)' => Replied(g)
  /\ OneReply(g) => OneReply(g)'
  /\ GrantReplied(g)' => GrantReplied(g)

\* No confirm for g is added to the confirm channel.
QueueQuiet(g) ==
  /\ Queued(g)' => Queued(g)
  /\ OneQueued(g) => OneQueued(g)'
  /\ GrantQueued(g)' => GrantQueued(g)

\* No question about g is added.
PromptQuiet(g) ==
  /\ Questioned(g)' => Questioned(g)
  /\ OneQuestion(g) => OneQuestion(g)'

\* A link, channel or set of questions that does not change is quiet.
LEMMA SameQuiet ==
  ASSUME NEW g
  PROVE  /\ UNCHANGED toReceiver => LinkQuiet(g)
         /\ UNCHANGED toSender => ReplyQuiet(g)
         /\ UNCHANGED confirmQ => QueueQuiet(g)
         /\ UNCHANGED prompts => PromptQuiet(g)
<1>1. ASSUME UNCHANGED toReceiver  PROVE LinkQuiet(g)
  BY <1>1 DEF LinkQuiet, Requested, OneRequest, Streamed, DoneSent, DoneLast
<1>2. ASSUME UNCHANGED toSender  PROVE ReplyQuiet(g)
  BY <1>2 DEF ReplyQuiet, Replied, OneReply, GrantReplied
<1>3. ASSUME UNCHANGED confirmQ  PROVE QueueQuiet(g)
  BY <1>3 DEF QueueQuiet, Queued, OneQueued, GrantQueued
<1>4. ASSUME UNCHANGED prompts  PROVE PromptQuiet(g)
  BY <1>4 DEF PromptQuiet, Questioned, OneQuestion
<1> QED
  BY <1>1, <1>2, <1>3, <1>4

\* A quiet step that leaves g's task and confirm alone and does not close its
\* RecvFile keeps the turns of g.
LEMMA QuietTurn ==
  ASSUME NEW g, FileTurn(g),
         LinkQuiet(g), ReplyQuiet(g), QueueQuiet(g), PromptQuiet(g),
         task'[g] = task[g], oneshot'[g] = oneshot[g],
         g \in recvFiles => g \in recvFiles'
  PROVE  FileTurn(g)'
  BY DEF FileTurn, UnaskedTurn, RequestTurn, QuestionTurn, ConfirmTurn,
         GrantTurn, StreamTurn, LinkQuiet, ReplyQuiet, QueueQuiet,
         PromptQuiet, Unanswered, Confirmed, Streaming

\* The elements of a sequence after Append.
LEMMA AppendElements ==
  ASSUME NEW S, NEW q \in Seq(S), NEW m
  PROVE  /\ Len(Append(q, m)) = Len(q) + 1
         /\ \A i \in 1..Len(q) : Append(q, m)[i] = q[i]
         /\ Append(q, m)[Len(q) + 1] = m
  OBVIOUS

\* Likewise for the tail of a nonempty sequence.
LEMMA TailElements ==
  ASSUME NEW S, NEW q \in Seq(S), q # <<>>
  PROVE  /\ Len(q) \in Nat \ {0}
         /\ Len(Tail(q)) = Len(q) - 1
         /\ \A i \in 1..Len(q) - 1 : Tail(q)[i] = q[i + 1]
         /\ Head(q) = q[1]
  OBVIOUS

\* A message that is neither g's request nor about g's content is quiet.
LEMMA PostQuiet ==
  ASSUME TypeOK, NEW m, Post(m), NEW g, ~IsRequest(m, g), ~IsBody(m, g)
  PROVE  LinkQuiet(g)
<1>1. CASE UNCHANGED toReceiver
  BY <1>1, SameQuiet
<1>2. CASE toReceiver' = Append(toReceiver, m)
  <2>1. toReceiver \in Seq(ToReceiverMsg)
    BY DEF TypeOK
  <2>2. /\ Len(toReceiver') = Len(toReceiver) + 1
        /\ \A i \in 1..Len(toReceiver) : toReceiver'[i] = toReceiver[i]
        /\ toReceiver'[Len(toReceiver) + 1] = m
        /\ Len(toReceiver) \in Nat
    BY <1>2, <2>1, AppendElements
  <2>3. ~IsDone(m, g)
    BY DEF IsDone, IsBody, Body
  <2> QED
    BY <2>2, <2>3 DEF LinkQuiet, Requested, OneRequest, Streamed, DoneSent, DoneLast
<1> QED
  BY <1>1, <1>2 DEF Post

\* g's request is the only one if there was none.
LEMMA PostRequest ==
  ASSUME TypeOK, NEW m, Post(m), NEW g, IsRequest(m, g), ~Requested(g)
  PROVE  /\ OneRequest(g)'
         /\ Streamed(g)' => Streamed(g)
         /\ DoneSent(g)' => DoneSent(g)
         /\ DoneLast(g) => DoneLast(g)'
<1>1. CASE UNCHANGED toReceiver
  BY <1>1 DEF OneRequest, Requested, Streamed, DoneSent, DoneLast
<1>2. CASE toReceiver' = Append(toReceiver, m)
  <2>1. toReceiver \in Seq(ToReceiverMsg)
    BY DEF TypeOK
  <2>2. /\ Len(toReceiver') = Len(toReceiver) + 1
        /\ \A i \in 1..Len(toReceiver) : toReceiver'[i] = toReceiver[i]
        /\ toReceiver'[Len(toReceiver) + 1] = m
        /\ Len(toReceiver) \in Nat
    BY <1>2, <2>1, AppendElements
  <2>3. ~IsDone(m, g) /\ ~IsBody(m, g)
    BY DEF IsRequest, IsDone, IsBody, Body
  <2> QED
    BY <2>2, <2>3 DEF Requested, OneRequest, Streamed, DoneSent, DoneLast
<1> QED
  BY <1>1, <1>2 DEF Post

\* A message about g's content adds no request and comes last if FileDone was
\* not sent.
LEMMA PostBody ==
  ASSUME TypeOK, NEW m, Post(m), NEW g, IsBody(m, g), ~DoneSent(g)
  PROVE  /\ Requested(g)' => Requested(g)
         /\ OneRequest(g) => OneRequest(g)'
         /\ DoneSent(g)' => IsDone(m, g)
         /\ DoneLast(g)'
<1>1. CASE UNCHANGED toReceiver
  BY <1>1 DEF OneRequest, Requested, DoneSent, DoneLast
<1>2. CASE toReceiver' = Append(toReceiver, m)
  <2>1. toReceiver \in Seq(ToReceiverMsg)
    BY DEF TypeOK
  <2>2. /\ Len(toReceiver') = Len(toReceiver) + 1
        /\ \A i \in 1..Len(toReceiver) : toReceiver'[i] = toReceiver[i]
        /\ toReceiver'[Len(toReceiver) + 1] = m
        /\ Len(toReceiver) \in Nat
    BY <1>2, <2>1, AppendElements
  <2>3. ~IsRequest(m, g)
    BY DEF IsRequest, IsBody, Body
  <2> QED
    BY <2>2, <2>3 DEF Requested, OneRequest, DoneSent, DoneLast
<1> QED
  BY <1>1, <1>2 DEF Post

\* Taking a message from the link: what it was is under way no longer.
LEMMA TakeQuiet ==
  ASSUME TypeOK, NEW t, Received(t), NEW g
  PROVE  /\ LinkQuiet(g)
         /\ IsRequest(Head(toReceiver), g) =>
              Requested(g) /\ (OneRequest(g) => ~Requested(g)')
         /\ IsBody(Head(toReceiver), g) => Streamed(g)
         /\ IsDone(Head(toReceiver), g) =>
              DoneSent(g) /\ (DoneLast(g) => ~Streamed(g)')
<1>1. toReceiver \in Seq(ToReceiverMsg)
  BY DEF TypeOK
<1>2. /\ Len(toReceiver) \in Nat \ {0}
      /\ Len(toReceiver') = Len(toReceiver) - 1
      /\ \A i \in 1..Len(toReceiver) - 1 : toReceiver'[i] = toReceiver[i + 1]
      /\ Head(toReceiver) = toReceiver[1]
  BY <1>1, TailElements DEF Received
<1>3. LinkQuiet(g)
  <2>1. Requested(g)' => Requested(g)
    BY <1>2 DEF Requested
  <2>2. OneRequest(g) => OneRequest(g)'
    BY <1>2 DEF OneRequest
  <2>3. Streamed(g)' => Streamed(g)
    BY <1>2 DEF Streamed
  <2>4. DoneSent(g)' => DoneSent(g)
    BY <1>2 DEF DoneSent
  <2>5. DoneLast(g) => DoneLast(g)'
    BY <1>2 DEF DoneLast
  <2> QED
    BY <2>1, <2>2, <2>3, <2>4, <2>5 DEF LinkQuiet
<1>4. IsRequest(Head(toReceiver), g) =>
        Requested(g) /\ (OneRequest(g) => ~Requested(g)')
  BY <1>2 DEF Requested, OneRequest
<1>5. IsBody(Head(toReceiver), g) => Streamed(g)
  BY <1>2 DEF Streamed
<1>6. IsDone(Head(toReceiver), g) =>
        DoneSent(g) /\ (DoneLast(g) => ~Streamed(g)')
  BY <1>2 DEF DoneSent, DoneLast, Streamed
<1> QED
  BY <1>3, <1>4, <1>5, <1>6

\* A reply that is not a confirm for g is quiet.
LEMMA ReplyOther ==
  ASSUME TypeOK, NEW m, Reply(m), NEW g, ~IsConfirm(m, g)
  PROVE  ReplyQuiet(g)
<1>1. CASE UNCHANGED toSender
  BY <1>1, SameQuiet
<1>2. CASE toSender' = Append(toSender, m)
  <2>1. toSender \in Seq(ToSenderMsg)
    BY DEF TypeOK
  <2>2. /\ Len(toSender') = Len(toSender) + 1
        /\ \A i \in 1..Len(toSender) : toSender'[i] = toSender[i]
        /\ toSender'[Len(toSender) + 1] = m
        /\ Len(toSender) \in Nat
    BY <1>2, <2>1, AppendElements
  <2>3. ~Grant(m, g)
    BY DEF Grant
  <2> QED
    BY <2>2, <2>3 DEF ReplyQuiet, Replied, OneReply, GrantReplied
<1> QED
  BY <1>1, <1>2 DEF Reply

\* A confirm for g is the only one if there was none.
LEMMA ReplyConfirm ==
  ASSUME TypeOK, NEW m, Reply(m), NEW g, ~Replied(g)
  PROVE  /\ OneReply(g)'
         /\ GrantReplied(g)' => Grant(m, g)
<1>1. CASE UNCHANGED toSender
  BY <1>1 DEF OneReply, Replied, GrantReplied, Grant
<1>2. CASE toSender' = Append(toSender, m)
  <2>1. toSender \in Seq(ToSenderMsg)
    BY DEF TypeOK
  <2>2. /\ Len(toSender') = Len(toSender) + 1
        /\ \A i \in 1..Len(toSender) : toSender'[i] = toSender[i]
        /\ toSender'[Len(toSender) + 1] = m
        /\ Len(toSender) \in Nat
    BY <1>2, <2>1, AppendElements
  <2> QED
    BY <2>2 DEF Replied, OneReply, GrantReplied, Grant
<1> QED
  BY <1>1, <1>2 DEF Reply

\* Taking a reply from the link.
LEMMA TakeReply ==
  ASSUME TypeOK, toSender # <<>>, toSender' = Tail(toSender), NEW g
  PROVE  /\ ReplyQuiet(g)
         /\ IsConfirm(Head(toSender), g) =>
              Replied(g) /\ (OneReply(g) => ~Replied(g)')
         /\ Grant(Head(toSender), g) => GrantReplied(g)
<1>1. toSender \in Seq(ToSenderMsg)
  BY DEF TypeOK
<1>2. /\ Len(toSender) \in Nat \ {0}
      /\ Len(toSender') = Len(toSender) - 1
      /\ \A i \in 1..Len(toSender) - 1 : toSender'[i] = toSender[i + 1]
      /\ Head(toSender) = toSender[1]
  BY <1>1, TailElements
<1>3. ReplyQuiet(g)
  BY <1>2 DEF ReplyQuiet, Replied, OneReply, GrantReplied
<1>4. IsConfirm(Head(toSender), g) =>
        Replied(g) /\ (OneReply(g) => ~Replied(g)')
  BY <1>2 DEF Replied, OneReply
<1>5. Grant(Head(toSender), g) => GrantReplied(g)
  BY <1>2 DEF GrantReplied
<1> QED
  BY <1>3, <1>4, <1>5

\* Adding a confirm to the confirm channel.
LEMMA Enqueue ==
  ASSUME TypeOK, NEW c, confirmQ' = Append(confirmQ, c), NEW g
  PROVE  /\ ~IsConfirm(c, g) => QueueQuiet(g)
         /\ ~Queued(g) => /\ OneQueued(g)'
                          /\ GrantQueued(g)' => Grant(c, g)
<1>1. confirmQ \in Seq(Confirm)
  BY DEF TypeOK
<1>2. /\ Len(confirmQ') = Len(confirmQ) + 1
      /\ \A i \in 1..Len(confirmQ) : confirmQ'[i] = confirmQ[i]
      /\ confirmQ'[Len(confirmQ) + 1] = c
      /\ Len(confirmQ) \in Nat
  BY <1>1, AppendElements
<1>3. ASSUME ~IsConfirm(c, g)  PROVE QueueQuiet(g)
  BY <1>2, <1>3 DEF QueueQuiet, Queued, OneQueued, GrantQueued, Grant
<1>4. ASSUME ~Queued(g)
      PROVE  OneQueued(g)' /\ (GrantQueued(g)' => Grant(c, g))
  BY <1>2, <1>4 DEF Queued, OneQueued, GrantQueued, Grant
<1> QED
  BY <1>3, <1>4

\* Taking a confirm from the confirm channel.
LEMMA Dequeue ==
  ASSUME TypeOK, confirmQ # <<>>, confirmQ' = Tail(confirmQ), NEW g
  PROVE  /\ QueueQuiet(g)
         /\ IsConfirm(Head(confirmQ), g) =>
              Queued(g) /\ (OneQueued(g) => ~Queued(g)')
         /\ Grant(Head(confirmQ), g) => GrantQueued(g)
<1>1. confirmQ \in Seq(Confirm)
  BY DEF TypeOK
<1>2. /\ Len(confirmQ) \in Nat \ {0}
      /\ Len(confirmQ') = Len(confirmQ) - 1
      /\ \A i \in 1..Len(confirmQ) - 1 : confirmQ'[i] = confirmQ[i + 1]
      /\ Head(confirmQ) = confirmQ[1]
  BY <1>1, TailElements
<1>3. QueueQuiet(g)
  BY <1>2 DEF QueueQuiet, Queued, OneQueued, GrantQueued
<1>4. IsConfirm(Head(confirmQ), g) =>
        Queued(g) /\ (OneQueued(g) => ~Queued(g)')
  BY <1>2 DEF Queued, OneQueued
<1>5. Grant(Head(confirmQ), g) => GrantQueued(g)
  BY <1>2 DEF GrantQueued
<1> QED
  BY <1>3, <1>4, <1>5

\* A connection that breaks only takes messages away.
LEMMA PrefixQuiet ==
  ASSUME TypeOK, LinkDown, NEW g
  PROVE  LinkQuiet(g) /\ ReplyQuiet(g)
<1>1. toReceiver \in Seq(ToReceiverMsg) /\ toSender \in Seq(ToSenderMsg)
  BY DEF TypeOK
<1>2. LinkQuiet(g)
  <2>1. PICK n \in 0..Len(toReceiver) : toReceiver' = SubSeq(toReceiver, 1, n)
    BY DEF LinkDown
  <2>2. /\ Len(toReceiver') = n
        /\ \A i \in 1..n : toReceiver'[i] = toReceiver[i]
        /\ n \in Nat /\ n <= Len(toReceiver) /\ Len(toReceiver) \in Nat
    BY <1>1, <2>1
  <2> QED
    BY <2>2 DEF LinkQuiet, Requested, OneRequest, Streamed, DoneSent, DoneLast
<1>3. ReplyQuiet(g)
  <2>1. PICK n \in 0..Len(toSender) : toSender' = SubSeq(toSender, 1, n)
    BY DEF LinkDown
  <2>2. /\ Len(toSender') = n
        /\ \A i \in 1..n : toSender'[i] = toSender[i]
        /\ n \in Nat /\ n <= Len(toSender) /\ Len(toSender) \in Nat
    BY <1>1, <2>1
  <2> QED
    BY <2>2 DEF ReplyQuiet, Replied, OneReply, GrantReplied
<1> QED
  BY <1>2, <1>3

\* What lets the sender stream is a confirm; no confirm lets nothing through.
LEMMA GrantConfirms ==
  ASSUME NEW g
  PROVE  /\ GrantReplied(g) => Replied(g)
         /\ GrantQueued(g) => Queued(g)
         /\ ~IsConfirm(None, g) /\ ~Grant(None, g)
  BY DEF GrantReplied, Replied, GrantQueued, Queued, Grant, IsConfirm, None

-----------------------------------------------------------------------------
(* The inductive invariant, and what the sender's tasks do to it.          *)

\* No task runs ahead of the loop of send_files.
Unspawned == \A f \in Files : f >= nextFile => task[f] = "none"

TurnInv == TypeOK /\ Unspawned /\ NoUnknownFile /\ OneTurn

\* The turns of all files, and the types of what tasks change.
LEMMA TurnInvFacts ==
  ASSUME TurnInv
  PROVE  /\ TypeOK
         /\ \A g \in Files : FileTurn(g)
         /\ task \in [Files -> TaskState]
         /\ oneshot \in [Files -> Confirm \cup {None}]
         /\ rstate # "unknownFile"
  BY DEF TurnInv, TypeOK, OneTurn, NoUnknownFile

\* A task that only changes its state, along the edges of send_single_file that
\* neither send nor take a message, keeps the turns.
LEMMA MoveTurn ==
  ASSUME TurnInv, NEW f \in Files, NEW s,
         UNCHANGED <<toReceiver, toSender, confirmQ, prompts, recvFiles, oneshot>>,
         task' = [task EXCEPT ![f] = s],
         \/ task[f] = "none" /\ s = "start"
         \/ task[f] = "wait" /\ s = "timedOut"
         \/ task[f] = "start" /\ s = "failed"
         \/ Streaming(f) /\ s \in {"send", "ok", "failed"},
         NEW g \in Files
  PROVE  FileTurn(g)'
<1>1. FileTurn(g) /\ LinkQuiet(g) /\ ReplyQuiet(g) /\ QueueQuiet(g) /\ PromptQuiet(g)
  BY TurnInvFacts, SameQuiet
<1>2. CASE g # f
  <2>1. task'[g] = task[g]
    BY <1>2, TurnInvFacts
  <2> QED
    BY <1>1, <2>1, QuietTurn
<1>3. CASE g = f
  <2>1. task'[g] = s
    BY <1>3, TurnInvFacts
  <2> QED
    BY <1>1, <1>3, <2>1, GrantConfirms
       DEF FileTurn, UnaskedTurn, RequestTurn, QuestionTurn, ConfirmTurn,
           GrantTurn, StreamTurn, LinkQuiet, ReplyQuiet, QueueQuiet,
           PromptQuiet, Unanswered, Confirmed, Streaming
<1> QED
  BY <1>2, <1>3

\* A task that takes its confirm, and streams only if it is a grant, keeps the
\* turns.
LEMMA SettleTurn ==
  ASSUME TurnInv, NEW f \in Files, NEW s,
         UNCHANGED <<toReceiver, toSender, confirmQ, prompts, recvFiles>>,
         Confirmed(f),
         oneshot' = [oneshot EXCEPT ![f] = None],
         task' = [task EXCEPT ![f] = s],
         s = "ok" \/ (s \in {"point", "stream"} /\ Grant(oneshot[f], f)),
         NEW g \in Files
  PROVE  FileTurn(g)'
<1>1. FileTurn(g) /\ LinkQuiet(g) /\ ReplyQuiet(g) /\ QueueQuiet(g) /\ PromptQuiet(g)
  BY TurnInvFacts, SameQuiet
<1>2. CASE g # f
  <2>1. task'[g] = task[g] /\ oneshot'[g] = oneshot[g]
    BY <1>2, TurnInvFacts
  <2> QED
    BY <1>1, <2>1, QuietTurn
<1>3. CASE g = f
  <2>1. task'[g] = s /\ oneshot'[g] = None
    BY <1>3, TurnInvFacts
  <2> QED
    BY <1>1, <1>3, <2>1, GrantConfirms
       DEF FileTurn, UnaskedTurn, RequestTurn, QuestionTurn, ConfirmTurn,
           GrantTurn, StreamTurn, LinkQuiet, ReplyQuiet, QueueQuiet,
           PromptQuiet, Unanswered, Confirmed, Streaming
<1> QED
  BY <1>2, <1>3

\* A task that sends a message about the content of its file keeps the turns.
LEMMA SendTurn ==
  ASSUME TurnInv, NEW f \in Files, NEW s, NEW m,
         UNCHANGED <<toSender, confirmQ, prompts, recvFiles, oneshot>>,
         Streaming(f), IsBody(m, f), Post(m),
         task' = [task EXCEPT ![f] = s],
         s = IF IsDone(m, f) THEN "ok" ELSE "stream",
         NEW g \in Files
  PROVE  FileTurn(g)'
<1>1. FileTurn(g) /\ ReplyQuiet(g) /\ QueueQuiet(g) /\ PromptQuiet(g)
  BY TurnInvFacts, SameQuiet
<1>2. CASE g # f
  <2>1. task'[g] = task[g]
    BY <1>2, TurnInvFacts
  <2>2. LinkQuiet(g)
    <3>1. ~IsRequest(m, g) /\ ~IsBody(m, g)
      BY <1>2 DEF IsRequest, IsBody
    <3> QED
      BY <3>1, PostQuiet, TurnInvFacts
  <2> QED
    BY <1>1, <2>1, <2>2, QuietTurn
<1>3. CASE g = f
  <2>1. task'[g] = s
    BY <1>3, TurnInvFacts
  <2>2. ~DoneSent(g)
    BY <1>1, <1>3 DEF FileTurn, StreamTurn, Streaming
  <2>3. /\ Requested(g)' => Requested(g)
        /\ OneRequest(g) => OneRequest(g)'
        /\ DoneSent(g)' => IsDone(m, g)
        /\ DoneLast(g)'
    BY <1>3, <2>2, PostBody, TurnInvFacts
  <2> QED
    BY <1>1, <1>3, <2>1, <2>2, <2>3, GrantConfirms
       DEF FileTurn, UnaskedTurn, RequestTurn, QuestionTurn, ConfirmTurn,
           GrantTurn, StreamTurn, ReplyQuiet, QueueQuiet,
           PromptQuiet, Unanswered, Confirmed, Streaming
<1> QED
  BY <1>2, <1>3

\* Every step of a task, its failures and its time-out included, keeps the
\* turns of all files.
LEMMA TaskTurn ==
  ASSUME TurnInv, NEW f \in Files, SendSingleFile(f) \/ TaskFails(f),
         NEW g \in Files
  PROVE  FileTurn(g)'
<1>1. ASSUME RequestFile(f)  PROVE FileTurn(g)'
  <2> DEFINE m == ToReceiver("NewFileRequest", f, 0)
  <2>1. /\ FileTurn(g) /\ ReplyQuiet(g) /\ QueueQuiet(g) /\ PromptQuiet(g)
        /\ UNCHANGED <<oneshot, recvFiles>> /\ Post(m)
    BY <1>1, TurnInvFacts, SameQuiet DEF RequestFile
  <2>2. IsRequest(m, f) /\ (g # f => ~IsRequest(m, g)) /\ ~IsBody(m, g)
    BY DEF IsRequest, IsBody, Body, ToReceiver
  <2>3. CASE g # f
    <3>1. task'[g] = task[g]
      BY <1>1, <2>3, TurnInvFacts DEF RequestFile
    <3>2. LinkQuiet(g)
      BY <2>1, <2>2, <2>3, PostQuiet, TurnInvFacts
    <3> QED
      BY <2>1, <3>1, <3>2, QuietTurn
  <2>4. CASE g = f
    <3>1. task[g] = "start" /\ task'[g] = "wait"
      BY <1>1, <2>4, TurnInvFacts DEF RequestFile
    <3>2. ~Requested(g)
      BY <2>1, <3>1 DEF FileTurn, UnaskedTurn
    <3>3. /\ OneRequest(g)'
          /\ Streamed(g)' => Streamed(g)
          /\ DoneSent(g)' => DoneSent(g)
          /\ DoneLast(g) => DoneLast(g)'
      BY <2>1, <2>2, <2>4, <3>2, PostRequest, TurnInvFacts
    <3> QED
      BY <2>1, <3>1, <3>3, GrantConfirms
         DEF FileTurn, UnaskedTurn, RequestTurn, QuestionTurn, ConfirmTurn,
             GrantTurn, StreamTurn, ReplyQuiet, QueueQuiet,
             PromptQuiet, Unanswered, Confirmed, Streaming
  <2> QED
    BY <2>3, <2>4
<1>2. ASSUME FileKept(f)  PROVE FileTurn(g)'
  BY <1>2, SettleTurn DEF FileKept, End, Answered, Confirmed
<1>3. ASSUME FileResumed(f)  PROVE FileTurn(g)'
  <2>1. Confirmed(f) /\ oneshot[f].kind = "breakPoint"
    BY <1>3 DEF FileResumed, Answered, Confirmed
  <2>2. Grant(oneshot[f], f)
    BY <2>1, TurnInvFacts DEF Grant, FileTurn, ConfirmTurn
  <2> QED
    BY <1>3, <2>1, <2>2, SettleTurn DEF FileResumed
<1>4. ASSUME FileAccepted(f)  PROVE FileTurn(g)'
  <2>1. /\ Confirmed(f) /\ f \notin EmptyDirs
        /\ oneshot[f].kind = "newFile" <=> oneshot[f].accept
    BY <1>4 DEF FileAccepted, Answered, Confirmed
  <2>2. IsConfirm(oneshot[f], f)
    BY <2>1, TurnInvFacts DEF FileTurn, ConfirmTurn
  <2>3. Grant(oneshot[f], f)
    BY <2>1, <2>2 DEF Grant, IsConfirm
  <2> QED
    BY <1>4, <2>1, <2>3, SettleTurn DEF FileAccepted
<1>5. ASSUME DirAccepted(f)  PROVE FileTurn(g)'
  BY <1>5, SettleTurn DEF DirAccepted, End, Answered, Confirmed
<1>6. ASSUME ConfirmTimeout(f)  PROVE FileTurn(g)'
  BY <1>6, MoveTurn DEF ConfirmTimeout, End
<1>7. ASSUME SendBreakPoint(f)  PROVE FileTurn(g)'
  <2> DEFINE m == ToReceiver("BreakPoint", f, pos[f])
  <2>1. IsBody(m, f) /\ ~IsDone(m, f)
    BY DEF IsBody, Body, IsDone, ToReceiver
  <2> QED
    BY <1>7, <2>1, SendTurn DEF SendBreakPoint, Streaming
<1>8. ASSUME ReadChunk(f)  PROVE FileTurn(g)'
  BY <1>8, MoveTurn DEF ReadChunk, Streaming
<1>9. ASSUME StreamCancelled(f)  PROVE FileTurn(g)'
  BY <1>9, MoveTurn DEF StreamCancelled, Streaming, End
<1>10. ASSUME SendChunk(f)  PROVE FileTurn(g)'
  <2> DEFINE m == ToReceiver("FileData", f, pos[f] + 1)
  <2>1. IsBody(m, f) /\ ~IsDone(m, f)
    BY DEF IsBody, Body, IsDone, ToReceiver
  <2> QED
    BY <1>10, <2>1, SendTurn DEF SendChunk, Streaming
<1>11. ASSUME SendFileDone(f)  PROVE FileTurn(g)'
  <2> DEFINE m == ToReceiver("FileDone", f, 0)
  <2>1. IsBody(m, f) /\ IsDone(m, f)
    BY DEF IsBody, Body, IsDone, ToReceiver
  <2> QED
    BY <1>11, <2>1, SendTurn DEF SendFileDone, Streaming, End
<1>12. ASSUME TaskFails(f)  PROVE FileTurn(g)'
  BY <1>12, MoveTurn DEF TaskFails, Streaming, End
<1> QED
  BY <1>1, <1>2, <1>3, <1>4, <1>5, <1>6, <1>7, <1>8, <1>9, <1>10, <1>11, <1>12
     DEF SendSingleFile

\* A step of the sender's main loop keeps the turns: a confirm that moves from
\* the link to the channel is still the only one.
LEMMA SenderLoopTurn ==
  ASSUME TurnInv, SenderLoop, NEW g \in Files
  PROVE  FileTurn(g)'
<1>1. FileTurn(g)
  BY TurnInvFacts
<1>2. ASSUME Ready  PROVE FileTurn(g)'
  <2> DEFINE m == ToReceiver("SendRequest", 0, 0)
  <2>1. Post(m) /\ ~IsRequest(m, g) /\ ~IsBody(m, g)
    BY <1>2 DEF Ready, ToReceiver, IsRequest, IsBody, Body
  <2>2. LinkQuiet(g)
    BY <2>1, PostQuiet, TurnInvFacts
  <2> QED
    BY <1>1, <1>2, <2>2, SameQuiet, QuietTurn DEF Ready
<1>3. ASSUME ShareAccepted  PROVE FileTurn(g)'
  <2>1. ReplyQuiet(g)
    BY <1>3, TakeReply, TurnInvFacts DEF ShareAccepted, Arrived
  <2> QED
    BY <1>1, <1>3, <2>1, SameQuiet, QuietTurn DEF ShareAccepted
<1>4. ASSUME ShareRejected  PROVE FileTurn(g)'
  <2> DEFINE m == ToReceiver("Done", 0, 0)
  <2>1. Post(m) /\ ~IsRequest(m, g) /\ ~IsBody(m, g)
    BY <1>4 DEF ShareRejected, ToReceiver, IsRequest, IsBody, Body
  <2>2. LinkQuiet(g)
    BY <2>1, PostQuiet, TurnInvFacts
  <2>3. ReplyQuiet(g)
    BY <1>4, TakeReply, TurnInvFacts DEF ShareRejected, Arrived
  <2> QED
    BY <1>1, <1>4, <2>2, <2>3, SameQuiet, QuietTurn DEF ShareRejected
<1>5. ASSUME DoneReplied  PROVE FileTurn(g)'
  <2>1. ReplyQuiet(g)
    BY <1>5, TakeReply, TurnInvFacts DEF DoneReplied, Arrived
  <2> QED
    BY <1>1, <1>5, <2>1, SameQuiet, QuietTurn DEF DoneReplied
<1>6. ASSUME EnqueueConfirm  PROVE FileTurn(g)'
  <2> DEFINE c == Head(toSender)
  <2>1. /\ ReplyQuiet(g) /\ LinkQuiet(g) /\ PromptQuiet(g)
        /\ IsConfirm(c, g) => Replied(g) /\ (OneReply(g) => ~Replied(g)')
        /\ Grant(c, g) => GrantReplied(g)
        /\ UNCHANGED <<task, oneshot, recvFiles>>
    BY <1>6, TakeReply, TurnInvFacts, SameQuiet DEF EnqueueConfirm, Arrived
  <2>2. /\ ~IsConfirm(c, g) => QueueQuiet(g)
        /\ ~Queued(g) => OneQueued(g)' /\ (GrantQueued(g)' => Grant(c, g))
    BY <1>6, Enqueue, TurnInvFacts DEF EnqueueConfirm
  <2>3. CASE ~IsConfirm(c, g)
    BY <1>1, <2>1, <2>2, <2>3, QuietTurn
  <2>4. CASE IsConfirm(c, g)
    <3>1. /\ Replied(g) /\ ~Replied(g)' /\ ~GrantReplied(g)'
          /\ ~Queued(g) /\ ~Confirmed(g) /\ Unanswered(g) /\ ~Streamed(g)
          /\ ~Requested(g) /\ ~Questioned(g)
      BY <1>1, <2>1, <2>4 DEF FileTurn, ConfirmTurn, RequestTurn, QuestionTurn,
         GrantReplied, Replied, Grant
    <3>2. OneReply(g)' /\ OneQueued(g)' /\ (GrantQueued(g)' => GrantReplied(g))
      BY <1>1, <2>1, <2>2, <3>1 DEF FileTurn, ConfirmTurn, ReplyQuiet
    <3> QED
      BY <1>1, <2>1, <3>1, <3>2
         DEF FileTurn, UnaskedTurn, RequestTurn, QuestionTurn, ConfirmTurn,
             GrantTurn, StreamTurn, LinkQuiet, PromptQuiet, Unanswered,
             Confirmed, Streaming
  <2> QED
    BY <2>3, <2>4
<1> QED
  BY <1>2, <1>3, <1>4, <1>5, <1>6 DEF SenderLoop

\* A step of send_files or of the dispatcher keeps the turns: a confirm that is
\* handed to a task is still the only one.
LEMMA SendFilesTurn ==
  ASSUME TurnInv, SendFiles \/ Dispatcher, NEW g \in Files
  PROVE  FileTurn(g)'
<1>1. FileTurn(g)
  BY TurnInvFacts
<1>2. ASSUME NextFile \/ JoinTasks \/ DispatcherStart  PROVE FileTurn(g)'
  <2>1. UNCHANGED <<toReceiver, toSender, confirmQ, prompts, recvFiles, task,
                    oneshot>>
    BY <1>2 DEF NextFile, JoinTasks, DispatcherStart
  <2> QED
    BY <1>1, <2>1, SameQuiet, QuietTurn
<1>3. ASSUME SpawnTask  PROVE FileTurn(g)'
  <2>1. nextFile \in Files /\ task[nextFile] = "none"
    <3>1. nextFile \in Files
      BY <1>3 DEF TurnInv, TypeOK, SpawnTask
    <3> QED
      BY <3>1 DEF TurnInv, Unspawned, Files
  <2> QED
    BY <1>3, <2>1, MoveTurn DEF SpawnTask
<1>4. ASSUME SendDone  PROVE FileTurn(g)'
  <2> DEFINE m == ToReceiver("Done", 0, 0)
  <2>1. ~IsRequest(m, g) /\ ~IsBody(m, g)
    BY DEF ToReceiver, IsRequest, IsBody, Body
  <2>2. Post(m) \/ UNCHANGED toReceiver
    BY <1>4 DEF SendDone
  <2>3. LinkQuiet(g)
    BY <2>1, <2>2, PostQuiet, SameQuiet, TurnInvFacts
  <2> QED
    BY <1>1, <1>4, <2>3, SameQuiet, QuietTurn DEF SendDone
<1>5. ASSUME Dispatch  PROVE FileTurn(g)'
  <2> DEFINE c == Head(confirmQ)
  <2>1. /\ QueueQuiet(g) /\ LinkQuiet(g) /\ ReplyQuiet(g) /\ PromptQuiet(g)
        /\ IsConfirm(c, g) => Queued(g) /\ (OneQueued(g) => ~Queued(g)')
        /\ Grant(c, g) => GrantQueued(g)
        /\ UNCHANGED <<task, recvFiles>>
    BY <1>5, Dequeue, TurnInvFacts, SameQuiet DEF Dispatch
  <2>2. oneshot' \in {oneshot, [oneshot EXCEPT ![c.file] = c]}
    BY <1>5 DEF Dispatch
  <2>3. c \in Confirm
    BY <1>5, HeadTail DEF Dispatch, TurnInv, TypeOK
  <2>4. CASE ~IsConfirm(c, g)
    <3>1. c.file # g
      BY <2>3, <2>4 DEF IsConfirm, Confirm
    <3>2. oneshot'[g] = oneshot[g]
      BY <2>2, <3>1, TurnInvFacts
    <3> QED
      BY <1>1, <2>1, <3>2, QuietTurn
  <2>5. CASE IsConfirm(c, g)
    <3>1. oneshot'[g] \in {c, None}
      <4>1. oneshot[g] = None
        BY <1>1, <2>1, <2>5 DEF FileTurn, ConfirmTurn, Confirmed
      <4> QED
        BY <2>2, <4>1, TurnInvFacts
    <3>2. /\ ~Queued(g)' /\ ~GrantQueued(g)'
          /\ Unanswered(g) /\ ~Streamed(g) /\ ~Requested(g) /\ ~Questioned(g)
          /\ ~Replied(g)
      BY <1>1, <2>1, <2>5 DEF FileTurn, ConfirmTurn, RequestTurn, QuestionTurn,
         GrantQueued, Queued, Grant
    <3> QED
      BY <1>1, <2>1, <2>5, <3>1, <3>2, GrantConfirms
         DEF FileTurn, UnaskedTurn, RequestTurn, QuestionTurn, ConfirmTurn,
             GrantTurn, StreamTurn, LinkQuiet, PromptQuiet, ReplyQuiet,
             QueueQuiet, Unanswered, Confirmed, Streaming
  <2> QED
    BY <2>4, <2>5
<1> QED
  BY <1>2, <1>3, <1>4, <1>5 DEF SendFiles, Dispatcher

-----------------------------------------------------------------------------
(* What the receiver and its user do to the turns.                         *)

\* The receiver answers for a file that has nothing else under way: with a
\* confirm that is a grant only if the file stays open.
LEMMA AnswerTurn ==
  ASSUME NEW g, NEW m, FileTurn(g), OneReply(g)',
         GrantReplied(g)' => Grant(m, g),
         Unanswered(g), ~Streamed(g), ~Replied(g), ~Queued(g), ~Confirmed(g),
         ~Requested(g)', ~Questioned(g)', OneRequest(g)', OneQuestion(g)',
         Streamed(g)' => Streamed(g), DoneSent(g)' => DoneSent(g), DoneLast(g)',
         UNCHANGED <<task, oneshot, confirmQ>>,
         Grant(m, g) => g \in recvFiles'
  PROVE  FileTurn(g)'
<1>1. QueueQuiet(g)
  BY SameQuiet
<1> QED
  BY <1>1, GrantConfirms
     DEF FileTurn, UnaskedTurn, RequestTurn, QuestionTurn, ConfirmTurn,
         GrantTurn, StreamTurn, QueueQuiet, Unanswered, Confirmed, Streaming

\* What the head of the link says about the turn of its file.
LEMMA HeadRequest ==
  ASSUME TurnInv, NEW f \in Files, ReceivedFile("NewFileRequest", f)
  PROVE  /\ Unanswered(f) /\ ~Questioned(f) /\ ~Streamed(f)
         /\ ~Replied(f) /\ ~Queued(f) /\ ~Confirmed(f)
         /\ ~Requested(f)' /\ OneRequest(f)' /\ DoneLast(f)'
         /\ Streamed(f)' => Streamed(f)
         /\ DoneSent(f)' => DoneSent(f)
         /\ \A g \in Files : g # f => LinkQuiet(g)
<1>1. IsRequest(Head(toReceiver), f)
  BY DEF ReceivedFile, Received, IsRequest
<1>2. /\ LinkQuiet(f)
      /\ Requested(f) /\ (OneRequest(f) => ~Requested(f)')
      /\ \A g \in Files : LinkQuiet(g)
  BY <1>1, TakeQuiet, TurnInvFacts DEF ReceivedFile
<1>3. FileTurn(f)
  BY TurnInvFacts
<1> QED
  BY <1>2, <1>3 DEF FileTurn, RequestTurn, StreamTurn, LinkQuiet

\* The files whose open RecvFiles a message about their content needs are open.
LEMMA BodyFound ==
  ASSUME TurnInv, NEW f \in Files, NEW t \in Body, ReceivedFile(t, f)
  PROVE  f \in recvFiles /\ \A g \in Files : LinkQuiet(g)
<1>1. IsBody(Head(toReceiver), f)
  BY DEF ReceivedFile, Received, IsBody
<1>2. Streamed(f) /\ \A g \in Files : LinkQuiet(g)
  BY <1>1, TakeQuiet, TurnInvFacts DEF ReceivedFile
<1> QED
  BY <1>2, TurnInvFacts DEF FileTurn, StreamTurn

\* Every message keeps the turns.
LEMMA ReceiverTurn ==
  ASSUME TurnInv, ReceiverLoop \/ (\E f \in Files : RecvIoError(f)),
         NEW g \in Files
  PROVE  FileTurn(g)'
<1>1. FileTurn(g)
  BY TurnInvFacts
<1>2. ASSUME RecvSendRequest  PROVE FileTurn(g)'
  <2>1. LinkQuiet(g)
    BY <1>2, TakeQuiet, TurnInvFacts DEF RecvSendRequest
  <2>2. PromptQuiet(g)
    BY <1>2 DEF RecvSendRequest, PromptQuiet, Questioned, OneQuestion, IsQuestion
  <2> QED
    BY <1>1, <1>2, <2>1, <2>2, SameQuiet, QuietTurn DEF RecvSendRequest
<1>3. ASSUME RecvDone  PROVE FileTurn(g)'
  <2> DEFINE m == [kind |-> "done", file |-> 0, accept |-> FALSE, n |-> 0]
  <2>1. LinkQuiet(g)
    BY <1>3, TakeQuiet, TurnInvFacts DEF RecvDone
  <2>2. Reply(m) /\ ~IsConfirm(m, g)
    BY <1>3 DEF RecvDone, IsConfirm
  <2>3. ReplyQuiet(g)
    BY <2>2, ReplyOther, TurnInvFacts
  <2> QED
    BY <1>1, <1>3, <2>1, <2>3, SameQuiet, QuietTurn DEF RecvDone
<1>4. ASSUME NEW f \in Files, RecvDirRequest(f) \/ RecvNewFile(f)
      PROVE  FileTurn(g)'
  <2> DEFINE m == Accept(f)
  <2>1. /\ ReceivedFile("NewFileRequest", f) /\ Reply(m)
        /\ UNCHANGED <<prompts, task, oneshot, confirmQ>>
        /\ recvFiles \subseteq recvFiles'
        /\ f \notin EmptyDirs => f \in recvFiles'
    BY <1>4 DEF RecvDirRequest, RecvNewFile, Open
  <2>2. IsConfirm(m, f) /\ (Grant(m, f) => f \notin EmptyDirs)
    BY DEF Accept, FileConfirm, IsConfirm, Grant
  <2>3. CASE g # f
    <3>1. ~IsConfirm(m, g)
      BY <2>3 DEF Accept, FileConfirm, IsConfirm
    <3>2. ReplyQuiet(g) /\ LinkQuiet(g)
      BY <2>1, <2>3, <3>1, ReplyOther, HeadRequest, TurnInvFacts
    <3> QED
      BY <1>1, <2>1, <3>2, SameQuiet, QuietTurn
  <2>4. CASE g = f
    <3>1. OneReply(g)' /\ (GrantReplied(g)' => Grant(m, g))
      BY <2>1, <2>4, HeadRequest, ReplyConfirm, TurnInvFacts
    <3>2. ~Questioned(g)' /\ OneQuestion(g)'
      BY <1>1, <2>1, <2>4, HeadRequest, SameQuiet
         DEF PromptQuiet, FileTurn, QuestionTurn
    <3> QED
      BY <1>1, <2>1, <2>2, <2>4, <3>1, <3>2, HeadRequest, AnswerTurn
  <2> QED
    BY <2>3, <2>4
<1>5. ASSUME NEW f \in Files, RecvExistingFile(f)  PROVE FileTurn(g)'
  <2>1. /\ ReceivedFile("NewFileRequest", f)
        /\ UNCHANGED <<toSender, task, oneshot, confirmQ>>
        /\ recvFiles' = recvFiles \cup {f}
    BY <1>5 DEF RecvExistingFile, Open
  <2>2. PICK p : IsQuestion(p, f) /\ prompts' = prompts \cup {p}
    <3> DEFINE b == [kind |-> "breakPoint", file |-> f, n |-> SavedChunks(disk[f])]
               d == [kind |-> "duplicate", file |-> f, n |-> 0]
    <3>1. IsQuestion(b, f) /\ IsQuestion(d, f)
      BY DEF IsQuestion
    <3>2. prompts' = prompts \cup {b} \/ prompts' = prompts \cup {d}
      BY <1>5 DEF RecvExistingFile
    <3> HIDE DEF b, d
    <3> QED
      BY <3>1, <3>2
  <2>3. CASE g # f
    <3>1. PromptQuiet(g)
      BY <2>2, <2>3 DEF PromptQuiet, Questioned, OneQuestion, IsQuestion
    <3> QED
      BY <1>1, <2>1, <2>3, <3>1, HeadRequest, SameQuiet, QuietTurn
  <2>4. CASE g = f
    <3>1. OneQuestion(g)'
      BY <2>1, <2>2, <2>4, HeadRequest DEF OneQuestion, Questioned
    <3>2. ReplyQuiet(g) /\ QueueQuiet(g)
      BY <2>1, SameQuiet
    <3> QED
      BY <1>1, <2>1, <2>4, <3>1, <3>2, HeadRequest
         DEF FileTurn, UnaskedTurn, RequestTurn, QuestionTurn, ConfirmTurn,
             GrantTurn, StreamTurn, ReplyQuiet, QueueQuiet, Unanswered,
             Confirmed, Streaming
  <2> QED
    BY <2>3, <2>4
<1>6. ASSUME NEW f \in Files, RecvBreakPoint(f) \/ RecvFileData(f)
      PROVE  FileTurn(g)'
  <2>1. LinkQuiet(g)
    BY <1>6, BodyFound DEF RecvBreakPoint, RecvFileData, Body
  <2> QED
    BY <1>1, <1>6, <2>1, SameQuiet, QuietTurn DEF RecvBreakPoint, RecvFileData
<1>7. ASSUME NEW f \in Files, RecvFileDone(f)  PROVE FileTurn(g)'
  <2>1. /\ ReceivedFile("FileDone", f)
        /\ UNCHANGED <<toSender, prompts, task, oneshot, confirmQ>>
        /\ recvFiles' = recvFiles \ {f}
    BY <1>7 DEF RecvFileDone
  <2>2. LinkQuiet(g) /\ ReplyQuiet(g) /\ QueueQuiet(g) /\ PromptQuiet(g)
    BY <2>1, BodyFound, SameQuiet DEF Body
  <2>3. CASE g # f
    BY <1>1, <2>1, <2>2, <2>3, QuietTurn
  <2>4. CASE g = f
    <3>1. IsDone(Head(toReceiver), g)
      BY <2>1, <2>4 DEF ReceivedFile, Received, IsDone
    <3>2. DoneSent(g) /\ ~Streamed(g)'
      BY <1>1, <2>1, <3>1, TakeQuiet, TurnInvFacts
         DEF ReceivedFile, FileTurn, StreamTurn
    <3>3. task[g] = "ok"
      BY <1>1, <3>2 DEF FileTurn, StreamTurn
    <3> QED
      BY <1>1, <2>1, <2>2, <2>4, <3>2, <3>3, GrantConfirms
         DEF FileTurn, UnaskedTurn, RequestTurn, QuestionTurn, ConfirmTurn,
             GrantTurn, StreamTurn, LinkQuiet, ReplyQuiet, QueueQuiet,
             PromptQuiet, Unanswered, Confirmed, Streaming
  <2> QED
    BY <2>3, <2>4
<1>8. ASSUME NEW f \in Files, RecvIoError(f)  PROVE FileTurn(g)'
  <2>1. LinkQuiet(g)
    BY <1>8, TakeQuiet, TurnInvFacts DEF RecvIoError, ReceivedFile
  <2> QED
    BY <1>1, <1>8, <2>1, SameQuiet, QuietTurn DEF RecvIoError
<1> QED
  BY <1>2, <1>3, <1>4, <1>5, <1>6, <1>7, <1>8 DEF ReceiverLoop

\* An answered question is gone, and the answer is the only confirm.
LEMMA AnsweredQuestion ==
  ASSUME TurnInv, NEW f \in Files, NEW p \in prompts, IsQuestion(p, f),
         prompts' = prompts \ {p}, NEW m, IsConfirm(m, f), Reply(m),
         UNCHANGED <<toReceiver, task, oneshot, confirmQ>>,
         \A h \in Files \ {f} : h \in recvFiles => h \in recvFiles',
         Grant(m, f) => f \in recvFiles',
         NEW g \in Files
  PROVE  FileTurn(g)'
<1>1. FileTurn(g) /\ FileTurn(f) /\ LinkQuiet(g)
  BY TurnInvFacts, SameQuiet
<1>2. CASE g # f
  <2>1. ~IsConfirm(m, g)
    BY <1>2 DEF IsConfirm
  <2>2. ReplyQuiet(g)
    BY <2>1, ReplyOther, TurnInvFacts
  <2>3. PromptQuiet(g)
    BY DEF PromptQuiet, Questioned, OneQuestion
  <2> QED
    BY <1>1, <1>2, <2>2, <2>3, SameQuiet, QuietTurn
<1>3. CASE g = f
  <2>1. Questioned(f) /\ ~Questioned(f)' /\ OneQuestion(f)'
    BY <1>1 DEF FileTurn, QuestionTurn, Questioned, OneQuestion
  <2>2. /\ Unanswered(f) /\ ~Streamed(f) /\ f \in recvFiles
        /\ ~Replied(f) /\ ~Queued(f) /\ ~Confirmed(f)
        /\ ~Requested(f) /\ OneRequest(f) /\ DoneLast(f)
    BY <1>1, <2>1 DEF FileTurn, QuestionTurn, RequestTurn, StreamTurn
  <2>3. OneReply(f)' /\ (GrantReplied(f)' => Grant(m, f))
    BY <2>2, ReplyConfirm, TurnInvFacts
  <2> QED
    BY <1>1, <1>3, <2>1, <2>2, <2>3, AnswerTurn DEF LinkQuiet
<1> QED
  BY <1>2, <1>3

\* Every answer of the user keeps the turns: "keep" closes the file, and no
\* task streams a file after it.
LEMMA UserTurn ==
  ASSUME TurnInv, User, NEW g \in Files
  PROVE  FileTurn(g)'
<1>1. ASSUME NEW a \in BOOLEAN, AnswerShare(a)  PROVE FileTurn(g)'
  <2> DEFINE m == [kind |-> "share", file |-> 0, accept |-> a, n |-> 0]
  <2>1. Reply(m) /\ ~IsConfirm(m, g)
    BY <1>1 DEF AnswerShare, IsConfirm
  <2>2. ReplyQuiet(g)
    BY <2>1, ReplyOther, TurnInvFacts
  <2>3. PromptQuiet(g)
    BY <1>1 DEF AnswerShare, PromptQuiet, Questioned, OneQuestion
  <2>4. FileTurn(g)
    BY TurnInvFacts
  <2> QED
    BY <1>1, <2>2, <2>3, <2>4, SameQuiet, QuietTurn DEF AnswerShare
<1>2. ASSUME NEW f \in Files, Overwrite(f) \/ Keep(f)  PROVE FileTurn(g)'
  <2> DEFINE p == Duplicate(f)
  <2>1. p \in prompts /\ IsQuestion(p, f) /\ prompts' = prompts \ {p}
    BY <1>2 DEF Overwrite, Keep, Asked, Duplicate, IsQuestion
  <2>2. Questioned(f) /\ f \in recvFiles
    BY <2>1, TurnInvFacts DEF Questioned, FileTurn, QuestionTurn
  <2>3. CASE Overwrite(f)
    <3> DEFINE m == Accept(f)
    <3>1. IsConfirm(m, f) /\ Reply(m)
      BY <2>3 DEF Overwrite, Accept, FileConfirm, IsConfirm
    <3> HIDE DEF p, m
    <3> QED
      BY <2>1, <2>2, <2>3, <3>1, AnsweredQuestion DEF Overwrite
  <2>4. CASE Keep(f)
    <3> DEFINE m == FileConfirm("newFile", f, FALSE, 0)
    <3>1. IsConfirm(m, f) /\ ~Grant(m, f) /\ Reply(m)
      BY <2>4 DEF Keep, FileConfirm, IsConfirm, Grant
    <3> HIDE DEF p, m
    <3> QED
      BY <2>1, <2>2, <2>4, <3>1, AnsweredQuestion DEF Keep
  <2> QED
    BY <1>2, <2>3, <2>4
<1>3. ASSUME NEW f \in Files, NEW n \in Nat, ResumeAt(f, n) \/ Restart(f, n)
      PROVE  FileTurn(g)'
  <2> DEFINE p == [kind |-> "breakPoint", file |-> f, n |-> n]
  <2>1. p \in prompts /\ IsQuestion(p, f) /\ prompts' = prompts \ {p}
    BY <1>3 DEF ResumeAt, Restart, Asked, IsQuestion
  <2>2. Questioned(f) /\ f \in recvFiles
    BY <2>1, TurnInvFacts DEF Questioned, FileTurn, QuestionTurn
  <2>3. PICK m : IsConfirm(m, f) /\ Reply(m)
    BY <1>3 DEF ResumeAt, Restart, FileConfirm, IsConfirm
  <2>4. UNCHANGED <<toReceiver, task, oneshot, confirmQ, recvFiles>>
    BY <1>3 DEF ResumeAt, Restart
  <2> HIDE DEF p
  <2> QED
    BY <2>1, <2>2, <2>3, <2>4, AnsweredQuestion
<1> QED
  BY <1>1, <1>2, <1>3 DEF User, AnswerFile

-----------------------------------------------------------------------------
(* The theorems.                                                           *)

\* Initially nothing is under way.
LEMMA InitTurn == Init => TurnInv
<1> SUFFICES ASSUME Init  PROVE TurnInv
  OBVIOUS
<1>1. TypeOK
  BY InitType
<1>2. Unspawned /\ NoUnknownFile
  BY DEF Init, Unspawned, NoUnknownFile
<1>3. ASSUME NEW f \in Files  PROVE FileTurn(f)
  <2>1. /\ toReceiver = <<>> /\ toSender = <<>> /\ confirmQ = <<>> /\ prompts = {}
        /\ task[f] = "none" /\ oneshot[f] = None
    BY DEF Init
  <2>2. /\ ~Requested(f) /\ ~Streamed(f) /\ ~DoneSent(f) /\ OneRequest(f) /\ DoneLast(f)
        /\ ~Replied(f) /\ OneReply(f) /\ ~Queued(f) /\ OneQueued(f)
        /\ ~Questioned(f) /\ OneQuestion(f)
    BY <2>1 DEF Requested, Streamed, DoneSent, OneRequest, DoneLast, Replied,
       OneReply, Queued, OneQueued, Questioned, OneQuestion
  <2> QED
    BY <2>1, <2>2, GrantConfirms
       DEF FileTurn, UnaskedTurn, RequestTurn, QuestionTurn, ConfirmTurn,
           GrantTurn, StreamTurn, Unanswered, Confirmed, Streaming
<1> QED
  BY <1>1, <1>2, <1>3 DEF TurnInv, OneTurn

\* Only send_files spawns tasks.
LEMMA NextUnspawned ==
  ASSUME TurnInv, [Next]_vars
  PROVE  Unspawned'
<1>1. /\ \A f \in Files : f >= nextFile => task[f] = "none"
      /\ task \in [Files -> TaskState] /\ nextFile \in 1..(NumFiles + 1)
      /\ NumFiles \in Nat
  BY SizesAssumption DEF TurnInv, Unspawned, TypeOK
<1>2. CASE UNCHANGED <<task, nextFile>>
  BY <1>1, <1>2 DEF Unspawned
<1>3. CASE SpawnTask
  BY <1>1, <1>3 DEF SpawnTask, Unspawned, Files
<1>4. ASSUME NEW f \in Files, SendSingleFile(f) \/ TaskFails(f)
      PROVE  Unspawned'
  <2>1. task[f] # "none" /\ UNCHANGED nextFile
        /\ \E s : task' = [task EXCEPT ![f] = s]
    BY <1>4 DEF SendSingleFile, RequestFile, FileKept, FileResumed,
       FileAccepted, DirAccepted, ConfirmTimeout, SendBreakPoint, ReadChunk,
       StreamCancelled, SendChunk, SendFileDone, TaskFails, Answered, End
  <2> QED
    BY <1>1, <2>1 DEF Unspawned
<1>5. ASSUME ReceiverLoop \/ User \/ (\E f \in Files : RecvIoError(f))
      PROVE  UNCHANGED <<task, nextFile>>
  <2>1. ASSUME RecvSendRequest \/ RecvDone  PROVE UNCHANGED <<task, nextFile>>
    BY <2>1 DEF RecvSendRequest, RecvDone
  <2>2. ASSUME NEW f \in Files,
               \/ RecvDirRequest(f) \/ RecvNewFile(f) \/ RecvExistingFile(f)
               \/ RecvBreakPoint(f) \/ RecvFileData(f) \/ RecvFileDone(f)
               \/ RecvIoError(f) \/ Overwrite(f) \/ Keep(f)
        PROVE  UNCHANGED <<task, nextFile>>
    BY <2>2 DEF RecvDirRequest, RecvNewFile, RecvExistingFile, RecvBreakPoint,
       RecvFileData, RecvFileDone, RecvIoError, Overwrite, Keep
  <2>3. ASSUME NEW f \in Files, NEW n, ResumeAt(f, n) \/ Restart(f, n)
        PROVE  UNCHANGED <<task, nextFile>>
    BY <2>3 DEF ResumeAt, Restart
  <2>4. ASSUME NEW a, AnswerShare(a)  PROVE UNCHANGED <<task, nextFile>>
    BY <2>4 DEF AnswerShare
  <2> QED
    BY <1>5, <2>1, <2>2, <2>3, <2>4 DEF ReceiverLoop, User, AnswerFile
<1>6. CASE SenderLoop \/ Dispatcher \/ NextFile \/ JoinTasks \/ SendDone
  BY <1>2, <1>6 DEF SenderLoop, Ready, ShareAccepted, ShareRejected,
     EnqueueConfirm, DoneReplied, Dispatcher, DispatcherStart, Dispatch,
     NextFile, JoinTasks, SendDone
<1>7. CASE Cancel \/ LinkDown \/ Terminated \/ UNCHANGED vars
  BY <1>2, <1>7 DEF Cancel, LinkDown, Terminated, vars
<1> QED
  BY <1>2, <1>3, <1>4, <1>5, <1>6, <1>7 DEF Next, SendFiles, Failure

\* The receiver finds the RecvFile of every message it takes.
LEMMA NextFound ==
  ASSUME TurnInv, [Next]_vars
  PROVE  NoUnknownFile'
<1>1. rstate # "unknownFile"
  BY TurnInvFacts
<1>2. ASSUME NEW f \in Files, RecvBreakPoint(f) \/ RecvFileData(f) \/ RecvFileDone(f)
      PROVE  NoUnknownFile'
  <2>1. PICK t \in Body : ReceivedFile(t, f)
    BY <1>2 DEF Body, RecvBreakPoint, RecvFileData, RecvFileDone
  <2>2. f \in recvFiles
    BY <2>1, BodyFound
  <2>3. Lookup(f)
    BY <1>2 DEF RecvBreakPoint, RecvFileData, RecvFileDone
  <2> QED
    BY <2>2, <2>3 DEF Lookup, NoUnknownFile
<1>3. ASSUME NEW f \in Files, RecvIoError(f)  PROVE NoUnknownFile'
  BY <1>3 DEF RecvIoError, NoUnknownFile
<1>4. ASSUME UNCHANGED rstate  PROVE NoUnknownFile'
  BY <1>1, <1>4 DEF NoUnknownFile
<1>5. ASSUME NEW f \in Files, SendSingleFile(f) \/ TaskFails(f)
      PROVE  UNCHANGED rstate
  BY <1>5 DEF SendSingleFile, RequestFile, FileKept, FileResumed,
     FileAccepted, DirAccepted, ConfirmTimeout, SendBreakPoint, ReadChunk,
     StreamCancelled, SendChunk, SendFileDone, TaskFails
<1>6. ASSUME SenderLoop \/ SendFiles \/ Dispatcher  PROVE UNCHANGED rstate
  BY <1>6 DEF SenderLoop, Ready, ShareAccepted, ShareRejected,
     EnqueueConfirm, DoneReplied, Dispatcher, DispatcherStart, Dispatch,
     SendFiles, NextFile, SpawnTask, JoinTasks, SendDone
<1>7. ASSUME User  PROVE UNCHANGED rstate
  BY <1>7 DEF User, AnswerShare, AnswerFile, Overwrite, Keep, ResumeAt, Restart
<1>8. ASSUME NEW f \in Files,
             RecvDirRequest(f) \/ RecvNewFile(f) \/ RecvExistingFile(f)
      PROVE  UNCHANGED rstate
  BY <1>8 DEF RecvDirRequest, RecvNewFile, RecvExistingFile
<1>9. ASSUME \/ RecvSendRequest \/ RecvDone \/ Cancel \/ LinkDown
             \/ Terminated \/ UNCHANGED vars
      PROVE  UNCHANGED rstate
  BY <1>9 DEF RecvSendRequest, RecvDone, Cancel, LinkDown, Terminated, vars
<1> QED
  BY <1>2, <1>3, <1>4, <1>5, <1>6, <1>7, <1>8, <1>9
     DEF Next, ReceiverLoop, Failure

\* Every step keeps the inductive invariant.
LEMMA NextTurn == TurnInv /\ [Next]_vars => TurnInv'
<1> SUFFICES ASSUME TurnInv, [Next]_vars  PROVE TurnInv'
  OBVIOUS
<1>1. TypeOK'
  BY TurnInvFacts, NextType
<1>2. Unspawned' /\ NoUnknownFile'
  BY NextUnspawned, NextFound
<1>3. ASSUME NEW g \in Files  PROVE FileTurn(g)'
  <2>1. FileTurn(g)
    BY TurnInvFacts
  <2>2. CASE Cancel \/ Terminated \/ UNCHANGED vars
    <3>1. UNCHANGED <<toReceiver, toSender, confirmQ, prompts, recvFiles, task,
                      oneshot>>
      BY <2>2 DEF Cancel, Terminated, vars
    <3> QED
      BY <2>1, <3>1, SameQuiet, QuietTurn
  <2>3. CASE LinkDown
    <3>1. LinkQuiet(g) /\ ReplyQuiet(g)
      BY <2>3, PrefixQuiet, TurnInvFacts
    <3>2. UNCHANGED <<confirmQ, prompts, recvFiles, task, oneshot>>
      BY <2>3 DEF LinkDown
    <3> QED
      BY <2>1, <3>1, <3>2, SameQuiet, QuietTurn
  <2> QED
    BY <2>2, <2>3, TaskTurn, SenderLoopTurn, SendFilesTurn, ReceiverTurn,
       UserTurn DEF Next, Failure
<1> QED
  BY <1>1, <1>2, <1>3 DEF TurnInv, OneTurn

\* For any number of files, tasks and messages under way: the request, the
\* question, the confirm and the stream of a file never overlap.
THEOREM Turns == Spec => []OneTurn
<1>1. TurnInv => OneTurn
  BY DEF TurnInv
<1> QED
  BY <1>1, InitTurn, NextTurn, PTL DEF Spec

\* And the receiver never leaves its loop with "receive file failed".
THEOREM FilesFound == Spec => []NoUnknownFile
<1>1. TurnInv => NoUnknownFile
  BY DEF TurnInv
<1> QED
  BY <1>1, InitTurn, NextTurn, PTL DEF Spec
-----------------------------------------------------------------------------
(* CONSENT.  Nothing is written without it: not to a share that was not    *)
(* accepted, not to an existing file the user did not give up, and not to  *)
(* a file that is finished.                                                *)

-----------------------------------------------------------------------------
(* The share: its request, its question and its confirm take turns too.    *)

ShareQuestion == [kind |-> "share", file |-> 0, n |-> 0]

ShareSent == \E i \in 1..Len(toReceiver) : toReceiver[i].type = "SendRequest"
OneShareSent ==
  \A i, j \in 1..Len(toReceiver) :
    toReceiver[i].type = "SendRequest" /\ toReceiver[j].type = "SendRequest" => i = j
ShareQuestioned == ShareQuestion \in prompts
ShareReplied == \E i \in 1..Len(toSender) : toSender[i].kind = "share"
OneShareReply ==
  \A i, j \in 1..Len(toSender) :
    toSender[i].kind = "share" /\ toSender[j].kind = "share" => i = j

\* It is under way in one place, once, and only while the sender waits for it;
\* and until it is accepted no task is started.
ShareTurn ==
  /\ share # "asked" => ~ShareSent /\ ~ShareQuestioned /\ ~ShareReplied
  /\ OneShareSent /\ OneShareReply
  /\ ShareSent => ~ShareQuestioned /\ ~ShareReplied
  /\ ShareQuestioned => ~ShareReplied
  /\ share # "accepted" => sf = "idle" /\ \A f \in Files : task[f] = "none"

-----------------------------------------------------------------------------
(* The files.                                                              *)

\* Something lets the sender stream f, or it does, or has.
Granted(f) == \/ GrantReplied(f) \/ GrantQueued(f) \/ Grant(oneshot[f], f)
              \/ Streaming(f) \/ Streamed(f)

\* What the user says to an existing file that is to be written.
Consents == {"overwrite", "resume", "restart"}

FileConsent(f) ==
  /\ disk[f] = NoFile => old[f] = NoFile
  /\ f \in finished => task[f] = "ok" /\ ~Streamed(f)
  /\ Granted(f) /\ old[f] # NoFile => choice[f] \in Consents

ConsentInv == TurnInv /\ ShareTurn /\ \A f \in Files : FileConsent(f)

-----------------------------------------------------------------------------
(* What a change of a queue does to the turn of the share.                 *)

\* No request, question or confirm of the share is added.
SentQuiet  == (ShareSent' => ShareSent) /\ (OneShareSent => OneShareSent')
AskedQuiet == ShareQuestioned' => ShareQuestioned
ReplyShareQuiet == (ShareReplied' => ShareReplied) /\ (OneShareReply => OneShareReply')

\* What does not change is quiet.
LEMMA SameShareQuiet ==
  /\ UNCHANGED toReceiver => SentQuiet
  /\ UNCHANGED prompts => AskedQuiet
  /\ UNCHANGED toSender => ReplyShareQuiet
  BY DEF SentQuiet, ShareSent, OneShareSent, AskedQuiet, ShareQuestioned,
         ReplyShareQuiet, ShareReplied, OneShareReply

\* A quiet step after which the share stands where it stood keeps its turn; and
\* tasks come and go once it is accepted.
LEMMA QuietShare ==
  ASSUME ShareTurn, SentQuiet, AskedQuiet, ReplyShareQuiet, UNCHANGED share,
         share # "accepted" => UNCHANGED <<sf, task>>
  PROVE  ShareTurn'
  BY DEF ShareTurn, SentQuiet, AskedQuiet, ReplyShareQuiet

\* A message that is not the request is quiet; the request is the only one.
LEMMA PostShare ==
  ASSUME TypeOK, NEW m, Post(m)
  PROVE  /\ m.type # "SendRequest" => SentQuiet
         /\ ~ShareSent => OneShareSent'
<1>1. CASE UNCHANGED toReceiver
  BY <1>1, SameShareQuiet DEF ShareSent, OneShareSent
<1>2. CASE toReceiver' = Append(toReceiver, m)
  <2>1. toReceiver \in Seq(ToReceiverMsg)
    BY DEF TypeOK
  <2>2. /\ Len(toReceiver') = Len(toReceiver) + 1
        /\ \A i \in 1..Len(toReceiver) : toReceiver'[i] = toReceiver[i]
        /\ toReceiver'[Len(toReceiver) + 1] = m
        /\ Len(toReceiver) \in Nat
    BY <1>2, <2>1, AppendElements
  <2> QED
    BY <2>2 DEF SentQuiet, ShareSent, OneShareSent
<1> QED
  BY <1>1, <1>2 DEF Post

\* The request that is taken from the link is under way no longer.
LEMMA TakeShare ==
  ASSUME TypeOK, NEW t, Received(t)
  PROVE  /\ SentQuiet
         /\ t = "SendRequest" => ShareSent /\ (OneShareSent => ~ShareSent')
<1>1. toReceiver \in Seq(ToReceiverMsg)
  BY DEF TypeOK
<1>2. /\ Len(toReceiver) \in Nat \ {0}
      /\ Len(toReceiver') = Len(toReceiver) - 1
      /\ \A i \in 1..Len(toReceiver) - 1 : toReceiver'[i] = toReceiver[i + 1]
      /\ Head(toReceiver) = toReceiver[1] /\ Head(toReceiver).type = t
  BY <1>1, TailElements DEF Received
<1>3. SentQuiet
  BY <1>2 DEF SentQuiet, ShareSent, OneShareSent
<1>4. t = "SendRequest" => ShareSent /\ (OneShareSent => ~ShareSent')
  BY <1>2 DEF ShareSent, OneShareSent
<1> QED
  BY <1>3, <1>4

\* A reply that is not the share's confirm is quiet; the confirm is the only one.
LEMMA ReplyShare ==
  ASSUME TypeOK, NEW m, Reply(m)
  PROVE  /\ m.kind # "share" => ReplyShareQuiet
         /\ ~ShareReplied => OneShareReply'
<1>1. CASE UNCHANGED toSender
  BY <1>1, SameShareQuiet DEF ShareReplied, OneShareReply
<1>2. CASE toSender' = Append(toSender, m)
  <2>1. toSender \in Seq(ToSenderMsg)
    BY DEF TypeOK
  <2>2. /\ Len(toSender') = Len(toSender) + 1
        /\ \A i \in 1..Len(toSender) : toSender'[i] = toSender[i]
        /\ toSender'[Len(toSender) + 1] = m
        /\ Len(toSender) \in Nat
    BY <1>2, <2>1, AppendElements
  <2> QED
    BY <2>2 DEF ReplyShareQuiet, ShareReplied, OneShareReply
<1> QED
  BY <1>1, <1>2 DEF Reply

\* The confirm that is taken from the link is under way no longer.
LEMMA TakeShareReply ==
  ASSUME TypeOK, NEW k, Arrived(k), toSender' = Tail(toSender)
  PROVE  /\ ReplyShareQuiet
         /\ k = "share" => ShareReplied /\ (OneShareReply => ~ShareReplied')
<1>1. toSender \in Seq(ToSenderMsg)
  BY DEF TypeOK
<1>2. /\ Len(toSender) \in Nat \ {0}
      /\ Len(toSender') = Len(toSender) - 1
      /\ \A i \in 1..Len(toSender) - 1 : toSender'[i] = toSender[i + 1]
      /\ Head(toSender) = toSender[1] /\ Head(toSender).kind = k
  BY <1>1, TailElements DEF Arrived
<1>3. ReplyShareQuiet
  BY <1>2 DEF ReplyShareQuiet, ShareReplied, OneShareReply
<1>4. k = "share" => ShareReplied /\ (OneShareReply => ~ShareReplied')
  BY <1>2 DEF ShareReplied, OneShareReply
<1> QED
  BY <1>3, <1>4

\* A connection that breaks only takes messages away.
LEMMA PrefixShare ==
  ASSUME TypeOK, LinkDown
  PROVE  SentQuiet /\ ReplyShareQuiet
<1>1. toReceiver \in Seq(ToReceiverMsg) /\ toSender \in Seq(ToSenderMsg)
  BY DEF TypeOK
<1>2. SentQuiet
  <2>1. PICK n \in 0..Len(toReceiver) : toReceiver' = SubSeq(toReceiver, 1, n)
    BY DEF LinkDown
  <2>2. /\ Len(toReceiver') = n
        /\ \A i \in 1..n : toReceiver'[i] = toReceiver[i]
        /\ n \in Nat /\ n <= Len(toReceiver) /\ Len(toReceiver) \in Nat
    BY <1>1, <2>1
  <2> QED
    BY <2>2 DEF SentQuiet, ShareSent, OneShareSent
<1>3. ReplyShareQuiet
  <2>1. PICK n \in 0..Len(toSender) : toSender' = SubSeq(toSender, 1, n)
    BY DEF LinkDown
  <2>2. /\ Len(toSender') = n
        /\ \A i \in 1..n : toSender'[i] = toSender[i]
        /\ n \in Nat /\ n <= Len(toSender) /\ Len(toSender) \in Nat
    BY <1>1, <2>1
  <2> QED
    BY <2>2 DEF ReplyShareQuiet, ShareReplied, OneShareReply
<1> QED
  BY <1>2, <1>3

-----------------------------------------------------------------------------
(* The turn of the share.                                                  *)

\* The sender's main loop.
LEMMA LoopShare ==
  ASSUME TurnInv, ShareTurn, SenderLoop
  PROVE  ShareTurn'
<1>0. TypeOK
  BY DEF TurnInv
<1>1. CASE Ready
  <2> DEFINE m == ToReceiver("SendRequest", 0, 0)
  <2>1. share = "ready" /\ share' = "asked" /\ UNCHANGED <<toSender, sf, task, prompts>>
        /\ Post(m)
    BY <1>1 DEF Ready
  <2>2. ~ShareSent /\ ~ShareQuestioned /\ ~ShareReplied /\ OneShareReply
    BY <2>1 DEF ShareTurn
  <2>3. OneShareSent' /\ AskedQuiet /\ ReplyShareQuiet
    BY <1>0, <2>1, <2>2, PostShare, SameShareQuiet
  <2> QED
    BY <2>1, <2>2, <2>3 DEF ShareTurn, AskedQuiet, ReplyShareQuiet
<1>2. CASE ShareAccepted \/ ShareRejected
  <2>1. /\ Arrived("share") /\ toSender' = Tail(toSender)
        /\ UNCHANGED <<task, prompts>>
        /\ share' = "accepted" \/ (share' = "rejected" /\ UNCHANGED sf)
        /\ UNCHANGED toReceiver \/ Post(ToReceiver("Done", 0, 0))
    BY <1>2 DEF ShareAccepted, ShareRejected
  <2>2. ReplyShareQuiet /\ ShareReplied /\ (OneShareReply => ~ShareReplied')
    BY <1>0, <2>1, TakeShareReply
  <2>3. SentQuiet /\ AskedQuiet
    BY <1>0, <2>1, PostShare, SameShareQuiet DEF ToReceiver
  <2> QED
    BY <2>1, <2>2, <2>3 DEF ShareTurn, SentQuiet, AskedQuiet, ReplyShareQuiet
<1>3. CASE EnqueueConfirm \/ DoneReplied
  <2>1. /\ \E k : Arrived(k)
        /\ toSender' = Tail(toSender)
        /\ UNCHANGED <<toReceiver, prompts, share, sf, task>>
    BY <1>3 DEF EnqueueConfirm, DoneReplied
  <2>2. ReplyShareQuiet
    BY <1>0, <2>1, TakeShareReply
  <2> QED
    BY <2>1, <2>2, SameShareQuiet, QuietShare
<1> QED
  BY <1>1, <1>2, <1>3 DEF SenderLoop

\* send_files, its dispatcher and its tasks run for an accepted share only.
LEMMA TasksShare ==
  ASSUME TurnInv, ShareTurn,
         SendFiles \/ Dispatcher \/ \E f \in Files : SendSingleFile(f) \/ TaskFails(f)
  PROVE  ShareTurn'
<1>0. TypeOK
  BY DEF TurnInv
<1>1. UNCHANGED <<toSender, prompts, share>>
  BY DEF SendFiles, NextFile, SpawnTask, JoinTasks, SendDone, Dispatcher,
     DispatcherStart, Dispatch, SendSingleFile, RequestFile, FileKept, FileResumed,
     FileAccepted, DirAccepted, ConfirmTimeout, SendBreakPoint, ReadChunk,
     StreamCancelled, SendChunk, SendFileDone, TaskFails
<1>2. UNCHANGED toReceiver \/ \E m : Post(m) /\ m.type # "SendRequest"
  <2>1. CASE SendFiles
    BY <2>1 DEF SendFiles, NextFile, SpawnTask, JoinTasks, SendDone, ToReceiver
  <2>2. CASE Dispatcher
    BY <2>2 DEF Dispatcher, DispatcherStart, Dispatch
  <2>3. ASSUME NEW f \in Files, SendSingleFile(f) \/ TaskFails(f)
        PROVE  UNCHANGED toReceiver \/ \E m : Post(m) /\ m.type # "SendRequest"
    BY <2>3 DEF SendSingleFile, RequestFile, FileKept, FileResumed,
       FileAccepted, DirAccepted, ConfirmTimeout, SendBreakPoint, ReadChunk,
       StreamCancelled, SendChunk, SendFileDone, TaskFails, ToReceiver
  <2> QED
    BY <2>1, <2>2, <2>3
<1>3. share # "accepted" => UNCHANGED <<sf, task>>
  <2> SUFFICES ASSUME share # "accepted"  PROVE UNCHANGED <<sf, task>>
    OBVIOUS
  <2>1. sf = "idle" /\ \A f \in Files : task[f] = "none"
    BY DEF ShareTurn
  <2> QED
    BY <2>1 DEF SendFiles, NextFile, SpawnTask, JoinTasks, SendDone, Dispatcher,
     DispatcherStart, Dispatch, SendSingleFile, RequestFile, FileKept, FileResumed,
     FileAccepted, DirAccepted, ConfirmTimeout, SendBreakPoint, ReadChunk,
     StreamCancelled, SendChunk, SendFileDone, TaskFails, Answered
<1>4. SentQuiet
  BY <1>0, <1>2, PostShare, SameShareQuiet
<1> QED
  BY <1>1, <1>3, <1>4, SameShareQuiet, QuietShare

\* The receiver.
LEMMA ReceiverShare ==
  ASSUME TurnInv, ShareTurn, ReceiverLoop \/ (\E f \in Files : RecvIoError(f))
  PROVE  ShareTurn'
<1>0. TypeOK
  BY DEF TurnInv
<1>1. CASE RecvSendRequest
  <2>1. /\ prompts' = prompts \cup {ShareQuestion}
        /\ Received("SendRequest") /\ UNCHANGED <<toSender, share, sf, task>>
    BY <1>1 DEF RecvSendRequest, ShareQuestion
  <2>2. SentQuiet /\ ShareSent /\ (OneShareSent => ~ShareSent') /\ ReplyShareQuiet
    BY <1>0, <2>1, TakeShare, SameShareQuiet
  <2> QED
    BY <2>1, <2>2 DEF ShareTurn, SentQuiet, ReplyShareQuiet
<1>2. CASE RecvDone
  <2>1. /\ Received("Done") /\ UNCHANGED <<prompts, share, sf, task>>
        /\ Reply([kind |-> "done", file |-> 0, accept |-> FALSE, n |-> 0])
    BY <1>2 DEF RecvDone
  <2>2. SentQuiet /\ ReplyShareQuiet
    BY <1>0, <2>1, TakeShare, ReplyShare
  <2> QED
    BY <2>1, <2>2, SameShareQuiet, QuietShare
<1>3. ASSUME NEW f \in Files,
             \/ RecvDirRequest(f) \/ RecvNewFile(f) \/ RecvExistingFile(f)
             \/ RecvBreakPoint(f) \/ RecvFileData(f) \/ RecvFileDone(f)
             \/ RecvIoError(f)
      PROVE  ShareTurn'
  <2>1. UNCHANGED <<share, sf, task>> /\ \E t : Received(t)
    BY <1>3 DEF RecvDirRequest, RecvNewFile, RecvExistingFile, RecvBreakPoint,
       RecvFileData, RecvFileDone, RecvIoError, ReceivedFile
  <2>2. SentQuiet
    BY <1>0, <2>1, TakeShare
  <2>3. UNCHANGED toSender \/ Reply(Accept(f))
    BY <1>3 DEF RecvDirRequest, RecvNewFile, RecvExistingFile, RecvBreakPoint,
       RecvFileData, RecvFileDone, RecvIoError
  <2>4. ReplyShareQuiet
    BY <1>0, <2>3, ReplyShare, SameShareQuiet DEF Accept, FileConfirm
  <2>5. AskedQuiet
    <3>1. CASE RecvExistingFile(f)
      BY <3>1 DEF RecvExistingFile, AskedQuiet, ShareQuestioned, ShareQuestion
    <3>2. CASE UNCHANGED prompts
      BY <3>2, SameShareQuiet
    <3> QED
      BY <1>3, <3>1, <3>2 DEF RecvDirRequest, RecvNewFile, RecvBreakPoint,
         RecvFileData, RecvFileDone, RecvIoError
  <2> QED
    BY <2>1, <2>2, <2>4, <2>5, QuietShare
<1> QED
  BY <1>1, <1>2, <1>3 DEF ReceiverLoop

\* Its user.
LEMMA UserShare ==
  ASSUME TurnInv, ShareTurn, User
  PROVE  ShareTurn'
<1>0. TypeOK
  BY DEF TurnInv
<1>1. ASSUME NEW a \in BOOLEAN, AnswerShare(a)  PROVE ShareTurn'
  <2>1. /\ ShareQuestioned /\ ~ShareQuestioned'
        /\ Reply([kind |-> "share", file |-> 0, accept |-> a, n |-> 0])
        /\ UNCHANGED <<toReceiver, share, sf, task>>
    BY <1>1 DEF AnswerShare, Asked, ShareQuestioned, ShareQuestion
  <2>2. ~ShareReplied /\ OneShareReply' /\ SentQuiet
    BY <1>0, <2>1, ReplyShare, SameShareQuiet DEF ShareTurn
  <2> QED
    BY <2>1, <2>2 DEF ShareTurn, SentQuiet
<1>2. ASSUME NEW f \in Files, AnswerFile(f)  PROVE ShareTurn'
  <2>1. UNCHANGED <<toReceiver, share, sf, task>> /\ prompts' \subseteq prompts
    BY <1>2 DEF AnswerFile, Overwrite, Keep, ResumeAt, Restart
  <2>2. \E m : Reply(m) /\ m.kind # "share"
    <3>1. ASSUME NEW k, NEW a, NEW n, Reply(FileConfirm(k, f, a, n)), k # "share"
          PROVE  \E m : Reply(m) /\ m.kind # "share"
      BY <3>1 DEF FileConfirm
    <3>2. CASE Overwrite(f) \/ Keep(f)
      BY <3>1, <3>2 DEF Overwrite, Keep, Accept
    <3>3. ASSUME NEW n, ResumeAt(f, n) \/ Restart(f, n)
          PROVE  \E m : Reply(m) /\ m.kind # "share"
      BY <3>1, <3>3 DEF ResumeAt, Restart
    <3> QED
      BY <1>2, <3>2, <3>3 DEF AnswerFile
  <2>3. ReplyShareQuiet /\ AskedQuiet
    BY <1>0, <2>1, <2>2, ReplyShare DEF AskedQuiet, ShareQuestioned
  <2> QED
    BY <2>1, <2>3, SameShareQuiet, QuietShare
<1> QED
  BY <1>1, <1>2 DEF User

\* Every step keeps the turn of the share.
LEMMA NextShare ==
  ASSUME TurnInv, ShareTurn, [Next]_vars
  PROVE  ShareTurn'
<1>1. CASE Cancel \/ Terminated \/ UNCHANGED vars
  <2>1. UNCHANGED <<toReceiver, toSender, prompts, share, sf, task>>
    BY <1>1 DEF Cancel, Terminated, vars
  <2> QED
    BY <2>1, SameShareQuiet, QuietShare
<1>2. CASE LinkDown
  <2>1. UNCHANGED <<prompts, share, sf, task>>
    BY <1>2 DEF LinkDown
  <2> QED
    BY <1>2, <2>1, PrefixShare, SameShareQuiet, QuietShare DEF TurnInv
<1> QED
  BY <1>1, <1>2, LoopShare, TasksShare, ReceiverShare, UserShare DEF Next, Failure

-----------------------------------------------------------------------------
(* What a step does to the consent of a file.                              *)

\* The user's choice stands, and no file vanishes from the disk.
ChoiceStands(g) == /\ old'[g] = old[g] /\ choice'[g] = choice[g]
                   /\ disk'[g] = NoFile => disk[g] = NoFile

\* If nothing new lets the sender stream g, its consent still covers it.
LEMMA StayConsent ==
  ASSUME NEW g \in Files, FileConsent(g), ChoiceStands(g),
         Granted(g)' => Granted(g),
         g \in finished' => task'[g] = "ok" /\ ~Streamed(g)'
  PROVE  FileConsent(g)'
  BY DEF FileConsent, ChoiceStands

\* So it is in a quiet step.
LEMMA QuietConsent ==
  ASSUME NEW g \in Files, FileConsent(g), ChoiceStands(g),
         LinkQuiet(g), ReplyQuiet(g), QueueQuiet(g),
         task'[g] = task[g], oneshot'[g] = oneshot[g],
         g \in finished' => g \in finished
  PROVE  FileConsent(g)'
<1>1. Granted(g)' => Granted(g)
  BY DEF Granted, LinkQuiet, ReplyQuiet, QueueQuiet, Streaming
<1>2. g \in finished' => task'[g] = "ok" /\ ~Streamed(g)'
  BY DEF FileConsent, LinkQuiet
<1> QED
  BY <1>1, <1>2, StayConsent

\* What is posted about another file, or is not about content, does not count.
LEMMA PostStreamed ==
  ASSUME TypeOK, NEW m, Post(m), NEW g, ~IsBody(m, g)
  PROVE  Streamed(g)' => Streamed(g)
<1>1. CASE UNCHANGED toReceiver
  BY <1>1 DEF Streamed
<1>2. CASE toReceiver' = Append(toReceiver, m)
  <2>1. toReceiver \in Seq(ToReceiverMsg)
    BY DEF TypeOK
  <2>2. /\ Len(toReceiver') = Len(toReceiver) + 1
        /\ \A i \in 1..Len(toReceiver) : toReceiver'[i] = toReceiver[i]
        /\ toReceiver'[Len(toReceiver) + 1] = m
        /\ Len(toReceiver) \in Nat
    BY <1>2, <2>1, AppendElements
  <2> QED
    BY <2>2 DEF Streamed
<1> QED
  BY <1>1, <1>2 DEF Post

\* How a task moves: it streams only what was granted to it.
TaskGoes(f) ==
  \E s : /\ task' = [task EXCEPT ![f] = s]
         /\ s \in {"point", "stream", "send"} =>
              Streaming(f) \/ Grant(oneshot[f], f)

\* It posts messages about its own file, and content only while it streams.
TaskPosts(f) ==
  \/ UNCHANGED toReceiver
  \/ \E m : Post(m) /\ m.file = f /\ (IsBody(m, f) => Streaming(f))

TaskMove(f) ==
  /\ UNCHANGED <<toSender, confirmQ>>
  /\ oneshot' \in {oneshot, [oneshot EXCEPT ![f] = None]}
  /\ task[f] # "ok"
  /\ TaskGoes(f) /\ TaskPosts(f)

\* Every step of a task is such a move.
LEMMA TaskMoves ==
  ASSUME TurnInv, NEW f \in Files, SendSingleFile(f) \/ TaskFails(f)
  PROVE  TaskMove(f)
<1>1. CASE RequestFile(f)
  <2> DEFINE q == ToReceiver("NewFileRequest", f, 0)
  <2>1. Post(q) /\ q.file = f /\ ~IsBody(q, f)
    BY <1>1 DEF RequestFile, ToReceiver, IsBody, Body
  <2> HIDE DEF q
  <2>2. TaskPosts(f)
    BY <2>1 DEF TaskPosts
  <2>3. TaskGoes(f)
    <3> DEFINE w == "wait"
    <3>1. task' = [task EXCEPT ![f] = w] /\ w \notin {"point", "stream", "send"}
      BY <1>1 DEF RequestFile
    <3> HIDE DEF w
    <3> QED
      BY <3>1 DEF TaskGoes
  <2> QED
    BY <1>1, <2>2, <2>3 DEF RequestFile, TaskMove
<1>2. CASE FileKept(f) \/ DirAccepted(f)
  BY <1>2 DEF FileKept, DirAccepted, End, Answered, TaskMove, TaskGoes, TaskPosts
<1>3. CASE FileResumed(f)
  <2>1. Confirmed(f) /\ oneshot[f].kind = "breakPoint"
    BY <1>3 DEF FileResumed, Answered, Confirmed
  <2>2. Grant(oneshot[f], f)
    BY <2>1, TurnInvFacts DEF Grant, FileTurn, ConfirmTurn
  <2> QED
    BY <1>3, <2>2 DEF FileResumed, Answered, TaskMove, TaskGoes, TaskPosts
<1>4. CASE FileAccepted(f)
  <2>1. /\ Confirmed(f) /\ f \notin EmptyDirs
        /\ oneshot[f].kind = "newFile" <=> oneshot[f].accept
    BY <1>4 DEF FileAccepted, Answered, Confirmed
  <2>2. IsConfirm(oneshot[f], f)
    BY <2>1, TurnInvFacts DEF FileTurn, ConfirmTurn
  <2>3. Grant(oneshot[f], f)
    BY <2>1, <2>2 DEF Grant, IsConfirm
  <2> QED
    BY <1>4, <2>3 DEF FileAccepted, Answered, TaskMove, TaskGoes, TaskPosts
<1>5. CASE ConfirmTimeout(f) \/ ReadChunk(f) \/ StreamCancelled(f) \/ TaskFails(f)
  BY <1>5 DEF ConfirmTimeout, ReadChunk, StreamCancelled, TaskFails, End,
     Streaming, TaskMove, TaskGoes, TaskPosts
<1>6. CASE SendBreakPoint(f)
  <2> DEFINE m == ToReceiver("BreakPoint", f, pos[f])
  <2>1. Post(m) /\ m.file = f
    BY <1>6 DEF SendBreakPoint, ToReceiver
  <2> HIDE DEF m
  <2> QED
    BY <1>6, <2>1 DEF SendBreakPoint, Streaming, TaskMove, TaskGoes, TaskPosts
<1>7. CASE SendChunk(f)
  <2> DEFINE m == ToReceiver("FileData", f, pos[f] + 1)
  <2>1. Post(m) /\ m.file = f
    BY <1>7 DEF SendChunk, ToReceiver
  <2> HIDE DEF m
  <2> QED
    BY <1>7, <2>1 DEF SendChunk, Streaming, TaskMove, TaskGoes, TaskPosts
<1>8. CASE SendFileDone(f)
  <2> DEFINE m == ToReceiver("FileDone", f, 0)
  <2>1. Post(m) /\ m.file = f
    BY <1>8 DEF SendFileDone, ToReceiver
  <2> HIDE DEF m
  <2> QED
    BY <1>8, <2>1 DEF SendFileDone, End, Streaming, TaskMove, TaskGoes, TaskPosts
<1> QED
  BY <1>1, <1>2, <1>3, <1>4, <1>5, <1>6, <1>7, <1>8 DEF SendSingleFile

\* A task streams on a grant it was given, and a finished file has no task.
LEMMA TaskConsent ==
  ASSUME TurnInv, NEW f \in Files, SendSingleFile(f) \/ TaskFails(f),
         NEW g \in Files, FileConsent(g)
  PROVE  FileConsent(g)'
<1>1. TaskMove(f)
  BY TaskMoves
<1>0. PICK s : /\ task' = [task EXCEPT ![f] = s]
               /\ s \in {"point", "stream", "send"} =>
                    Streaming(f) \/ Grant(oneshot[f], f)
  BY <1>1 DEF TaskMove, TaskGoes
<1>2. UNCHANGED <<old, choice, disk, finished>>
  BY DEF SendSingleFile, RequestFile, FileKept, FileResumed, FileAccepted,
     DirAccepted, ConfirmTimeout, SendBreakPoint, ReadChunk, StreamCancelled,
     SendChunk, SendFileDone, TaskFails
<1>3. GrantReplied(g)' => GrantReplied(g)
  BY <1>1, SameQuiet DEF TaskMove, ReplyQuiet
<1>4. GrantQueued(g)' => GrantQueued(g)
  BY <1>1, SameQuiet DEF TaskMove, QueueQuiet
<1>5. Grant(oneshot'[g], g) => Grant(oneshot[g], g)
  BY <1>1, TurnInvFacts, GrantConfirms DEF TaskMove
<1>6. Streaming(g)' => Streaming(g) \/ Grant(oneshot[g], g)
  <2>1. CASE g = f
    BY <1>0, <2>1, TurnInvFacts DEF Streaming
  <2>2. CASE g # f
    BY <1>0, <2>2, TurnInvFacts DEF Streaming
  <2> QED
    BY <2>1, <2>2
<1>7. Streamed(g)' => Streamed(g) \/ (g = f /\ Streaming(g))
  <2>1. CASE UNCHANGED toReceiver
    BY <2>1, SameQuiet DEF LinkQuiet
  <2>2. ASSUME NEW m, Post(m), m.file = f, IsBody(m, f) => Streaming(f)
        PROVE  Streamed(g)' => Streamed(g) \/ (g = f /\ Streaming(g))
    BY <2>2, PostStreamed, TurnInvFacts DEF IsBody
  <2> QED
    BY <1>1, <2>1, <2>2 DEF TaskMove, TaskPosts
<1>8. Granted(g)' => Granted(g)
  BY <1>3, <1>4, <1>5, <1>6, <1>7 DEF Granted
<1>9. g \in finished' => task'[g] = "ok" /\ ~Streamed(g)'
  <2> SUFFICES ASSUME g \in finished  PROVE task'[g] = "ok" /\ ~Streamed(g)'
    BY <1>2
  <2>1. task[g] = "ok" /\ ~Streamed(g)
    BY DEF FileConsent
  <2>2. g # f
    BY <1>1, <2>1 DEF TaskMove
  <2> QED
    BY <1>0, <1>7, <2>1, <2>2, TurnInvFacts
<1> QED
  BY <1>2, <1>8, <1>9, StayConsent DEF ChoiceStands

\* A confirm that moves to the channel, or on to its task, is no new grant.
LEMMA ConfirmConsent ==
  ASSUME TurnInv, EnqueueConfirm \/ Dispatch, NEW g \in Files, FileConsent(g)
  PROVE  FileConsent(g)'
<1>1. UNCHANGED <<toReceiver, task, old, choice, disk, finished>>
  BY DEF EnqueueConfirm, Dispatch
<1>2. LinkQuiet(g) /\ FileTurn(g)
  BY <1>1, SameQuiet, TurnInvFacts
<1>3. CASE EnqueueConfirm
  <2> DEFINE c == Head(toSender)
  <2>1. /\ GrantReplied(g)' => GrantReplied(g)
        /\ IsConfirm(c, g) => Replied(g)
        /\ Grant(c, g) => GrantReplied(g)
    BY <1>3, TakeReply, TurnInvFacts DEF EnqueueConfirm, Arrived, ReplyQuiet
  <2>2. /\ ~IsConfirm(c, g) => (GrantQueued(g)' => GrantQueued(g))
        /\ ~Queued(g) => (GrantQueued(g)' => Grant(c, g))
    BY <1>3, Enqueue, TurnInvFacts DEF EnqueueConfirm, QueueQuiet
  <2>3. GrantQueued(g)' => GrantQueued(g) \/ GrantReplied(g)
    BY <1>2, <2>1, <2>2 DEF FileTurn, ConfirmTurn
  <2>4. UNCHANGED oneshot
    BY <1>3 DEF EnqueueConfirm
  <2>5. Granted(g)' => Granted(g)
    BY <1>1, <1>2, <2>1, <2>3, <2>4 DEF Granted, LinkQuiet, Streaming
  <2> QED
    BY <1>1, <1>2, <2>5, StayConsent DEF ChoiceStands, FileConsent, LinkQuiet
<1>4. CASE Dispatch
  <2> DEFINE c == Head(confirmQ)
  <2>1. /\ GrantQueued(g)' => GrantQueued(g)
        /\ Grant(c, g) => GrantQueued(g)
    BY <1>4, Dequeue, TurnInvFacts DEF Dispatch, QueueQuiet
  <2>2. oneshot' \in {oneshot, [oneshot EXCEPT ![c.file] = c]}
    BY <1>4 DEF Dispatch
  <2>3. oneshot'[g] \in {oneshot[g], c}
    BY <2>2, TurnInvFacts
  <2>4. GrantReplied(g)' => GrantReplied(g)
    BY <1>4, SameQuiet DEF Dispatch, ReplyQuiet
  <2> HIDE DEF c
  <2>5. Granted(g)' => Granted(g)
    BY <1>1, <1>2, <2>1, <2>3, <2>4 DEF Granted, LinkQuiet, Streaming
  <2> QED
    BY <1>1, <1>2, <2>5, StayConsent DEF ChoiceStands, FileConsent, LinkQuiet
<1> QED
  BY <1>3, <1>4

\* Nothing else the sender does concerns consent.
LEMMA SenderConsent ==
  ASSUME TurnInv, SenderLoop \/ SendFiles \/ Dispatcher,
         NEW g \in Files, FileConsent(g)
  PROVE  FileConsent(g)'
<1>1. CASE EnqueueConfirm \/ Dispatch
  BY <1>1, ConfirmConsent
<1>2. CASE SpawnTask
  <2>1. /\ UNCHANGED <<toReceiver, toSender, confirmQ, oneshot, old, choice,
                       disk, finished>>
        /\ task' = [task EXCEPT ![nextFile] = "start"]
    BY <1>2 DEF SpawnTask
  <2>2. task[nextFile] = "none"
    <3>1. nextFile \in Files
      BY <1>2 DEF TurnInv, TypeOK, SpawnTask
    <3> QED
      BY <3>1 DEF TurnInv, Unspawned, Files
  <2>3. LinkQuiet(g) /\ ReplyQuiet(g) /\ QueueQuiet(g)
    BY <2>1, SameQuiet
  <2>4. Granted(g)' => Granted(g)
    BY <2>1, <2>3, TurnInvFacts
       DEF Granted, LinkQuiet, ReplyQuiet, QueueQuiet, Streaming
  <2>5. g \in finished' => task'[g] = "ok" /\ ~Streamed(g)'
    BY <2>1, <2>2, <2>3, TurnInvFacts DEF FileConsent, LinkQuiet
  <2> QED
    BY <2>1, <2>4, <2>5, StayConsent DEF ChoiceStands
<1>3. ASSUME \/ Ready \/ ShareAccepted \/ ShareRejected \/ DoneReplied
             \/ NextFile \/ JoinTasks \/ SendDone \/ DispatcherStart
      PROVE  FileConsent(g)'
  <2>1. UNCHANGED <<confirmQ, task, oneshot, old, choice, disk, finished>>
    BY <1>3 DEF Ready, ShareAccepted, ShareRejected, DoneReplied, NextFile,
       JoinTasks, SendDone, DispatcherStart
  <2>2. UNCHANGED toSender \/ (toSender # <<>> /\ toSender' = Tail(toSender))
    BY <1>3 DEF Ready, ShareAccepted, ShareRejected, DoneReplied, Arrived,
       NextFile, JoinTasks, SendDone, DispatcherStart
  <2>3. \/ UNCHANGED toReceiver
        \/ Post(ToReceiver("SendRequest", 0, 0))
        \/ Post(ToReceiver("Done", 0, 0))
    BY <1>3 DEF Ready, ShareAccepted, ShareRejected, DoneReplied, NextFile,
       JoinTasks, SendDone, DispatcherStart
  <2>4. ASSUME NEW t \in {"SendRequest", "Done"}
        PROVE  ~IsRequest(ToReceiver(t, 0, 0), g) /\ ~IsBody(ToReceiver(t, 0, 0), g)
    BY DEF ToReceiver, IsRequest, IsBody, Body
  <2>5. LinkQuiet(g)
    BY <2>3, <2>4, PostQuiet, SameQuiet, TurnInvFacts
  <2>6. ReplyQuiet(g) /\ QueueQuiet(g)
    BY <2>1, <2>2, TakeReply, SameQuiet, TurnInvFacts
  <2> QED
    BY <2>1, <2>5, <2>6, QuietConsent DEF ChoiceStands
<1> QED
  BY <1>1, <1>2, <1>3 DEF SenderLoop, SendFiles, Dispatcher

\* A message about one file touches the consent of no other.
LEMMA OtherConsent ==
  ASSUME TurnInv, NEW f \in Files,
         \/ RecvDirRequest(f) \/ RecvNewFile(f) \/ RecvExistingFile(f)
         \/ RecvBreakPoint(f) \/ RecvFileData(f) \/ RecvFileDone(f)
         \/ RecvIoError(f) \/ AnswerFile(f),
         NEW g \in Files, g # f, FileConsent(g)
  PROVE  FileConsent(g)'
<1>1. /\ UNCHANGED <<confirmQ, task, oneshot, old>>
      /\ finished' \subseteq finished \cup {f}
  BY DEF RecvDirRequest, RecvNewFile, RecvExistingFile, RecvBreakPoint,
     RecvFileData, RecvFileDone, RecvIoError, AnswerFile, Overwrite, Keep,
     ResumeAt, Restart
<1>2. choice'[g] = choice[g]
  <2>1. \E c : choice' \in {choice, [choice EXCEPT ![f] = c]}
    BY DEF RecvDirRequest, RecvNewFile, RecvExistingFile, RecvBreakPoint,
       RecvFileData, RecvFileDone, RecvIoError, AnswerFile, Overwrite, Keep,
       ResumeAt, Restart
  <2> QED
    BY <2>1 DEF TurnInv, TypeOK
<1>3. disk'[g] = disk[g]
  <2>1. \E d : disk' \in {disk, [disk EXCEPT ![f] = d]}
    BY DEF RecvDirRequest, RecvNewFile, RecvExistingFile, RecvBreakPoint,
       RecvFileData, RecvFileDone, RecvIoError, AnswerFile, Overwrite, Keep,
       ResumeAt, Restart
  <2> QED
    BY <2>1 DEF TurnInv, TypeOK
<1>4. LinkQuiet(g)
  <2>1. UNCHANGED toReceiver \/ \E t : Received(t)
    BY DEF RecvDirRequest, RecvNewFile, RecvExistingFile, RecvBreakPoint,
       RecvFileData, RecvFileDone, RecvIoError, ReceivedFile, AnswerFile,
       Overwrite, Keep, ResumeAt, Restart
  <2> QED
    BY <2>1, TakeQuiet, SameQuiet, TurnInvFacts
<1>5. ReplyQuiet(g)
  <2>1. ASSUME NEW k, NEW a, NEW n, Reply(FileConfirm(k, f, a, n))
        PROVE  ReplyQuiet(g)
    <3>1. ~IsConfirm(FileConfirm(k, f, a, n), g)
      BY DEF FileConfirm, IsConfirm
    <3> QED
      BY <2>1, <3>1, ReplyOther, TurnInvFacts
  <2>2. CASE RecvDirRequest(f) \/ RecvNewFile(f) \/ Overwrite(f) \/ Keep(f)
    BY <2>1, <2>2 DEF RecvDirRequest, RecvNewFile, Overwrite, Keep, Accept
  <2>3. ASSUME NEW n, ResumeAt(f, n) \/ Restart(f, n)  PROVE ReplyQuiet(g)
    BY <2>1, <2>3 DEF ResumeAt, Restart
  <2>4. CASE \/ RecvExistingFile(f) \/ RecvBreakPoint(f) \/ RecvFileData(f)
             \/ RecvFileDone(f) \/ RecvIoError(f)
    BY <2>4, SameQuiet DEF RecvExistingFile, RecvBreakPoint, RecvFileData,
       RecvFileDone, RecvIoError
  <2> QED
    BY <2>2, <2>3, <2>4 DEF AnswerFile
<1> QED
  BY <1>1, <1>2, <1>3, <1>4, <1>5, SameQuiet, QuietConsent DEF ChoiceStands

\* The first answer to a request: the only grant there can be is the confirm.
LEMMA AnswerConsent ==
  ASSUME TurnInv, NEW f \in Files, NEW m, Reply(m),
         UNCHANGED <<task, oneshot, confirmQ, old, finished>>,
         Unanswered(f), ~Streamed(f), ~Replied(f), ~Queued(f), ~Confirmed(f),
         Streamed(f)' => Streamed(f), FileConsent(f),
         disk'[f] = NoFile => disk[f] = NoFile,
         Grant(m, f) /\ old[f] # NoFile => choice'[f] \in Consents
  PROVE  FileConsent(f)'
<1>1. ~Streaming(f)' /\ f \notin finished'
  BY DEF Unanswered, Streaming, FileConsent
<1>2. GrantReplied(f)' => Grant(m, f)
  BY ReplyConfirm, TurnInvFacts
<1>3. ~GrantQueued(f)' /\ ~Grant(oneshot[f], f)
  BY SameQuiet, GrantConfirms DEF QueueQuiet, Confirmed
<1> QED
  BY <1>1, <1>2, <1>3 DEF FileConsent, Granted

\* A message about f.
LEMMA MessageConsent ==
  ASSUME TurnInv, TypeOK', NEW f \in Files,
         \/ RecvDirRequest(f) \/ RecvNewFile(f) \/ RecvExistingFile(f)
         \/ RecvBreakPoint(f) \/ RecvFileData(f) \/ RecvFileDone(f)
         \/ RecvIoError(f),
         FileConsent(f)
  PROVE  FileConsent(f)'
<1>1. CASE RecvDirRequest(f) \/ RecvNewFile(f)
  <2> DEFINE m == Accept(f)
  <2>1. /\ ReceivedFile("NewFileRequest", f) /\ Reply(m)
        /\ UNCHANGED <<task, oneshot, confirmQ, old, finished>>
    BY <1>1 DEF RecvDirRequest, RecvNewFile
  <2>2. /\ Unanswered(f) /\ ~Streamed(f) /\ ~Replied(f) /\ ~Queued(f)
        /\ ~Confirmed(f) /\ (Streamed(f)' => Streamed(f))
    BY <2>1, HeadRequest
  <2>3. disk'[f] = NoFile => disk[f] = NoFile
    BY <1>1 DEF RecvDirRequest, RecvNewFile
  <2>4. Grant(m, f) => old[f] = NoFile
    <3>1. CASE RecvDirRequest(f)
      BY <3>1 DEF RecvDirRequest, Grant, Accept, FileConfirm
    <3>2. CASE RecvNewFile(f)
      BY <3>2 DEF RecvNewFile, FileConsent
    <3> QED
      BY <1>1, <3>1, <3>2
  <2> HIDE DEF m
  <2> QED
    BY <2>1, <2>2, <2>3, <2>4, AnswerConsent
<1>2. CASE \/ RecvExistingFile(f) \/ RecvBreakPoint(f) \/ RecvFileData(f)
           \/ RecvIoError(f)
  <2>1. /\ UNCHANGED <<toSender, confirmQ, task, oneshot, old, choice, finished>>
        /\ \E t : Received(t)
    BY <1>2 DEF RecvExistingFile, RecvBreakPoint, RecvFileData, RecvIoError,
       ReceivedFile
  <2>2. disk'[f] = NoFile => disk[f] = NoFile
    <3>1. CASE UNCHANGED disk
      BY <3>1
    <3>2. CASE RecvFileData(f)
      BY <3>1, <3>2 DEF RecvFileData, TypeOK
    <3> QED
      BY <1>2, <3>1, <3>2 DEF RecvExistingFile, RecvBreakPoint, RecvIoError
  <2>3. LinkQuiet(f) /\ ReplyQuiet(f) /\ QueueQuiet(f)
    BY <2>1, TakeQuiet, SameQuiet, TurnInvFacts
  <2> QED
    BY <2>1, <2>2, <2>3, QuietConsent DEF ChoiceStands
<1>3. CASE RecvFileDone(f)
  <2>1. /\ ReceivedFile("FileDone", f)
        /\ UNCHANGED <<toSender, confirmQ, task, oneshot, old, choice, disk>>
    BY <1>3 DEF RecvFileDone
  <2>2. IsDone(Head(toReceiver), f)
    BY <2>1 DEF ReceivedFile, Received, IsDone
  <2>3. LinkQuiet(f) /\ DoneSent(f) /\ ~Streamed(f)' /\ task[f] = "ok"
    BY <2>1, <2>2, TakeQuiet, TurnInvFacts DEF ReceivedFile, FileTurn, StreamTurn
  <2>4. Granted(f)' => Granted(f)
    BY <2>1, <2>3, SameQuiet
       DEF Granted, ReplyQuiet, QueueQuiet, Streaming
  <2> QED
    BY <2>1, <2>3, <2>4, StayConsent DEF ChoiceStands
<1> QED
  BY <1>1, <1>2, <1>3

\* An answer about f: "keep" grants nothing, and the others are consents.
LEMMA ChoiceConsent ==
  ASSUME TurnInv, TypeOK', NEW f \in Files, AnswerFile(f), FileConsent(f)
  PROVE  FileConsent(f)'
<1>1. /\ UNCHANGED <<toReceiver, task, oneshot, confirmQ, old, finished>>
      /\ Questioned(f)
  BY DEF AnswerFile, Overwrite, Keep, ResumeAt, Restart, Asked, Duplicate,
     Questioned, IsQuestion
<1>2. /\ Unanswered(f) /\ ~Streamed(f) /\ ~Replied(f) /\ ~Queued(f)
      /\ ~Confirmed(f) /\ (Streamed(f)' => Streamed(f))
  BY <1>1, SameQuiet, TurnInvFacts DEF FileTurn, QuestionTurn, LinkQuiet
<1>3. choice \in [Files -> {"none", "create", "overwrite", "keep", "resume",
                            "restart"}]
  BY DEF TurnInv, TypeOK
<1>4. CASE Overwrite(f)
  <2>1. Reply(Accept(f)) /\ UNCHANGED disk /\ choice'[f] \in Consents
    BY <1>3, <1>4 DEF Overwrite, Consents
  <2> QED
    BY <1>1, <1>2, <2>1, AnswerConsent
<1>5. CASE Keep(f)
  <2> DEFINE m == FileConfirm("newFile", f, FALSE, 0)
  <2>1. Reply(m) /\ UNCHANGED disk /\ ~Grant(m, f)
    BY <1>5 DEF Keep, FileConfirm, Grant
  <2> HIDE DEF m
  <2> QED
    BY <1>1, <1>2, <2>1, AnswerConsent
<1>6. ASSUME NEW n, ResumeAt(f, n)  PROVE FileConsent(f)'
  <2>1. /\ Reply(FileConfirm("breakPoint", f, TRUE, n)) /\ UNCHANGED disk
        /\ choice'[f] \in Consents
    BY <1>3, <1>6 DEF ResumeAt, Consents
  <2> QED
    BY <1>1, <1>2, <2>1, AnswerConsent
<1>7. ASSUME NEW n, Restart(f, n)  PROVE FileConsent(f)'
  <2>1. /\ Reply(FileConfirm("breakPoint", f, FALSE, 0))
        /\ choice'[f] \in Consents /\ UNCHANGED recvFiles
        /\ UNCHANGED disk \/ f \in recvFiles
    BY <1>3, <1>7 DEF Restart, Consents
  <2>2. disk'[f] = NoFile => disk[f] = NoFile
    BY <2>1 DEF TypeOK
  <2> QED
    BY <1>1, <1>2, <2>1, <2>2, AnswerConsent
<1> QED
  BY <1>4, <1>5, <1>6, <1>7 DEF AnswerFile

\* The messages and the answer that name no file.
LEMMA ShareConsent ==
  ASSUME TurnInv, NEW g \in Files, FileConsent(g),
         \/ RecvSendRequest \/ RecvDone \/ (\E a \in BOOLEAN : AnswerShare(a))
  PROVE  FileConsent(g)'
<1>1. /\ UNCHANGED <<confirmQ, task, oneshot, old, choice, disk, finished>>
      /\ UNCHANGED toReceiver \/ \E t : Received(t)
  BY DEF RecvSendRequest, RecvDone, AnswerShare
<1>2. LinkQuiet(g) /\ QueueQuiet(g)
  BY <1>1, TakeQuiet, SameQuiet, TurnInvFacts
<1>3. ReplyQuiet(g)
  <2>1. ASSUME NEW k \in {"share", "done"}, NEW a,
               Reply([kind |-> k, file |-> 0, accept |-> a, n |-> 0])
        PROVE  ReplyQuiet(g)
    <3> DEFINE m == [kind |-> k, file |-> 0, accept |-> a, n |-> 0]
    <3>1. Reply(m) /\ ~IsConfirm(m, g)
      BY <2>1 DEF IsConfirm
    <3> QED
      BY <3>1, ReplyOther, TurnInvFacts
  <2> QED
    BY <2>1, SameQuiet DEF RecvSendRequest, RecvDone, AnswerShare
<1> QED
  BY <1>1, <1>2, <1>3, QuietConsent DEF ChoiceStands

-----------------------------------------------------------------------------
(* The theorem.                                                            *)

\* Initially nothing is granted.
LEMMA InitConsent == Init => ConsentInv
<1> SUFFICES ASSUME Init  PROVE ConsentInv
  OBVIOUS
<1>1. TurnInv
  BY InitTurn
<1>2. /\ toReceiver = <<>> /\ toSender = <<>> /\ confirmQ = <<>> /\ prompts = {}
      /\ share = "ready" /\ sf = "idle" /\ old = disk /\ finished = {}
      /\ \A f \in Files : task[f] = "none" /\ oneshot[f] = None
  BY DEF Init
<1>3. ShareTurn
  BY <1>2 DEF ShareTurn, ShareSent, OneShareSent, ShareQuestioned,
     ShareReplied, OneShareReply
<1>4. ASSUME NEW f \in Files  PROVE FileConsent(f)
  <2>1. ~GrantReplied(f) /\ ~GrantQueued(f) /\ ~Streamed(f) /\ ~Streaming(f)
    BY <1>2 DEF GrantReplied, GrantQueued, Streamed, Streaming
  <2> QED
    BY <1>2, <2>1, GrantConfirms DEF FileConsent, Granted
<1> QED
  BY <1>1, <1>3, <1>4 DEF ConsentInv

\* Every step keeps the consents.
LEMMA NextConsent == ConsentInv /\ [Next]_vars => ConsentInv'
<1> SUFFICES ASSUME ConsentInv, [Next]_vars  PROVE ConsentInv'
  OBVIOUS
<1>1. TurnInv /\ TurnInv' /\ TypeOK' /\ ShareTurn'
  BY NextTurn, NextShare DEF ConsentInv, TurnInv
<1>2. ASSUME NEW g \in Files  PROVE FileConsent(g)'
  <2>1. FileConsent(g)
    BY DEF ConsentInv
  <2>2. CASE Cancel \/ LinkDown \/ Terminated \/ UNCHANGED vars
    <3>1. UNCHANGED <<confirmQ, task, oneshot, old, choice, disk, finished>>
      BY <2>2 DEF Cancel, LinkDown, Terminated, vars
    <3>2. LinkQuiet(g) /\ ReplyQuiet(g)
      <4>1. CASE LinkDown
        BY <1>1, <4>1, PrefixQuiet, TurnInvFacts
      <4>2. CASE UNCHANGED <<toReceiver, toSender>>
        BY <4>2, SameQuiet
      <4> QED
        BY <2>2, <4>1, <4>2 DEF Cancel, Terminated, vars
    <3> QED
      BY <2>1, <3>1, <3>2, SameQuiet, QuietConsent DEF ChoiceStands
  <2>3. ASSUME NEW f \in Files,
               \/ RecvDirRequest(f) \/ RecvNewFile(f) \/ RecvExistingFile(f)
               \/ RecvBreakPoint(f) \/ RecvFileData(f) \/ RecvFileDone(f)
               \/ RecvIoError(f)
        PROVE  FileConsent(g)'
    BY <1>1, <2>1, <2>3, MessageConsent, OtherConsent
  <2>4. ASSUME NEW f \in Files, AnswerFile(f)  PROVE FileConsent(g)'
    BY <1>1, <2>1, <2>4, ChoiceConsent, OtherConsent
  <2>5. ASSUME RecvSendRequest \/ RecvDone \/ (\E a \in BOOLEAN : AnswerShare(a))
        PROVE  FileConsent(g)'
    BY <1>1, <2>1, <2>5, ShareConsent
  <2>6. ASSUME NEW f \in Files, SendSingleFile(f) \/ TaskFails(f)
        PROVE  FileConsent(g)'
    BY <1>1, <2>1, <2>6, TaskConsent
  <2>7. ASSUME SenderLoop \/ SendFiles \/ Dispatcher  PROVE FileConsent(g)'
    BY <1>1, <2>1, <2>7, SenderConsent
  <2> QED
    BY <2>2, <2>3, <2>4, <2>5, <2>6, <2>7 DEF Next, ReceiverLoop, User, Failure
<1> QED
  BY <1>1, <1>2 DEF ConsentInv

\* Whoever writes to f holds a consent: its request was never answered before,
\* or what it writes was granted.
LEMMA StepConsented ==
  ASSUME ConsentInv, [Next]_vars, NEW f \in Files, disk'[f] # disk[f]
  PROVE  /\ old[f] # NoFile => choice'[f] \in Consents
         /\ f \notin finished
         /\ share = "accepted"
<1>1. TurnInv /\ ShareTurn /\ FileConsent(f) /\ FileTurn(f)
  BY TurnInvFacts DEF ConsentInv
<1>2. \/ RecvNewFile(f) \/ RecvFileData(f)
      \/ \E n \in 0..Len(Source[f]) : Restart(f, n)
  <2>1. ASSUME NEW g \in Files, RecvNewFile(g) \/ RecvFileData(g)
        PROVE  g = f
    BY <1>1, <2>1 DEF RecvNewFile, RecvFileData, TurnInv, TypeOK
  <2>2. ASSUME NEW g \in Files, NEW n, Restart(g, n)  PROVE g = f
    BY <1>1, <2>2 DEF Restart, TurnInv, TypeOK
  <2>3. ~UNCHANGED disk
    OBVIOUS
  <2>4. ~(SenderLoop \/ SendFiles \/ Dispatcher)
    BY <2>3 DEF SenderLoop, Ready, ShareAccepted, ShareRejected,
       EnqueueConfirm, DoneReplied, SendFiles, NextFile, SpawnTask, JoinTasks,
       SendDone, Dispatcher, DispatcherStart, Dispatch
  <2>5. ASSUME NEW g \in Files, SendSingleFile(g) \/ TaskFails(g)  PROVE FALSE
    BY <2>3, <2>5 DEF SendSingleFile, RequestFile, FileKept, FileResumed,
       FileAccepted, DirAccepted, ConfirmTimeout, SendBreakPoint, ReadChunk,
       StreamCancelled, SendChunk, SendFileDone, TaskFails
  <2>6. ~(RecvSendRequest \/ RecvDone \/ Cancel \/ LinkDown \/ Terminated
          \/ UNCHANGED vars \/ (\E a \in BOOLEAN : AnswerShare(a)))
    BY <2>3 DEF RecvSendRequest, RecvDone, Cancel, LinkDown, Terminated, vars,
       AnswerShare
  <2>7. ASSUME NEW g \in Files,
               \/ RecvDirRequest(g) \/ RecvExistingFile(g) \/ RecvBreakPoint(g)
               \/ RecvFileDone(g) \/ RecvIoError(g) \/ Overwrite(g) \/ Keep(g)
               \/ \E n \in 0..Len(Source[g]) : ResumeAt(g, n)
        PROVE  FALSE
    BY <2>3, <2>7 DEF RecvDirRequest, RecvExistingFile, RecvBreakPoint,
       RecvFileDone, RecvIoError, Overwrite, Keep, ResumeAt
  <2> QED
    BY <2>1, <2>2, <2>4, <2>5, <2>6, <2>7
       DEF Next, ReceiverLoop, User, AnswerFile, Failure
<1>3. task[f] # "none" => share = "accepted"
  BY <1>1 DEF ShareTurn
<1>4. CASE RecvNewFile(f)
  <2>1. disk[f] = NoFile /\ ReceivedFile("NewFileRequest", f)
    BY <1>4 DEF RecvNewFile
  <2>2. Unanswered(f)
    BY <1>1, <2>1, HeadRequest
  <2> QED
    BY <1>1, <1>3, <2>1, <2>2 DEF FileConsent, Unanswered
<1>5. CASE RecvFileData(f)
  <2>1. ReceivedFile("FileData", f) /\ UNCHANGED choice
    BY <1>5 DEF RecvFileData
  <2>2. IsBody(Head(toReceiver), f)
    BY <2>1 DEF ReceivedFile, Received, IsBody, Body
  <2>3. Streamed(f)
    BY <1>1, <2>1, <2>2, TakeQuiet, TurnInvFacts DEF ReceivedFile
  <2>4. task[f] # "none"
    BY <1>1, <2>3 DEF FileTurn, UnaskedTurn
  <2> QED
    BY <1>1, <1>3, <2>1, <2>3, <2>4 DEF FileConsent, Granted
<1>6. ASSUME NEW n, Restart(f, n)
      PROVE  choice'[f] = "restart" /\ f \notin finished /\ share = "accepted"
  <2>1. Questioned(f) /\ choice' = [choice EXCEPT ![f] = "restart"]
    BY <1>6 DEF Restart, Asked, Questioned, IsQuestion
  <2>2. Unanswered(f) /\ choice'[f] = "restart"
    BY <1>1, <2>1 DEF FileTurn, QuestionTurn, TurnInv, TypeOK
  <2> QED
    BY <1>1, <1>3, <2>2 DEF FileConsent, Unanswered
<1> QED
  BY <1>2, <1>4, <1>5, <1>6 DEF Consents

\* For any number of files, tasks and messages under way: without the user's
\* consent no existing file changes, a file that was kept or is finished is not
\* touched again, and nothing is written to a refused share.
THEOREM WritesAreConsented == Spec => ConsentedWrites
<1>1. ConsentInv /\ [Next]_vars =>
        [\A f \in Files : disk'[f] # disk[f] =>
           /\ old[f] # NoFile => choice'[f] \in {"overwrite", "resume", "restart"}
           /\ f \notin finished
           /\ share = "accepted"]_vars
  BY StepConsented DEF Consents
<1> QED
  BY <1>1, InitConsent, NextConsent, PTL DEF Spec, ConsentedWrites

-----------------------------------------------------------------------------
(* What is under way about the content of a file f, in a link q: chunks    *)
(* behind position p, in order, none missing and none twice.               *)

IsData(m, f)  == m.type = "FileData" /\ m.file = f
IsPoint(m, f) == m.type = "BreakPoint" /\ m.file = f

\* The chunks from p + 1 to k are in the first i messages of q.
Carries(q, f, p, k, i) ==
  \A c \in (p + 1)..k : \E j \in 1..i : IsData(q[j], f) /\ q[j].n = c

Flow(q, f, p) ==
  /\ \A i \in 1..Len(q) :
       /\ IsData(q[i], f) => p < q[i].n /\ Carries(q, f, p, q[i].n, i)
       /\ IsDone(q[i], f) => Carries(q, f, p, Len(Source[f]), i)
  /\ \A i, j \in 1..Len(q) :
       IsData(q[i], f) /\ IsData(q[j], f) /\ q[i].n = q[j].n => i = j

\* No chunk beyond position k is under way.
UpTo(q, f, k) == \A i \in 1..Len(q) : IsData(q[i], f) => q[i].n <= k

\* A BreakPoint with position n comes before everything else about f.
PointFirst(q, f, n) ==
  \A i \in 1..Len(q) : IsPoint(q[i], f) =>
    /\ q[i].n = n
    /\ \A j \in 1..Len(q) : IsBody(q[j], f) => i <= j

\* Everything about f comes after a BreakPoint.
AfterPoint(q, f) ==
  \A j \in 1..Len(q) : IsBody(q[j], f) => \E i \in 1..j : IsPoint(q[i], f)
HasPoint(q, f) == \E i \in 1..Len(q) : IsPoint(q[i], f)

-----------------------------------------------------------------------------
(* The invariant, for each file.                                           *)

Copying == {"create", "overwrite", "resume", "restart"}

\* Saved(f): the chunks of an interrupted transfer that a resumed one keeps.
Saved(f) == SavedChunks(old[f])

\* The BreakPoint has not arrived yet.
Resumes(f) == choice[f] = "resume" /\ recvPos[f] < Saved(f)

\* Until the receiver has decided, its disk is as it was, and nobody may stream.
Undecided(f) ==
  /\ choice[f] \in {"none", "keep"} =>
       /\ disk[f] = old[f] /\ recvPos[f] = 0
       /\ ~Streaming(f) /\ ~Streamed(f)
  /\ task[f] \in {"none", "start"} \/ Requested(f) \/ Questioned(f) =>
       choice[f] = "none"

\* A question to resume is about the saved chunks of the old file.
Questions(f) ==
  \A p \in prompts : p.kind = "breakPoint" /\ p.file = f =>
    AtBreakPoint(old[f], Source[f]) /\ p.n = Saved(f)

\* A confirm under way says what the receiver chose, before anything was
\* received.
Says(c, f) ==
  /\ recvPos[f] = 0
  /\ c.kind = "newFile" =>
       choice[f] \in (IF c.accept THEN {"create", "overwrite"} ELSE {"keep"})
  /\ c.kind = "breakPoint" =>
       IF c.accept THEN choice[f] = "resume" /\ c.n = Saved(f)
                   ELSE choice[f] = "restart"
Words(f) ==
  {c \in Confirm : /\ c.file = f
                   /\ \/ \E i \in 1..Len(toSender) : toSender[i] = c
                      \/ \E i \in 1..Len(confirmQ) : confirmQ[i] = c
                      \/ oneshot[f] = c}
Confirms(f) == \A c \in Words(f) : Says(c, f)

\* A task streams from behind what the receiver has.
Streams(f) ==
  /\ Streaming(f) => CopyPosition(f) <= pos[f] /\ pos[f] <= Len(Source[f])
  /\ task[f] = "point" =>
       /\ choice[f] = "resume" /\ pos[f] = Saved(f) /\ recvPos[f] = 0
       /\ ~Streamed(f)

\* The states of a task that has begun to stream.
Reads == {"stream", "send"}

\* While the receiver runs, the link carries what it still has to get.
Carried(f) ==
  /\ Flow(toReceiver, f, CopyPosition(f))
  /\ Streaming(f) => UpTo(toReceiver, f, pos[f])
  /\ PointFirst(toReceiver, f, Saved(f))
  /\ HasPoint(toReceiver, f) => Resumes(f)
  /\ Resumes(f) => AfterPoint(toReceiver, f)
  /\ up /\ task[f] \in Reads =>
       /\ Carries(toReceiver, f, CopyPosition(f), pos[f], Len(toReceiver))
       /\ Resumes(f) => HasPoint(toReceiver, f)

\* What the disk holds: the old chunks or none, and the sender's over them.
Base(f) == IF choice[f] \in {"overwrite", "resume"} THEN old[f] ELSE <<>>
From(f) == IF choice[f] = "resume" THEN Saved(f) ELSE 0
Larger(a, b) == IF a < b THEN b ELSE a
Copied(f) ==
  choice[f] \in Copying /\ f \notin EmptyDirs =>
    /\ disk[f] # NoFile
    /\ From(f) <= CopyPosition(f) /\ CopyPosition(f) <= Len(Source[f])
    /\ Len(disk[f]) = Larger(Len(Base(f)), CopyPosition(f))
    /\ \A i \in 1..Len(disk[f]) :
         disk[f][i] = IF From(f) < i /\ i <= CopyPosition(f)
                        THEN Source[f][i] ELSE Base(f)[i]

\* What can be chosen.
Chosen(f) ==
  /\ f \in EmptyDirs => choice[f] \in {"none", "create"}
  /\ choice[f] \in {"overwrite", "resume"} => old[f] # NoFile
  /\ choice[f] = "resume" => AtBreakPoint(old[f], Source[f])

\* An open file is neither a directory nor kept nor finished, and a finished one
\* was copied to its end.
Places(f) ==
  /\ f \in recvFiles => f \notin EmptyDirs \cup finished /\ choice[f] # "keep"
  /\ f \in finished => /\ f \notin EmptyDirs /\ choice[f] \in Copying
                       /\ CopyPosition(f) = Len(Source[f])

FileCopied(f) ==
  /\ Undecided(f) /\ Questions(f) /\ Confirms(f) /\ Streams(f)
  /\ rstate = "run" => Carried(f)
  /\ Chosen(f) /\ Copied(f) /\ Places(f)

CopyInv == ConsentInv /\ \A f \in Files : FileCopied(f)
-----------------------------------------------------------------------------
(* What a message added to a link, or taken from it, does to the content   *)
(* of a file in it.                                                        *)

USE DEF Body

\* Everything that is known of the content of f in link r follows from the same
\* of link q.
Keeps(q, r, f, p) ==
  /\ Flow(q, f, p) => Flow(r, f, p)
  /\ \A k \in Nat : UpTo(q, f, k) => UpTo(r, f, k)
  /\ \A k \in Nat : PointFirst(q, f, k) => PointFirst(r, f, k)
  /\ AfterPoint(q, f) => AfterPoint(r, f)
  /\ HasPoint(r, f) => HasPoint(q, f)

\* And nothing of it gets lost.
KeepsAll(q, r, f, p) ==
  /\ Keeps(q, r, f, p)
  /\ HasPoint(q, f) => HasPoint(r, f)
  /\ \A k \in Nat : Carries(q, f, p, k, Len(q)) => Carries(r, f, p, k, Len(r))

\* The chunks among the first i messages stay there.
LEMMA CarriesAppend ==
  ASSUME NEW q \in Seq(ToReceiverMsg), NEW m, NEW f, NEW p \in Nat, NEW k \in Nat,
         NEW i \in 0..Len(q), Carries(q, f, p, k, i)
  PROVE  Carries(Append(q, m), f, p, k, i) /\ Carries(Append(q, m), f, p, k, Len(q) + 1)
<1>1. \A j \in 1..Len(q) : Append(q, m)[j] = q[j]
  BY AppendElements
<1>2. Len(q) \in Nat
  OBVIOUS
<1> QED
  BY <1>1, <1>2 DEF Carries

\* A message that is not about the content of f.
LEMMA AppendOther ==
  ASSUME NEW q \in Seq(ToReceiverMsg), NEW m, NEW f, NEW p \in Nat, ~IsBody(m, f)
  PROVE  KeepsAll(q, Append(q, m), f, p)
<1> DEFINE r == Append(q, m)
<1>1. /\ Len(r) = Len(q) + 1 /\ Len(q) \in Nat
      /\ \A j \in 1..Len(q) : r[j] = q[j]
      /\ r[Len(q) + 1] = m
  BY AppendElements
<1>2. /\ ~IsData(m, f) /\ ~IsDone(m, f) /\ ~IsPoint(m, f)
  BY DEF IsBody, IsData, IsDone, IsPoint
<1>3. \A j \in 1..Len(r) :
        (j \in 1..Len(q) /\ r[j] = q[j]) \/ (j = Len(q) + 1 /\ r[j] = m)
  <2> HIDE DEF r
  <2> QED
    BY <1>1
<1>4. \A j \in 1..Len(q) : q[j].n \in Nat
  BY MessageFields
<1>5. \A k \in Nat, i \in 1..Len(q) : Carries(q, f, p, k, i) => Carries(r, f, p, k, i)
  BY CarriesAppend
<1>6. \A k \in Nat : Carries(q, f, p, k, Len(q)) => Carries(r, f, p, k, Len(r))
  <2>1. Len(q) \in 0..Len(q)
    BY <1>1
  <2>2. \A k \in Nat : Carries(q, f, p, k, Len(q)) => Carries(r, f, p, k, Len(q) + 1)
    BY <2>1, CarriesAppend
  <2> HIDE DEF r
  <2> QED
    BY <2>2, <1>1
<1>7. Len(Source[f]) \in Nat \/ f \notin Files
  BY ContentsAssumption
<1> HIDE DEF r
<1>8. Flow(q, f, p) => Flow(r, f, p)
  <2> SUFFICES ASSUME Flow(q, f, p) PROVE Flow(r, f, p)
    OBVIOUS
  <2>1. ASSUME NEW i \in 1..Len(r), IsData(r[i], f)
        PROVE  p < r[i].n /\ Carries(r, f, p, r[i].n, i)
    BY <2>1, <1>2, <1>3, <1>4, <1>5 DEF Flow
  <2>2. ASSUME NEW i \in 1..Len(r), IsDone(r[i], f)
        PROVE  Carries(r, f, p, Len(Source[f]), i)
    <3>1. i \in 1..Len(q) /\ r[i] = q[i]
      BY <2>2, <1>2, <1>3
    <3>2. Carries(q, f, p, Len(Source[f]), i)
      BY <2>2, <3>1 DEF Flow
    <3>3. \A j \in 1..i : j \in 1..Len(q) /\ r[j] = q[j]
      BY <3>1, <1>1
    <3> QED
      BY <3>2, <3>3 DEF Carries
  <2>3. ASSUME NEW i \in 1..Len(r), NEW j \in 1..Len(r),
               IsData(r[i], f), IsData(r[j], f), r[i].n = r[j].n
        PROVE  i = j
    BY <2>3, <1>2, <1>3 DEF Flow
  <2> QED
    BY <2>1, <2>2, <2>3 DEF Flow
<1>9. \A k \in Nat : UpTo(q, f, k) => UpTo(r, f, k)
  BY <1>2, <1>3 DEF UpTo
<1>10. \A k \in Nat : PointFirst(q, f, k) => PointFirst(r, f, k)
  BY <1>2, <1>3, ~IsBody(m, f) DEF PointFirst
<1>11. AfterPoint(q, f) => AfterPoint(r, f)
  BY <1>1, <1>3, ~IsBody(m, f) DEF AfterPoint
<1>12. HasPoint(r, f) <=> HasPoint(q, f)
  BY <1>1, <1>2, <1>3 DEF HasPoint
<1> QED
  BY <1>6, <1>8, <1>9, <1>10, <1>11, <1>12 DEF KeepsAll, Keeps, r

\* What a lost connection leaves of a link.
LEMMA PrefixKeeps ==
  ASSUME NEW q \in Seq(ToReceiverMsg), NEW n \in 0..Len(q), NEW f, NEW p \in Nat
  PROVE  Keeps(q, SubSeq(q, 1, n), f, p)
<1> DEFINE r == SubSeq(q, 1, n)
<1>1. /\ Len(r) = n /\ n \in Nat /\ Len(q) \in Nat /\ n <= Len(q)
      /\ \A j \in 1..n : j \in 1..Len(q) /\ r[j] = q[j]
  OBVIOUS
<1> HIDE DEF r
<1>2. \A k, i : i \in 1..n /\ Carries(q, f, p, k, i) => Carries(r, f, p, k, i)
  BY <1>1 DEF Carries
<1>3. Flow(q, f, p) => Flow(r, f, p)
  BY <1>1, <1>2 DEF Flow
<1>4. /\ \A k \in Nat : UpTo(q, f, k) => UpTo(r, f, k)
      /\ \A k \in Nat : PointFirst(q, f, k) => PointFirst(r, f, k)
  BY <1>1 DEF UpTo, PointFirst
<1>5. AfterPoint(q, f) => AfterPoint(r, f)
  <2> SUFFICES ASSUME AfterPoint(q, f), NEW j \in 1..Len(r), IsBody(r[j], f)
               PROVE  \E i \in 1..j : IsPoint(r[i], f)
    BY DEF AfterPoint
  <2>1. PICK i \in 1..j : IsPoint(q[i], f)
    BY <1>1 DEF AfterPoint
  <2> QED
    BY <2>1, <1>1
<1>6. HasPoint(r, f) => HasPoint(q, f)
  BY <1>1 DEF HasPoint
<1> QED
  BY <1>3, <1>4, <1>5, <1>6 DEF Keeps, r

\* The first message is about something else.
LEMMA TailOther ==
  ASSUME NEW q \in Seq(ToReceiverMsg), q # <<>>, NEW f, NEW p \in Nat,
         ~IsBody(Head(q), f)
  PROVE  KeepsAll(q, Tail(q), f, p)
<1> DEFINE r == Tail(q)
<1>1. /\ Len(q) \in Nat \ {0} /\ Len(r) = Len(q) - 1 /\ q[1] = Head(q)
      /\ \A j \in 1..Len(r) : j + 1 \in 1..Len(q) /\ r[j] = q[j + 1]
  BY TailElements
<1>2. ~IsData(q[1], f) /\ ~IsDone(q[1], f) /\ ~IsPoint(q[1], f) /\ ~IsBody(q[1], f)
  BY <1>1 DEF IsBody, IsData, IsDone, IsPoint
<1>3. \A j \in 1..Len(q) : j = 1 \/ (j - 1 \in 1..Len(r) /\ q[j] = r[j - 1])
  BY <1>1
<1> HIDE DEF r
<1>4. ASSUME NEW k, NEW i \in 1..Len(q), Carries(q, f, p, k, i)
      PROVE  Carries(r, f, p, k, i - 1)
  <2> SUFFICES ASSUME NEW c \in (p + 1)..k
               PROVE  \E j \in 1..(i - 1) : IsData(r[j], f) /\ r[j].n = c
    BY DEF Carries
  <2>1. PICK j \in 1..i : IsData(q[j], f) /\ q[j].n = c
    BY <1>4 DEF Carries
  <2>2. j - 1 \in 1..(i - 1) /\ r[j - 1] = q[j]
    BY <2>1, <1>1, <1>2, <1>3
  <2> QED
    BY <2>1, <2>2
<1>5. Flow(q, f, p) => Flow(r, f, p)
  <2> SUFFICES ASSUME Flow(q, f, p) PROVE Flow(r, f, p)
    OBVIOUS
  <2>1. ASSUME NEW i \in 1..Len(r), IsData(r[i], f)
        PROVE  p < r[i].n /\ Carries(r, f, p, r[i].n, i)
    <3>1. i + 1 \in 1..Len(q) /\ r[i] = q[i + 1] /\ i = (i + 1) - 1
      BY <1>1
    <3>2. p < q[i + 1].n /\ Carries(q, f, p, q[i + 1].n, i + 1)
      BY <2>1, <3>1 DEF Flow
    <3> QED
      BY <3>1, <3>2, <1>4
  <2>2. ASSUME NEW i \in 1..Len(r), IsDone(r[i], f)
        PROVE  Carries(r, f, p, Len(Source[f]), i)
    <3>1. i + 1 \in 1..Len(q) /\ r[i] = q[i + 1] /\ i = (i + 1) - 1
      BY <1>1
    <3>2. Carries(q, f, p, Len(Source[f]), i + 1)
      BY <2>2, <3>1 DEF Flow
    <3> QED
      BY <3>1, <3>2, <1>4
  <2>3. ASSUME NEW i \in 1..Len(r), NEW j \in 1..Len(r),
               IsData(r[i], f), IsData(r[j], f), r[i].n = r[j].n
        PROVE  i = j
    <3>1. i + 1 = j + 1
      BY <2>3, <1>1 DEF Flow
    <3> QED
      BY <3>1
  <2> QED
    BY <2>1, <2>2, <2>3 DEF Flow
<1>6. \A k \in Nat : UpTo(q, f, k) => UpTo(r, f, k)
  BY <1>1 DEF UpTo
<1>7. \A k \in Nat : PointFirst(q, f, k) => PointFirst(r, f, k)
  <2> SUFFICES ASSUME NEW k \in Nat, PointFirst(q, f, k), NEW i \in 1..Len(r),
                      IsPoint(r[i], f)
               PROVE  r[i].n = k /\ \A j \in 1..Len(r) : IsBody(r[j], f) => i <= j
    BY DEF PointFirst
  <2>1. /\ q[i + 1].n = k /\ r[i] = q[i + 1]
        /\ \A j \in 1..Len(q) : IsBody(q[j], f) => i + 1 <= j
    BY <1>1 DEF PointFirst
  <2>2. ASSUME NEW j \in 1..Len(r), IsBody(r[j], f) PROVE i <= j
    BY <2>1, <2>2, <1>1
  <2> QED
    BY <2>1, <2>2
<1>8. AfterPoint(q, f) => AfterPoint(r, f)
  <2> SUFFICES ASSUME AfterPoint(q, f), NEW j \in 1..Len(r), IsBody(r[j], f)
               PROVE  \E i \in 1..j : IsPoint(r[i], f)
    BY DEF AfterPoint
  <2>1. PICK i \in 1..(j + 1) : IsPoint(q[i], f)
    BY <1>1 DEF AfterPoint
  <2>2. i - 1 \in 1..j /\ r[i - 1] = q[i]
    BY <2>1, <1>1, <1>2, <1>3
  <2> QED
    BY <2>1, <2>2
<1>9. HasPoint(r, f) <=> HasPoint(q, f)
  BY <1>1, <1>2, <1>3 DEF HasPoint
<1>10. \A k \in Nat : Carries(q, f, p, k, Len(q)) => Carries(r, f, p, k, Len(r))
  BY <1>1, <1>4
<1> QED
  BY <1>5, <1>6, <1>7, <1>8, <1>9, <1>10 DEF KeepsAll, Keeps, r

\* Without a message about f in the link there is nothing to say.
LEMMA Nothing ==
  ASSUME NEW q, NEW f, \A i \in 1..Len(q) : ~IsBody(q[i], f)
  PROVE  /\ \A p : Flow(q, f, p)
         /\ AfterPoint(q, f) /\ ~HasPoint(q, f)
         /\ \A k : UpTo(q, f, k) /\ PointFirst(q, f, k)
<1>1. \A i \in 1..Len(q) : ~IsData(q[i], f) /\ ~IsDone(q[i], f) /\ ~IsPoint(q[i], f)
  BY DEF IsBody, IsData, IsDone, IsPoint
<1> QED
  BY <1>1 DEF Flow, AfterPoint, HasPoint, UpTo, PointFirst

\* From position p to p there is nothing to carry.
LEMMA CarriesNothing ==
  ASSUME NEW q, NEW f, NEW p \in Nat, NEW k \in Nat, k <= p, NEW i
  PROVE  Carries(q, f, p, k, i)
BY DEF Carries

\* A chunk that comes first is the one the receiver's position is at.
LEMMA TakeChunk ==
  ASSUME NEW q \in Seq(ToReceiverMsg), q # <<>>, NEW f, NEW p \in Nat,
         IsData(Head(q), f), Flow(q, f, p)
  PROVE  /\ Head(q).n = p + 1
         /\ Flow(Tail(q), f, p + 1)
         /\ \A k \in Nat : UpTo(q, f, k) => UpTo(Tail(q), f, k) /\ p + 1 <= k
         /\ \A k \in Nat : Carries(q, f, p, k, Len(q))
                             => Carries(Tail(q), f, p + 1, k, Len(Tail(q)))
         /\ \A k \in Nat : PointFirst(q, f, k) => ~HasPoint(q, f)
         /\ HasPoint(Tail(q), f) => HasPoint(q, f)
         /\ AfterPoint(q, f) => HasPoint(q, f)
<1> DEFINE r == Tail(q)
<1>1. /\ Len(q) \in Nat \ {0} /\ Len(r) = Len(q) - 1 /\ q[1] = Head(q)
      /\ \A j \in 1..Len(r) : j + 1 \in 1..Len(q) /\ r[j] = q[j + 1]
  BY TailElements
<1>2. IsData(q[1], f) /\ ~IsDone(q[1], f) /\ ~IsPoint(q[1], f) /\ IsBody(q[1], f)
  BY <1>1 DEF IsBody, IsData, IsDone, IsPoint
<1>3. \A j \in 1..Len(q) : j = 1 \/ (j - 1 \in 1..Len(r) /\ q[j] = r[j - 1])
  BY <1>1
<1>4. \A j \in 1..Len(q) : q[j].n \in Nat
  BY MessageFields
<1> HIDE DEF r
<1>5. q[1].n = p + 1
  <2>1. p < q[1].n /\ Carries(q, f, p, q[1].n, 1)
    BY <1>1, <1>2 DEF Flow
  <2>2. p + 1 \in (p + 1)..q[1].n
    BY <2>1, <1>1, <1>4
  <2>3. \E j \in 1..1 : IsData(q[j], f) /\ q[j].n = p + 1
    BY <2>1, <2>2 DEF Carries
  <2> QED
    BY <2>3
<1>6. ASSUME NEW k, NEW i \in 1..Len(q), Carries(q, f, p, k, i)
      PROVE  Carries(r, f, p + 1, k, i - 1)
  <2> SUFFICES ASSUME NEW c \in (p + 1 + 1)..k
               PROVE  \E j \in 1..(i - 1) : IsData(r[j], f) /\ r[j].n = c
    BY DEF Carries
  <2>1. PICK j \in 1..i : IsData(q[j], f) /\ q[j].n = c
    BY <1>6 DEF Carries
  <2>2. j - 1 \in 1..(i - 1) /\ r[j - 1] = q[j]
    BY <2>1, <1>1, <1>3, <1>5
  <2> QED
    BY <2>1, <2>2
<1>7. Flow(r, f, p + 1)
  <2>1. ASSUME NEW i \in 1..Len(r), IsData(r[i], f)
        PROVE  p + 1 < r[i].n /\ Carries(r, f, p + 1, r[i].n, i)
    <3>1. i + 1 \in 1..Len(q) /\ r[i] = q[i + 1] /\ i = (i + 1) - 1
      BY <1>1
    <3>2. p < q[i + 1].n /\ Carries(q, f, p, q[i + 1].n, i + 1)
      BY <2>1, <3>1 DEF Flow
    <3>3. q[i + 1].n # q[1].n
      BY <2>1, <3>1, <1>1, <1>2, Flow(q, f, p) DEF Flow
    <3>4. p + 1 < q[i + 1].n
      BY <3>1, <3>2, <3>3, <1>4, <1>5
    <3> QED
      BY <3>1, <3>2, <3>4, <1>6
  <2>2. ASSUME NEW i \in 1..Len(r), IsDone(r[i], f)
        PROVE  Carries(r, f, p + 1, Len(Source[f]), i)
    <3>1. i + 1 \in 1..Len(q) /\ r[i] = q[i + 1] /\ i = (i + 1) - 1
      BY <1>1
    <3>2. Carries(q, f, p, Len(Source[f]), i + 1)
      BY <2>2, <3>1 DEF Flow
    <3> QED
      BY <3>1, <3>2, <1>6
  <2>3. ASSUME NEW i \in 1..Len(r), NEW j \in 1..Len(r),
               IsData(r[i], f), IsData(r[j], f), r[i].n = r[j].n
        PROVE  i = j
    <3>1. i + 1 = j + 1
      BY <2>3, <1>1, Flow(q, f, p) DEF Flow
    <3> QED
      BY <3>1
  <2> QED
    BY <2>1, <2>2, <2>3 DEF Flow
<1>8. \A k \in Nat : UpTo(q, f, k) => UpTo(r, f, k) /\ p + 1 <= k
  <2> SUFFICES ASSUME NEW k \in Nat, UpTo(q, f, k) PROVE UpTo(r, f, k) /\ p + 1 <= k
    OBVIOUS
  <2>1. \A i \in 1..Len(q) : IsData(q[i], f) => q[i].n <= k
    BY DEF UpTo
  <2>2. 1 \in 1..Len(q)
    BY <1>1
  <2>3. p + 1 <= k
    BY <2>1, <2>2, <1>2, <1>5
  <2> QED
    BY <2>1, <2>3, <1>1 DEF UpTo
<1>9. \A k \in Nat : Carries(q, f, p, k, Len(q)) => Carries(r, f, p + 1, k, Len(r))
  BY <1>1, <1>6
<1>10. \A k \in Nat : PointFirst(q, f, k) => ~HasPoint(q, f)
  <2> SUFFICES ASSUME NEW k \in Nat, PointFirst(q, f, k),
                      NEW i \in 1..Len(q), IsPoint(q[i], f)
               PROVE  FALSE
    BY DEF HasPoint
  <2>1. i <= 1
    BY <1>1, <1>2 DEF PointFirst
  <2> QED
    BY <2>1, <1>2
<1>11. HasPoint(r, f) => HasPoint(q, f)
  BY <1>1 DEF HasPoint
<1>12. AfterPoint(q, f) => HasPoint(q, f)
  BY <1>1, <1>2 DEF AfterPoint, HasPoint
<1> QED
  BY <1>1, <1>5, <1>7, <1>8, <1>9, <1>10, <1>11, <1>12 DEF r

\* A BreakPoint that comes first is the only one.
LEMMA TakePoint ==
  ASSUME NEW q \in Seq(ToReceiverMsg), q # <<>>, NEW f, NEW p \in Nat, NEW n \in Nat,
         IsPoint(Head(q), f), PointFirst(q, f, n)
  PROVE  /\ Head(q).n = n /\ HasPoint(q, f) /\ ~HasPoint(Tail(q), f)
         /\ Flow(q, f, p) => Flow(Tail(q), f, p)
         /\ \A k \in Nat : UpTo(q, f, k) => UpTo(Tail(q), f, k)
         /\ \A k \in Nat : Carries(q, f, p, k, Len(q))
                             => Carries(Tail(q), f, p, k, Len(Tail(q)))
<1> DEFINE r == Tail(q)
<1>1. /\ Len(q) \in Nat \ {0} /\ Len(r) = Len(q) - 1 /\ q[1] = Head(q)
      /\ \A j \in 1..Len(r) : j + 1 \in 1..Len(q) /\ r[j] = q[j + 1]
  BY TailElements
<1>2. ~IsData(q[1], f) /\ ~IsDone(q[1], f) /\ IsPoint(q[1], f)
  BY <1>1 DEF IsData, IsDone, IsPoint
<1>3. \A j \in 1..Len(q) : j = 1 \/ (j - 1 \in 1..Len(r) /\ q[j] = r[j - 1])
  BY <1>1
<1> HIDE DEF r
<1>4. q[1].n = n /\ HasPoint(q, f)
  BY <1>1, <1>2 DEF PointFirst, HasPoint
<1>5. ~HasPoint(r, f)
  <2> SUFFICES ASSUME NEW i \in 1..Len(r), IsPoint(r[i], f) PROVE FALSE
    BY DEF HasPoint
  <2>1. IsPoint(q[i + 1], f) /\ i + 1 \in 1..Len(q) /\ IsBody(q[1], f)
    BY <1>1, <1>2 DEF IsPoint, IsBody
  <2>2. i + 1 <= 1
    BY <2>1, <1>1 DEF PointFirst
  <2> QED
    BY <2>2
<1>6. ASSUME NEW k, NEW i \in 1..Len(q), Carries(q, f, p, k, i)
      PROVE  Carries(r, f, p, k, i - 1)
  <2> SUFFICES ASSUME NEW c \in (p + 1)..k
               PROVE  \E j \in 1..(i - 1) : IsData(r[j], f) /\ r[j].n = c
    BY DEF Carries
  <2>1. PICK j \in 1..i : IsData(q[j], f) /\ q[j].n = c
    BY <1>6 DEF Carries
  <2>2. j - 1 \in 1..(i - 1) /\ r[j - 1] = q[j]
    BY <2>1, <1>1, <1>2, <1>3
  <2> QED
    BY <2>1, <2>2
<1>7. Flow(q, f, p) => Flow(r, f, p)
  <2> SUFFICES ASSUME Flow(q, f, p) PROVE Flow(r, f, p)
    OBVIOUS
  <2>1. ASSUME NEW i \in 1..Len(r), IsData(r[i], f)
        PROVE  p < r[i].n /\ Carries(r, f, p, r[i].n, i)
    <3>1. i + 1 \in 1..Len(q) /\ r[i] = q[i + 1] /\ i = (i + 1) - 1
      BY <1>1
    <3>2. p < q[i + 1].n /\ Carries(q, f, p, q[i + 1].n, i + 1)
      BY <2>1, <3>1 DEF Flow
    <3> QED
      BY <3>1, <3>2, <1>6
  <2>2. ASSUME NEW i \in 1..Len(r), IsDone(r[i], f)
        PROVE  Carries(r, f, p, Len(Source[f]), i)
    <3>1. i + 1 \in 1..Len(q) /\ r[i] = q[i + 1] /\ i = (i + 1) - 1
      BY <1>1
    <3>2. Carries(q, f, p, Len(Source[f]), i + 1)
      BY <2>2, <3>1 DEF Flow
    <3> QED
      BY <3>1, <3>2, <1>6
  <2>3. ASSUME NEW i \in 1..Len(r), NEW j \in 1..Len(r),
               IsData(r[i], f), IsData(r[j], f), r[i].n = r[j].n
        PROVE  i = j
    <3>1. i + 1 = j + 1
      BY <2>3, <1>1 DEF Flow
    <3> QED
      BY <3>1
  <2> QED
    BY <2>1, <2>2, <2>3 DEF Flow
<1>8. \A k \in Nat : UpTo(q, f, k) => UpTo(r, f, k)
  BY <1>1 DEF UpTo
<1>9. \A k \in Nat : Carries(q, f, p, k, Len(q)) => Carries(r, f, p, k, Len(r))
  BY <1>1, <1>6
<1> QED
  BY <1>1, <1>4, <1>5, <1>7, <1>8, <1>9 DEF r

\* When FileDone comes first, everything has been received.
LEMMA TakeFileDone ==
  ASSUME NEW q \in Seq(ToReceiverMsg), q # <<>>, NEW f \in Files, NEW p \in Nat,
         IsDone(Head(q), f), Flow(q, f, p)
  PROVE  /\ Len(Source[f]) <= p
         /\ AfterPoint(q, f) => HasPoint(q, f)
         /\ \A k \in Nat : PointFirst(q, f, k) => ~HasPoint(q, f)
<1>1. Len(q) \in Nat \ {0} /\ q[1] = Head(q) /\ Len(Source[f]) \in Nat
  BY TailElements, ContentsAssumption
<1>2. IsDone(q[1], f) /\ ~IsData(q[1], f) /\ ~IsPoint(q[1], f) /\ IsBody(q[1], f)
  BY <1>1 DEF IsBody, IsData, IsDone, IsPoint
<1>3. Carries(q, f, p, Len(Source[f]), 1)
  BY <1>1, <1>2 DEF Flow
<1>4. Len(Source[f]) <= p
  <2> SUFFICES ASSUME p < Len(Source[f]) PROVE FALSE
    BY <1>1
  <2>1. p + 1 \in (p + 1)..Len(Source[f])
    BY <1>1
  <2>2. \E j \in 1..1 : IsData(q[j], f)
    BY <2>1, <1>3 DEF Carries
  <2> QED
    BY <2>2, <1>2
<1>5. AfterPoint(q, f) => HasPoint(q, f)
  BY <1>1, <1>2 DEF AfterPoint, HasPoint
<1>6. \A k \in Nat : PointFirst(q, f, k) => ~HasPoint(q, f)
  <2> SUFFICES ASSUME NEW k \in Nat, PointFirst(q, f, k),
                      NEW i \in 1..Len(q), IsPoint(q[i], f)
               PROVE  FALSE
    BY DEF HasPoint
  <2>1. i <= 1
    BY <1>1, <1>2 DEF PointFirst
  <2> QED
    BY <2>1, <1>2
<1> QED
  BY <1>4, <1>5, <1>6

\* The next chunk goes behind all others.
LEMMA SendData ==
  ASSUME NEW q \in Seq(ToReceiverMsg), NEW f, NEW p \in Nat, NEW k \in Nat, NEW m,
         IsData(m, f), m.n = k + 1, p <= k,
         Flow(q, f, p), UpTo(q, f, k)
  PROVE  LET r == Append(q, m) IN
         /\ UpTo(r, f, k + 1)
         /\ Carries(q, f, p, k, Len(q)) => /\ Flow(r, f, p)
                                           /\ Carries(r, f, p, k + 1, Len(r))
         /\ \A n \in Nat : PointFirst(q, f, n) => PointFirst(r, f, n)
         /\ HasPoint(r, f) <=> HasPoint(q, f)
         /\ AfterPoint(q, f) /\ HasPoint(q, f) => AfterPoint(r, f)
<1> DEFINE r == Append(q, m)
<1>1. /\ Len(r) = Len(q) + 1 /\ Len(q) \in Nat
      /\ \A j \in 1..Len(q) : r[j] = q[j]
      /\ r[Len(q) + 1] = m
  BY AppendElements
<1>2. ~IsDone(m, f) /\ ~IsPoint(m, f)
  BY DEF IsData, IsDone, IsPoint
<1> HIDE DEF r
<1>3. \A j \in 1..Len(r) :
        (j \in 1..Len(q) /\ r[j] = q[j]) \/ (j = Len(q) + 1 /\ r[j] = m)
  BY <1>1
<1>4. \A j \in 1..Len(q) : q[j].n \in Nat
  BY MessageFields
<1>5. \A j \in 1..Len(q) : IsData(q[j], f) => q[j].n <= k
  BY DEF UpTo
<1>6. UpTo(r, f, k + 1)
  BY <1>3, <1>4, <1>5 DEF UpTo
<1>7. ASSUME NEW c, NEW i \in 1..Len(q), Carries(q, f, p, c, i)
      PROVE  Carries(r, f, p, c, i)
  BY <1>7, <1>1 DEF Carries
<1>8. ASSUME Carries(q, f, p, k, Len(q))
      PROVE  Carries(r, f, p, k + 1, Len(r))
  <2> SUFFICES ASSUME NEW c \in (p + 1)..(k + 1)
               PROVE  \E j \in 1..Len(r) : IsData(r[j], f) /\ r[j].n = c
    BY DEF Carries
  <2>1. CASE c = k + 1
    BY <2>1, <1>1
  <2>2. CASE c # k + 1
    <3>1. c \in (p + 1)..k
      BY <2>2
    <3> QED
      BY <3>1, <1>1, <1>8 DEF Carries
  <2> QED
    BY <2>1, <2>2
<1>9. ASSUME Carries(q, f, p, k, Len(q)) PROVE Flow(r, f, p)
  <2>1. ASSUME NEW i \in 1..Len(r), IsData(r[i], f)
        PROVE  p < r[i].n /\ Carries(r, f, p, r[i].n, i)
    <3>1. CASE i \in 1..Len(q)
      BY <2>1, <3>1, <1>1, <1>7 DEF Flow
    <3>2. CASE i = Len(q) + 1
      BY <3>2, <1>1, <1>8, <1>9
    <3> QED
      BY <3>1, <3>2, <1>3
  <2>2. ASSUME NEW i \in 1..Len(r), IsDone(r[i], f)
        PROVE  Carries(r, f, p, Len(Source[f]), i)
    <3>1. i \in 1..Len(q) /\ r[i] = q[i]
      BY <2>2, <1>2, <1>3
    <3> QED
      BY <2>2, <3>1, <1>7 DEF Flow
  <2>3. ASSUME NEW i \in 1..Len(r), NEW j \in 1..Len(r),
               IsData(r[i], f), IsData(r[j], f), r[i].n = r[j].n
        PROVE  i = j
    <3>1. i \in 1..Len(q) => r[i].n <= k
      BY <2>3, <1>1, <1>5
    <3>2. j \in 1..Len(q) => r[j].n <= k
      BY <2>3, <1>1, <1>5
    <3>3. i = Len(q) + 1 => r[i].n = k + 1
      BY <1>1
    <3>4. j = Len(q) + 1 => r[j].n = k + 1
      BY <1>1
    <3>5. CASE i \in 1..Len(q) /\ j \in 1..Len(q)
      BY <2>3, <3>5, <1>1 DEF Flow
    <3>6. r[i].n \in Nat /\ r[j].n \in Nat
      BY <1>1, <1>3, <1>4
    <3> QED
      BY <2>3, <3>1, <3>2, <3>3, <3>4, <3>5, <3>6, <1>3
  <2> QED
    BY <2>1, <2>2, <2>3 DEF Flow
<1>10. \A n \in Nat : PointFirst(q, f, n) => PointFirst(r, f, n)
  BY <1>1, <1>2, <1>3 DEF PointFirst
<1>11. HasPoint(r, f) <=> HasPoint(q, f)
  BY <1>1, <1>2, <1>3 DEF HasPoint
<1>12. ASSUME AfterPoint(q, f), HasPoint(q, f) PROVE AfterPoint(r, f)
  <2> SUFFICES ASSUME NEW j \in 1..Len(r), IsBody(r[j], f)
               PROVE  \E i \in 1..j : IsPoint(r[i], f)
    BY DEF AfterPoint
  <2>1. CASE j \in 1..Len(q)
    <3>1. PICK i \in 1..j : IsPoint(q[i], f)
      BY <2>1, <1>1, <1>12 DEF AfterPoint
    <3> QED
      BY <2>1, <3>1, <1>1
  <2>2. CASE j = Len(q) + 1
    BY <2>2, <1>1, <1>12 DEF HasPoint
  <2> QED
    BY <2>1, <2>2, <1>3
<1> QED
  BY <1>6, <1>8, <1>9, <1>10, <1>11, <1>12 DEF r

\* FileDone goes behind the last chunk.
LEMMA SendLast ==
  ASSUME NEW q \in Seq(ToReceiverMsg), NEW f \in Files, NEW p \in Nat, NEW m,
         IsDone(m, f), Flow(q, f, p), Carries(q, f, p, Len(Source[f]), Len(q))
  PROVE  LET r == Append(q, m) IN
         /\ Flow(r, f, p)
         /\ \A n \in Nat : PointFirst(q, f, n) => PointFirst(r, f, n)
         /\ HasPoint(r, f) <=> HasPoint(q, f)
         /\ AfterPoint(q, f) /\ HasPoint(q, f) => AfterPoint(r, f)
<1> DEFINE r == Append(q, m)
<1>1. /\ Len(r) = Len(q) + 1 /\ Len(q) \in Nat
      /\ \A j \in 1..Len(q) : r[j] = q[j]
      /\ r[Len(q) + 1] = m
  BY AppendElements
<1>2. ~IsData(m, f) /\ ~IsPoint(m, f)
  BY DEF IsData, IsDone, IsPoint
<1> HIDE DEF r
<1>3. \A j \in 1..Len(r) :
        (j \in 1..Len(q) /\ r[j] = q[j]) \/ (j = Len(q) + 1 /\ r[j] = m)
  BY <1>1
<1>4. ASSUME NEW c, NEW i \in 1..Len(q), Carries(q, f, p, c, i)
      PROVE  Carries(r, f, p, c, i)
  BY <1>4, <1>1 DEF Carries
<1>5. Carries(r, f, p, Len(Source[f]), Len(q) + 1)
  BY <1>1 DEF Carries
<1>6. Flow(r, f, p)
  <2>1. ASSUME NEW i \in 1..Len(r), IsData(r[i], f)
        PROVE  i \in 1..Len(q) /\ p < r[i].n /\ Carries(r, f, p, r[i].n, i)
    BY <2>1, <1>2, <1>3, <1>4 DEF Flow
  <2>2. ASSUME NEW i \in 1..Len(r), IsDone(r[i], f)
        PROVE  Carries(r, f, p, Len(Source[f]), i)
    <3>1. CASE i \in 1..Len(q)
      BY <2>2, <3>1, <1>1, <1>4 DEF Flow
    <3>2. CASE i = Len(q) + 1
      BY <3>2, <1>5
    <3> QED
      BY <3>1, <3>2, <1>3
  <2>3. ASSUME NEW i \in 1..Len(r), NEW j \in 1..Len(r),
               IsData(r[i], f), IsData(r[j], f), r[i].n = r[j].n
        PROVE  i = j
    BY <2>1, <2>3, <1>1 DEF Flow
  <2> QED
    BY <2>1, <2>2, <2>3 DEF Flow
<1>7. \A n \in Nat : PointFirst(q, f, n) => PointFirst(r, f, n)
  BY <1>1, <1>2, <1>3 DEF PointFirst
<1>8. HasPoint(r, f) <=> HasPoint(q, f)
  BY <1>1, <1>2, <1>3 DEF HasPoint
<1>9. ASSUME AfterPoint(q, f), HasPoint(q, f) PROVE AfterPoint(r, f)
  <2> SUFFICES ASSUME NEW j \in 1..Len(r), IsBody(r[j], f)
               PROVE  \E i \in 1..j : IsPoint(r[i], f)
    BY DEF AfterPoint
  <2>1. CASE j \in 1..Len(q)
    <3>1. PICK i \in 1..j : IsPoint(q[i], f)
      BY <2>1, <1>1, <1>9 DEF AfterPoint
    <3> QED
      BY <2>1, <3>1, <1>1
  <2>2. CASE j = Len(q) + 1
    BY <2>2, <1>1, <1>9 DEF HasPoint
  <2> QED
    BY <2>1, <2>2, <1>3
<1> QED
  BY <1>6, <1>7, <1>8, <1>9 DEF r

\* BreakPoint comes before everything else about f.
LEMMA SendPoint ==
  ASSUME NEW q \in Seq(ToReceiverMsg), NEW f, NEW p \in Nat, NEW m, NEW n \in Nat,
         IsPoint(m, f), m.n = n, \A i \in 1..Len(q) : ~IsBody(q[i], f)
  PROVE  LET r == Append(q, m) IN
         /\ Flow(r, f, p) /\ HasPoint(r, f) /\ AfterPoint(r, f)
         /\ PointFirst(r, f, n)
         /\ \A k \in Nat : UpTo(r, f, k)
<1> DEFINE r == Append(q, m)
<1>1. /\ Len(r) = Len(q) + 1 /\ Len(q) \in Nat
      /\ \A j \in 1..Len(q) : r[j] = q[j]
      /\ r[Len(q) + 1] = m
  BY AppendElements
<1> HIDE DEF r
<1>2. \A j \in 1..Len(r) : IsBody(r[j], f) => j = Len(r) /\ r[j] = m
  BY <1>1
<1>3. \A j \in 1..Len(r) : ~IsData(r[j], f) /\ ~IsDone(r[j], f)
  BY <1>2 DEF IsBody, IsData, IsDone, IsPoint
<1>4. \A j \in 1..Len(r) : IsPoint(r[j], f) => j = Len(r) /\ r[j] = m
  BY <1>2 DEF IsBody, IsPoint
<1>5. Flow(r, f, p)
  BY <1>3 DEF Flow
<1>6. HasPoint(r, f)
  BY <1>1 DEF HasPoint
<1>7. AfterPoint(r, f)
  BY <1>1, <1>2 DEF AfterPoint
<1>8. PointFirst(r, f, n)
  BY <1>1, <1>2, <1>4 DEF PointFirst
<1>9. \A k \in Nat : UpTo(r, f, k)
  BY <1>3 DEF UpTo
<1> QED
  BY <1>5, <1>6, <1>7, <1>8, <1>9 DEF r

-----------------------------------------------------------------------------
(* Contents.                                                               *)

\* No more chunks are saved than there are.
LEMMA SavedBound ==
  ASSUME NEW s \in Seq(Chunk)
  PROVE  SavedChunks(s) \in Nat /\ SavedChunks(s) <= Len(s)
<1> DEFINE T == {i \in 1..Len(s) : \E j \in i..Len(s) : s[j] # Zero}
<1>1. Len(s) \in Nat
  OBVIOUS
<1>2. IsFiniteSet(1..Len(s)) /\ Cardinality(1..Len(s)) = Len(s)
  BY <1>1, FS_Interval
<1>3. T \subseteq 1..Len(s)
  OBVIOUS
<1>4. Cardinality(T) <= Len(s) /\ IsFiniteSet(T)
  BY <1>2, <1>3, FS_Subset
<1>5. Cardinality(T) \in Nat
  BY <1>4, FS_CardinalityType
<1> QED
  BY <1>4, <1>5 DEF SavedChunks

\* What the writer leaves: the chunk at its position, the rest as it was.
LEMMA Written ==
  ASSUME NEW s \in Seq(Chunk), NEW p \in Nat, NEW c \in Chunk, p <= Len(s)
  PROVE  /\ WriteAt(s, p, c) \in Seq(Chunk)
         /\ Len(WriteAt(s, p, c)) = IF p < Len(s) THEN Len(s) ELSE p + 1
         /\ \A i \in 1..Len(WriteAt(s, p, c)) :
              WriteAt(s, p, c)[i] = IF i = p + 1 THEN c ELSE s[i]
<1>1. Len(s) \in Nat
  OBVIOUS
<1> DEFINE n == IF p < Len(s) THEN Len(s) ELSE p + 1
           w == [i \in 1..n |->
                   IF i = p + 1 THEN c ELSE IF i <= Len(s) THEN s[i] ELSE Zero]
<1>2. n \in Nat
  BY <1>1
<1>3. WriteAt(s, p, c) = w
  BY DEF WriteAt
<1>4. w \in Seq(Chunk)
  BY <1>3, WriteAtType
<1>5. DOMAIN w = 1..n
  OBVIOUS
<1>6. Len(w) = n
  BY <1>2, <1>4, <1>5
<1>7. \A i \in 1..n : w[i] = IF i = p + 1 THEN c ELSE s[i]
  BY <1>1
<1> QED
  BY <1>3, <1>4, <1>6, <1>7

-----------------------------------------------------------------------------
(* A step that has nothing to do with file g.                              *)

\* The link keeps what it carries of g.
LinkStays(g) ==
  /\ Keeps(toReceiver, toReceiver', g, CopyPosition(g))
  /\ up' => up /\ KeepsAll(toReceiver, toReceiver', g, CopyPosition(g))

FileStays(g) ==
  /\ choice'[g] = choice[g] /\ recvPos'[g] = recvPos[g]
  /\ disk'[g] = disk[g] /\ old'[g] = old[g]
  /\ g \in recvFiles' => g \in recvFiles
  /\ g \in finished' => g \in finished

\* Nothing new is asked or said about g.
TalkStays(g) ==
  /\ Words(g)' \subseteq Words(g)
  /\ Requested(g)' => Requested(g) \/ task[g] = "start"
  /\ Questioned(g)' => Questioned(g)
  /\ Streamed(g)' => Streamed(g)
  /\ \A p \in prompts' : p.kind = "breakPoint" /\ p.file = g => p \in prompts

\* And its task does not move on, except to read a chunk, or it ends.
TaskStays(g) ==
  /\ pos'[g] = pos[g]
  /\ \/ task'[g] = task[g]
     \/ task'[g] = "start" /\ task[g] = "none"
     \/ task'[g] \in {"wait"} \cup Ended
     \/ task'[g] \in Reads /\ task[g] \in Reads

\* The position of a copy, and that it is a number.
LEMMA Position ==
  ASSUME TypeOK, NEW f \in Files, Chosen(f)
  PROVE  /\ CopyPosition(f) \in Nat /\ recvPos[f] \in Nat
         /\ Len(Source[f]) \in Nat /\ pos[f] \in Nat
         /\ choice[f] = "resume" =>
              /\ Saved(f) \in Nat /\ 0 < Saved(f) /\ Saved(f) <= Len(Source[f])
              /\ Len(old[f]) = Len(Source[f])
         /\ CopyPosition(f) = IF Resumes(f) THEN Saved(f) ELSE recvPos[f]
<1>1. recvPos[f] \in Nat /\ pos[f] \in Nat /\ Len(Source[f]) \in Nat
  BY ContentsAssumption DEF TypeOK
<1>2. choice[f] = "resume" =>
        /\ Saved(f) \in Nat /\ 0 < Saved(f) /\ Saved(f) <= Len(Source[f])
        /\ Len(old[f]) = Len(Source[f])
  <2> SUFFICES ASSUME choice[f] = "resume"
               PROVE  /\ Saved(f) \in Nat /\ 0 < Saved(f) /\ Saved(f) <= Len(Source[f])
                      /\ Len(old[f]) = Len(Source[f])
    OBVIOUS
  <2>1. old[f] \in Seq(Chunk) /\ AtBreakPoint(old[f], Source[f])
    BY DEF TypeOK, Chosen
  <2>2. SavedChunks(old[f]) \in Nat /\ SavedChunks(old[f]) <= Len(old[f])
    BY <2>1, SavedBound
  <2>3. Len(old[f]) = Len(Source[f]) /\ SavedChunks(old[f]) > 0
    BY <2>1 DEF AtBreakPoint
  <2> QED
    BY <2>2, <2>3 DEF Saved
<1>3. CopyPosition(f) = IF Resumes(f) THEN Saved(f) ELSE recvPos[f]
  BY DEF CopyPosition, Resumes, Saved
<1> QED
  BY <1>1, <1>2, <1>3 DEF Resumes

\* A step that leaves the file alone keeps what is asked, said and written.
LEMMA FileKeeps ==
  ASSUME NEW g \in Files, FileCopied(g), FileStays(g), Words(g)' \subseteq Words(g),
         \A p \in prompts' : p.kind = "breakPoint" /\ p.file = g => p \in prompts
  PROVE  /\ Questions(g)' /\ Confirms(g)' /\ Chosen(g)' /\ Copied(g)' /\ Places(g)'
         /\ CopyPosition(g)' = CopyPosition(g) /\ Saved(g)' = Saved(g)
         /\ Resumes(g)' = Resumes(g)
<1> USE DEF FileStays
<1>1. /\ CopyPosition(g)' = CopyPosition(g) /\ Saved(g)' = Saved(g)
      /\ Resumes(g)' = Resumes(g) /\ Base(g)' = Base(g) /\ From(g)' = From(g)
  BY DEF CopyPosition, Saved, Resumes, Base, From
<1>2. Questions(g)'
  BY <1>1 DEF FileCopied, Questions
<1>3. Confirms(g)'
  BY <1>1 DEF FileCopied, Confirms, Says
<1>4. Chosen(g)' /\ Copied(g)' /\ Places(g)'
  BY <1>1 DEF FileCopied, Chosen, Copied, Places
<1> QED
  BY <1>1, <1>2, <1>3, <1>4

\* A step that has nothing to do with g keeps what is known of it.
LEMMA StaysCopied ==
  ASSUME TypeOK, NEW g \in Files, FileCopied(g),
         FileStays(g), TalkStays(g), TaskStays(g),
         rstate' = "run" => rstate = "run" /\ LinkStays(g)
  PROVE  FileCopied(g)'
<1> USE DEF FileStays, TalkStays, TaskStays
<1>0. /\ Undecided(g) /\ Questions(g) /\ Confirms(g) /\ Streams(g)
      /\ rstate = "run" => Carried(g)
      /\ Chosen(g) /\ Copied(g) /\ Places(g)
  BY DEF FileCopied
<1>1. /\ Questions(g)' /\ Confirms(g)' /\ Chosen(g)' /\ Copied(g)' /\ Places(g)'
      /\ CopyPosition(g)' = CopyPosition(g) /\ Saved(g)' = Saved(g)
      /\ Resumes(g)' = Resumes(g)
  BY FileKeeps
<1>3. /\ Streaming(g)' => Streaming(g)
      /\ task'[g] = "point" => task[g] = "point"
      /\ task'[g] \in Reads => task[g] \in Reads
      /\ task'[g] \in {"none", "start"} => task[g] \in {"none", "start"}
  BY DEF Streaming, Reads, Ended
<1>2. Undecided(g)'
  BY <1>0, <1>1, <1>3 DEF Undecided
<1>4. Streams(g)'
  BY <1>0, <1>1, <1>3 DEF Streams
<1>6. ASSUME rstate' = "run" PROVE Carried(g)'
  <2>1. Carried(g) /\ LinkStays(g)
    BY <1>0, <1>6
  <2>2. CopyPosition(g) \in Nat /\ pos[g] \in Nat /\ (Resumes(g) => Saved(g) \in Nat)
    BY <1>0, Position DEF Resumes
  <2>3. Flow(toReceiver', g, CopyPosition(g))
    BY <2>1 DEF Carried, LinkStays, Keeps
  <2>4. Streaming(g) => UpTo(toReceiver', g, pos[g])
    BY <2>1, <2>2 DEF Carried, LinkStays, Keeps
  <2>5. HasPoint(toReceiver', g) => Resumes(g)
    BY <2>1 DEF Carried, LinkStays, Keeps
  <2>6. PointFirst(toReceiver', g, Saved(g))
    <3>1. CASE HasPoint(toReceiver', g)
      BY <3>1, <2>1, <2>2, <2>5 DEF Carried, LinkStays, Keeps
    <3>2. CASE ~HasPoint(toReceiver', g)
      BY <3>2 DEF PointFirst, HasPoint
    <3> QED
      BY <3>1, <3>2
  <2>7. Resumes(g) => AfterPoint(toReceiver', g)
    BY <2>1 DEF Carried, LinkStays, Keeps
  <2>8. up' /\ task[g] \in Reads =>
          /\ Carries(toReceiver', g, CopyPosition(g), pos[g], Len(toReceiver'))
          /\ Resumes(g) => HasPoint(toReceiver', g)
    BY <2>1, <2>2 DEF Carried, LinkStays, KeepsAll
  <2> QED
    BY <1>1, <1>3, <2>3, <2>4, <2>5, <2>6, <2>7, <2>8 DEF Carried
<1> QED
  BY <1>1, <1>2, <1>4, <1>6 DEF FileCopied

-----------------------------------------------------------------------------
(* What the steps of the sender and the receiver leave alone.              *)

\* A link that does not change keeps what it carries.
LEMMA LinkSame ==
  ASSUME NEW g, UNCHANGED <<toReceiver, up>>
  PROVE  LinkStays(g)
BY DEF LinkStays, KeepsAll, Keeps

\* So does one with a message more or less about another file.
LEMMA PostStays ==
  ASSUME TypeOK, NEW m, Post(m), UNCHANGED up, NEW g \in Files, Chosen(g), ~IsBody(m, g)
  PROVE  LinkStays(g) /\ (Streamed(g)' => Streamed(g))
<1>1. toReceiver \in Seq(ToReceiverMsg) /\ CopyPosition(g) \in Nat
  BY Position DEF TypeOK
<1>2. KeepsAll(toReceiver, Append(toReceiver, m), g, CopyPosition(g))
  BY <1>1, AppendOther
<1>3. toReceiver' = Append(toReceiver, m) \/ UNCHANGED toReceiver
  BY DEF Post
<1>4. toReceiver' = Append(toReceiver, m) => LinkStays(g)
  BY <1>2 DEF LinkStays, KeepsAll
<1>5. UNCHANGED toReceiver => LinkStays(g)
  BY LinkSame
<1> QED
  BY <1>3, <1>4, <1>5, PostStreamed

\* Taking a message that is not about g's content does not concern g.
LEMMA TakeStays ==
  ASSUME TypeOK, NEW t, Received(t), UNCHANGED up, NEW g \in Files, Chosen(g),
         ~IsBody(Head(toReceiver), g)
  PROVE  LinkStays(g)
<1>1. toReceiver \in Seq(ToReceiverMsg) /\ CopyPosition(g) \in Nat
  BY Position DEF TypeOK
<1>2. toReceiver # <<>> /\ toReceiver' = Tail(toReceiver)
  BY DEF Received
<1>3. KeepsAll(toReceiver, Tail(toReceiver), g, CopyPosition(g))
  BY <1>1, <1>2, TailOther
<1> QED
  BY <1>2, <1>3 DEF LinkStays, KeepsAll

\* A lost connection leaves a prefix of it.
LEMMA DownStays ==
  ASSUME TypeOK, LinkDown, NEW g \in Files, Chosen(g)
  PROVE  LinkStays(g)
<1>1. toReceiver \in Seq(ToReceiverMsg) /\ CopyPosition(g) \in Nat
  BY Position DEF TypeOK
<1>2. PICK n \in 0..Len(toReceiver) : toReceiver' = SubSeq(toReceiver, 1, n)
  BY DEF LinkDown
<1>3. Keeps(toReceiver, SubSeq(toReceiver, 1, n), g, CopyPosition(g))
  BY <1>1, PrefixKeeps
<1> QED
  BY <1>2, <1>3 DEF LinkStays, LinkDown

\* Confirms that stay where they are, or are taken by their task.
LEMMA WordsSame ==
  ASSUME UNCHANGED <<toSender, confirmQ>>, NEW g, oneshot'[g] \in {oneshot[g], None}
  PROVE  Words(g)' \subseteq Words(g)
<1>1. None \notin Confirm
  BY DEF None, Confirm
<1> QED
  BY <1>1 DEF Words

\* A message of the receiver adds one at most.
LEMMA WordsReply ==
  ASSUME TypeOK, NEW m, Reply(m), UNCHANGED <<confirmQ, oneshot>>, NEW g
  PROVE  \A c \in Words(g)' : c \in Words(g) \/ (c = m /\ IsConfirm(m, g))
<1> SUFFICES ASSUME NEW c \in Words(g)', c \notin Words(g)
             PROVE  c = m /\ IsConfirm(m, g)
  OBVIOUS
<1>1. /\ c \in Confirm /\ c.file = g
      /\ \E i \in 1..Len(toSender') : toSender'[i] = c
      /\ \A i \in 1..Len(toSender) : toSender[i] # c
  BY DEF Words
<1>2. toSender' = Append(toSender, m) \/ UNCHANGED toSender
  BY DEF Reply
<1>3. toSender' = Append(toSender, m)
  BY <1>1, <1>2
<1>4. /\ Len(toSender') = Len(toSender) + 1 /\ Len(toSender) \in Nat
      /\ \A i \in 1..Len(toSender) : toSender'[i] = toSender[i]
      /\ toSender'[Len(toSender) + 1] = m
  BY <1>3, AppendElements DEF TypeOK
<1>5. c = m
  BY <1>1, <1>4
<1>6. c.kind \in {"newFile", "breakPoint"}
  BY <1>1 DEF Confirm
<1> QED
  BY <1>1, <1>5, <1>6 DEF IsConfirm

\* The sender's loop takes the first one, and may hand it on.
LEMMA WordsTake ==
  ASSUME TypeOK, toSender # <<>>, toSender' = Tail(toSender),
         confirmQ' = Append(confirmQ, Head(toSender)) \/ UNCHANGED confirmQ,
         UNCHANGED oneshot, NEW g
  PROVE  Words(g)' \subseteq Words(g)
<1>1. /\ Len(toSender) \in Nat \ {0} /\ Len(toSender') = Len(toSender) - 1
      /\ \A i \in 1..Len(toSender') : i + 1 \in 1..Len(toSender)
                                      /\ toSender'[i] = toSender[i + 1]
      /\ Head(toSender) = toSender[1] /\ 1 \in 1..Len(toSender)
  BY TailElements DEF TypeOK
<1>2. \A i \in 1..Len(confirmQ') :
        \/ i \in 1..Len(confirmQ) /\ confirmQ'[i] = confirmQ[i]
        \/ confirmQ'[i] = Head(toSender)
  <2>1. CASE UNCHANGED confirmQ
    BY <2>1
  <2>2. CASE confirmQ' = Append(confirmQ, Head(toSender))
    <3>1. /\ Len(confirmQ') = Len(confirmQ) + 1 /\ Len(confirmQ) \in Nat
          /\ \A i \in 1..Len(confirmQ) : confirmQ'[i] = confirmQ[i]
          /\ confirmQ'[Len(confirmQ) + 1] = Head(toSender)
      BY <2>2, AppendElements DEF TypeOK
    <3> QED
      BY <3>1
  <2> QED
    BY <2>1, <2>2
<1> QED
  BY <1>1, <1>2 DEF Words

\* The dispatcher hands it to its task.
LEMMA WordsDispatch ==
  ASSUME TypeOK, Dispatch, NEW g \in Files
  PROVE  Words(g)' \subseteq Words(g)
<1> DEFINE h == Head(confirmQ)
<1>1. /\ confirmQ # <<>> /\ confirmQ' = Tail(confirmQ) /\ UNCHANGED toSender
      /\ oneshot' = oneshot \/ oneshot' = [oneshot EXCEPT ![h.file] = h]
  BY DEF Dispatch
<1>2. /\ Len(confirmQ) \in Nat \ {0} /\ Len(confirmQ') = Len(confirmQ) - 1
      /\ \A i \in 1..Len(confirmQ') : i + 1 \in 1..Len(confirmQ)
                                      /\ confirmQ'[i] = confirmQ[i + 1]
      /\ h = confirmQ[1] /\ 1 \in 1..Len(confirmQ)
  BY <1>1, TailElements DEF TypeOK
<1>3. oneshot'[g] = oneshot[g] \/ oneshot'[g] = h
  BY <1>1 DEF TypeOK
<1> HIDE DEF h
<1> QED
  BY <1>1, <1>2, <1>3 DEF Words

\* A lost connection leaves a prefix of them.
LEMMA WordsDown ==
  ASSUME TypeOK, LinkDown, NEW g
  PROVE  Words(g)' \subseteq Words(g)
<1>1. PICK n \in 0..Len(toSender) : toSender' = SubSeq(toSender, 1, n)
  BY DEF LinkDown
<1>2. \A i \in 1..Len(toSender') : i \in 1..Len(toSender) /\ toSender'[i] = toSender[i]
  BY <1>1 DEF TypeOK
<1> QED
  BY <1>2 DEF LinkDown, Words

\* Where nothing is replied, queued or handed over, nothing is said.
LEMMA NoWords ==
  ASSUME NEW g, ~Replied(g), ~Queued(g), ~Confirmed(g)
  PROVE  Words(g) = {}
<1> SUFFICES ASSUME NEW c \in Words(g) PROVE FALSE
  OBVIOUS
<1>1. IsConfirm(c, g) /\ c # None
  BY DEF Words, IsConfirm, Confirm, None
<1> QED
  BY <1>1 DEF Words, Replied, Queued, Confirmed

-----------------------------------------------------------------------------
(* The sender's steps.                                                     *)

\* The sender's steps leave the receiver's side as it was.
LEMMA SameFile ==
  ASSUME UNCHANGED receiverVars, NEW g
  PROVE  /\ FileStays(g) /\ (Questioned(g)' => Questioned(g))
         /\ \A p \in prompts' : p \in prompts
         /\ rstate' = rstate
BY DEF FileStays, Questioned

\* The main loop of the sender passes confirms on and asks about the share.
LEMMA LoopCopied ==
  ASSUME TurnInv, SenderLoop, NEW g \in Files, FileCopied(g)
  PROVE  FileCopied(g)'
<1>1. TypeOK /\ Chosen(g)
  BY DEF TurnInv, FileCopied
<1>2. UNCHANGED <<receiverVars, up, task, pos, oneshot>>
  BY DEF SenderLoop, Ready, ShareAccepted, ShareRejected, EnqueueConfirm, DoneReplied
<1>3. /\ LinkStays(g) /\ (Streamed(g)' => Streamed(g))
      /\ Requested(g)' => Requested(g)
  <2>1. \/ UNCHANGED toReceiver
        \/ Post(ToReceiver("SendRequest", 0, 0)) \/ Post(ToReceiver("Done", 0, 0))
    BY DEF SenderLoop, Ready, ShareAccepted, ShareRejected, EnqueueConfirm, DoneReplied
  <2>2. CASE UNCHANGED toReceiver
    BY <1>2, <2>2, LinkSame, SameQuiet DEF LinkQuiet
  <2>3. ASSUME NEW t \in {"SendRequest", "Done"}, Post(ToReceiver(t, 0, 0))
        PROVE  /\ LinkStays(g) /\ (Streamed(g)' => Streamed(g))
               /\ Requested(g)' => Requested(g)
    <3>1. /\ ~IsBody(ToReceiver(t, 0, 0), g)
          /\ ~IsRequest(ToReceiver(t, 0, 0), g)
      BY DEF IsBody, IsRequest, ToReceiver
    <3>2. LinkQuiet(g)
      BY <2>3, <3>1, <1>1, PostQuiet
    <3> QED
      BY <2>3, <3>1, <3>2, <1>1, <1>2, PostStays DEF LinkQuiet
  <2> QED
    BY <2>1, <2>2, <2>3
<1>4. Words(g)' \subseteq Words(g)
  <2>1. CASE UNCHANGED <<toSender, confirmQ>>
    BY <2>1, <1>2, WordsSame
  <2>2. CASE /\ toSender # <<>> /\ toSender' = Tail(toSender)
             /\ confirmQ' = Append(confirmQ, Head(toSender)) \/ UNCHANGED confirmQ
    BY <2>2, <1>1, <1>2, WordsTake
  <2> QED
    BY <2>1, <2>2 DEF SenderLoop, Ready, ShareAccepted, ShareRejected,
                      EnqueueConfirm, DoneReplied, Arrived
<1>5. FileStays(g) /\ TalkStays(g) /\ TaskStays(g) /\ rstate' = rstate
  BY <1>2, <1>3, <1>4, SameFile DEF TalkStays, TaskStays
<1> QED
  BY <1>1, <1>3, <1>5, StaysCopied

\* send_files starts tasks, and its dispatcher hands confirms to them.
LEMMA SendFilesCopied ==
  ASSUME TurnInv, SendFiles \/ Dispatcher, NEW g \in Files, FileCopied(g)
  PROVE  FileCopied(g)'
<1>1. TypeOK /\ Chosen(g) /\ Unspawned
  BY DEF TurnInv, FileCopied
<1>2. UNCHANGED <<receiverVars, up, pos>>
  BY DEF SendFiles, Dispatcher, NextFile, SpawnTask, JoinTasks, SendDone,
         DispatcherStart, Dispatch
<1>3. /\ LinkStays(g) /\ (Streamed(g)' => Streamed(g))
      /\ Requested(g)' => Requested(g)
  <2>1. UNCHANGED toReceiver \/ Post(ToReceiver("Done", 0, 0))
    BY DEF SendFiles, Dispatcher, NextFile, SpawnTask, JoinTasks, SendDone,
           DispatcherStart, Dispatch
  <2>2. CASE UNCHANGED toReceiver
    BY <1>2, <2>2, LinkSame, SameQuiet DEF LinkQuiet
  <2>3. CASE Post(ToReceiver("Done", 0, 0))
    <3>1. /\ ~IsBody(ToReceiver("Done", 0, 0), g)
          /\ ~IsRequest(ToReceiver("Done", 0, 0), g)
      BY DEF IsBody, IsRequest, ToReceiver
    <3>2. LinkQuiet(g)
      BY <2>3, <3>1, <1>1, PostQuiet
    <3> QED
      BY <2>3, <3>1, <3>2, <1>1, <1>2, PostStays DEF LinkQuiet
  <2> QED
    BY <2>1, <2>2, <2>3
<1>4. Words(g)' \subseteq Words(g)
  <2>1. CASE UNCHANGED <<toSender, confirmQ, oneshot>>
    BY <2>1, WordsSame
  <2>2. CASE Dispatch
    BY <2>2, <1>1, WordsDispatch
  <2> QED
    BY <2>1, <2>2 DEF SendFiles, Dispatcher, NextFile, SpawnTask, JoinTasks, SendDone,
                      DispatcherStart
<1>5. task'[g] = task[g] \/ (task'[g] = "start" /\ task[g] = "none")
  <2>1. CASE UNCHANGED task
    BY <2>1
  <2>2. CASE SpawnTask
    <3>1. /\ nextFile \in Files /\ task[nextFile] = "none"
          /\ task' = [task EXCEPT ![nextFile] = "start"]
      BY <2>2, <1>1 DEF SpawnTask, Unspawned, TypeOK, Files
    <3> QED
      BY <3>1, <1>1 DEF TypeOK
  <2> QED
    BY <2>1, <2>2 DEF SendFiles, Dispatcher, NextFile, JoinTasks, SendDone,
                      DispatcherStart, Dispatch
<1>6. FileStays(g) /\ TalkStays(g) /\ TaskStays(g) /\ rstate' = rstate
  BY <1>2, <1>3, <1>4, <1>5, SameFile DEF TalkStays, TaskStays
<1> QED
  BY <1>1, <1>3, <1>6, StaysCopied

\* What a task of f does to the links and the confirms of any file.
LEMMA TaskSame ==
  ASSUME TurnInv, NEW f \in Files, SendSingleFile(f) \/ TaskFails(f), NEW g \in Files
  PROVE  /\ UNCHANGED <<receiverVars, up, toSender, confirmQ>>
         /\ Words(g)' \subseteq Words(g)
<1>1. /\ UNCHANGED <<receiverVars, up, toSender, confirmQ>>
      /\ oneshot' = oneshot \/ oneshot' = [oneshot EXCEPT ![f] = None]
  BY DEF SendSingleFile, TaskFails, RequestFile, FileKept, FileResumed, FileAccepted,
         DirAccepted, ConfirmTimeout, SendBreakPoint, ReadChunk, StreamCancelled,
         SendChunk, SendFileDone
<1>2. oneshot'[g] \in {oneshot[g], None}
  BY <1>1 DEF TurnInv, TypeOK
<1> QED
  BY <1>1, <1>2, WordsSame

\* To another file the task of f does nothing.
LEMMA TaskOther ==
  ASSUME TurnInv, NEW f \in Files, SendSingleFile(f) \/ TaskFails(f),
         NEW g \in Files, g # f, FileCopied(g)
  PROVE  FileCopied(g)'
<1>1. TypeOK /\ Chosen(g)
  BY DEF TurnInv, FileCopied
<1>2. UNCHANGED <<receiverVars, up, toSender, confirmQ>> /\ Words(g)' \subseteq Words(g)
  BY TaskSame
<1>3. /\ LinkStays(g) /\ (Streamed(g)' => Streamed(g))
      /\ Requested(g)' => Requested(g)
  <2>1. UNCHANGED toReceiver \/ \E m : Post(m) /\ m.file = f
    BY TaskMoves DEF TaskMove, TaskPosts
  <2>2. CASE UNCHANGED toReceiver
    BY <1>2, <2>2, LinkSame, SameQuiet DEF LinkQuiet
  <2>3. ASSUME NEW m, Post(m), m.file = f
        PROVE  /\ LinkStays(g) /\ (Streamed(g)' => Streamed(g))
               /\ Requested(g)' => Requested(g)
    <3>1. ~IsBody(m, g) /\ ~IsRequest(m, g)
      BY <2>3 DEF IsBody, IsRequest
    <3>2. LinkQuiet(g)
      BY <2>3, <3>1, <1>1, PostQuiet
    <3> QED
      BY <2>3, <3>1, <3>2, <1>1, <1>2, PostStays DEF LinkQuiet
  <2> QED
    BY <2>1, <2>2, <2>3
<1>4. task'[g] = task[g] /\ pos'[g] = pos[g]
  BY <1>1 DEF TypeOK, SendSingleFile, TaskFails, RequestFile, FileKept, FileResumed,
     FileAccepted, DirAccepted, ConfirmTimeout, SendBreakPoint, ReadChunk,
     StreamCancelled, SendChunk, SendFileDone, End
<1>5. FileStays(g) /\ TalkStays(g) /\ TaskStays(g) /\ rstate' = rstate
  BY <1>2, <1>3, <1>4, SameFile DEF TalkStays, TaskStays
<1> QED
  BY <1>1, <1>3, <1>5, StaysCopied

\* Steps of a task that leave the content of its file alone: it offers the file,
\* reads a chunk, or ends without a message.
LEMMA TaskQuiet ==
  ASSUME TurnInv, NEW f \in Files, FileCopied(f),
         \/ RequestFile(f) \/ FileKept(f) \/ DirAccepted(f) \/ ConfirmTimeout(f)
         \/ ReadChunk(f) \/ StreamCancelled(f) \/ TaskFails(f)
  PROVE  FileCopied(f)'
<1>1. TypeOK /\ Chosen(f)
  BY DEF TurnInv, FileCopied
<1>2. UNCHANGED <<receiverVars, up, toSender, confirmQ>> /\ Words(f)' \subseteq Words(f)
  BY TaskSame DEF SendSingleFile
<1>3. /\ LinkStays(f) /\ (Streamed(f)' => Streamed(f))
      /\ Requested(f)' => Requested(f) \/ task[f] = "start"
  <2>1. \/ UNCHANGED toReceiver
        \/ task[f] = "start" /\ Post(ToReceiver("NewFileRequest", f, 0))
    BY DEF RequestFile, FileKept, DirAccepted, ConfirmTimeout, ReadChunk,
           StreamCancelled, TaskFails
  <2>2. CASE UNCHANGED toReceiver
    BY <1>2, <2>2, LinkSame, SameQuiet DEF LinkQuiet
  <2>3. CASE task[f] = "start" /\ Post(ToReceiver("NewFileRequest", f, 0))
    <3>1. ~IsBody(ToReceiver("NewFileRequest", f, 0), f)
      BY DEF IsBody, ToReceiver
    <3> QED
      BY <2>3, <3>1, <1>1, <1>2, PostStays
  <2> QED
    BY <2>1, <2>2, <2>3
<1>4. TaskStays(f)
  BY <1>1 DEF TaskStays, TypeOK, RequestFile, FileKept, DirAccepted, ConfirmTimeout,
     ReadChunk, StreamCancelled, TaskFails, End, Ended, Reads
<1>5. FileStays(f) /\ TalkStays(f) /\ rstate' = rstate
  BY <1>2, <1>3, SameFile DEF TalkStays
<1> QED
  BY <1>1, <1>3, <1>4, <1>5, StaysCopied

\* A task takes its confirm and begins at the position it names.
LEMMA BeginCopied ==
  ASSUME TurnInv, NEW f \in Files, FileCopied(f), FileResumed(f) \/ FileAccepted(f)
  PROVE  FileCopied(f)'
<1>0. /\ TypeOK /\ FileTurn(f) /\ Chosen(f) /\ Confirms(f) /\ Undecided(f)
      /\ rstate = "run" => Carried(f)
  BY TurnInvFacts DEF FileCopied
<1>1. UNCHANGED <<receiverVars, up, toSender, confirmQ>> /\ Words(f)' \subseteq Words(f)
  BY TaskSame DEF SendSingleFile
<1>2. UNCHANGED toReceiver /\ Confirmed(f)
  BY DEF FileResumed, FileAccepted, Answered, Confirmed
<1>3. /\ Unanswered(f) /\ ~Streamed(f) /\ ~Requested(f) /\ ~Questioned(f)
      /\ IsConfirm(oneshot[f], f)
  BY <1>0, <1>2 DEF FileTurn, ConfirmTurn, RequestTurn, QuestionTurn
<1>4. Says(oneshot[f], f)
  <2>1. oneshot[f] \in Confirm
    BY <1>0, <1>2 DEF TypeOK, Confirmed
  <2> QED
    BY <1>0, <1>3, <2>1 DEF Words, Confirms, IsConfirm
<1>5. ~Requested(f)' /\ ~Questioned(f)' /\ ~Streamed(f)'
  BY <1>1, <1>2, <1>3, SameQuiet DEF LinkQuiet, PromptQuiet
<1>6. /\ task'[f] = IF FileResumed(f) THEN "point" ELSE "stream"
      /\ pos'[f] = IF FileResumed(f) THEN oneshot[f].n ELSE 0
      /\ choice[f] \in (IF FileResumed(f) THEN {"resume"}
                        ELSE {"create", "overwrite", "restart"})
  <2>1. CASE FileResumed(f)
    BY <2>1, <1>0, <1>3, <1>4 DEF FileResumed, TypeOK, Says
  <2>2. CASE FileAccepted(f) /\ ~FileResumed(f)
    <3>1. choice[f] \in {"create", "overwrite", "restart"}
      BY <2>2, <1>3, <1>4 DEF FileAccepted, Says, IsConfirm
    <3> QED
      BY <2>2, <3>1, <1>0 DEF FileAccepted, TypeOK
  <2> QED
    BY <2>1, <2>2
<1>7. FileStays(f) /\ (\A p \in prompts' : p \in prompts) /\ rstate' = rstate
  BY <1>1, SameFile
<1>8. /\ Questions(f)' /\ Confirms(f)' /\ Chosen(f)' /\ Copied(f)' /\ Places(f)'
      /\ CopyPosition(f)' = CopyPosition(f) /\ Saved(f)' = Saved(f)
      /\ Resumes(f)' = Resumes(f)
  BY <1>1, <1>7, FileKeeps
<1>9. /\ recvPos[f] = 0 /\ CopyPosition(f) = pos'[f] /\ pos'[f] <= Len(Source[f])
      /\ pos'[f] \in Nat /\ (FileResumed(f) => pos'[f] = Saved(f))
      /\ Resumes(f) => FileResumed(f)
  BY <1>0, <1>3, <1>4, <1>6, Position DEF Says, Resumes, FileResumed
<1>10. Undecided(f)'
  <2>1. choice'[f] \notin {"none", "keep"} /\ task'[f] \notin {"none", "start"}
    BY <1>6, <1>7 DEF FileStays
  <2> QED
    BY <2>1, <1>5 DEF Undecided
<1>11. Streams(f)'
  BY <1>5, <1>6, <1>7, <1>8, <1>9, Position, <1>0 DEF Streams, FileStays
<1>12. ASSUME rstate' = "run" PROVE Carried(f)'
  <2>1. Carried(f) /\ toReceiver \in Seq(ToReceiverMsg)
    BY <1>0, <1>7, <1>12 DEF TypeOK
  <2>2. \A i \in 1..Len(toReceiver) : ~IsBody(toReceiver[i], f)
    BY <1>3 DEF Streamed
  <2>3. UpTo(toReceiver, f, pos'[f])
    BY <2>1, <2>2, <1>9, Nothing
  <2>4. Carries(toReceiver, f, CopyPosition(f), pos'[f], Len(toReceiver))
    BY <1>9, CarriesNothing
  <2>5. task'[f] \in Reads => ~Resumes(f)
    BY <1>6, <1>9 DEF Reads
  <2> QED
    BY <2>1, <2>3, <2>4, <2>5, <1>2, <1>7, <1>8 DEF Carried
<1> QED
  BY <1>7, <1>8, <1>10, <1>11, <1>12 DEF FileCopied

\* What holds when a task sends something of its file's content.
LEMMA SendFacts ==
  ASSUME TurnInv, NEW f \in Files, FileCopied(f), Streaming(f),
         SendBreakPoint(f) \/ SendChunk(f) \/ SendFileDone(f)
  PROVE  /\ Questions(f)' /\ Confirms(f)' /\ Chosen(f)' /\ Copied(f)' /\ Places(f)'
         /\ CopyPosition(f)' = CopyPosition(f) /\ Saved(f)' = Saved(f)
         /\ Resumes(f)' = Resumes(f)
         /\ Undecided(f)'
         /\ UNCHANGED <<up, rstate, choice, recvPos>>
<1>0. /\ TypeOK /\ FileTurn(f) /\ Undecided(f)
  BY TurnInvFacts DEF FileCopied
<1>1. UNCHANGED <<receiverVars, up, toSender, confirmQ>> /\ Words(f)' \subseteq Words(f)
  BY TaskSame DEF SendSingleFile
<1>2. FileStays(f) /\ (\A p \in prompts' : p \in prompts)
  BY <1>1, SameFile
<1>3. choice[f] \notin {"none", "keep"}
  BY <1>0 DEF Undecided
<1>4. ~Requested(f) /\ ~Questioned(f)
  BY <1>0 DEF FileTurn, RequestTurn, QuestionTurn, Unanswered, Streaming
<1>5. UNCHANGED toReceiver \/ \E m : Post(m) /\ m.type \in Body
  BY DEF SendBreakPoint, SendChunk, SendFileDone, ToReceiver
<1>6. ~Requested(f)'
  <2>1. CASE UNCHANGED toReceiver
    BY <2>1, <1>4 DEF Requested
  <2>2. ASSUME NEW m, Post(m), m.type \in Body PROVE ~Requested(f)'
    <3>1. \A i \in 1..Len(toReceiver') :
             (i \in 1..Len(toReceiver) /\ toReceiver'[i] = toReceiver[i])
               \/ toReceiver'[i] = m
      <4>1. CASE UNCHANGED toReceiver
        BY <4>1
      <4>2. CASE toReceiver' = Append(toReceiver, m)
        <5>1. /\ Len(toReceiver') = Len(toReceiver) + 1 /\ Len(toReceiver) \in Nat
              /\ \A i \in 1..Len(toReceiver) : toReceiver'[i] = toReceiver[i]
              /\ toReceiver'[Len(toReceiver) + 1] = m
          BY <4>2, <1>0, AppendElements DEF TypeOK
        <5> QED
          BY <5>1
      <4> QED
        BY <4>1, <4>2, <2>2 DEF Post
    <3>2. ~IsRequest(m, f)
      BY <2>2 DEF IsRequest
    <3> QED
      BY <3>1, <3>2, <1>4 DEF Requested
  <2> QED
    BY <2>1, <2>2, <1>5
<1>7. ~Questioned(f)' /\ task'[f] \notin {"none", "start"} /\ choice' = choice
  BY <1>0, <1>1, <1>4 DEF Questioned, TypeOK, SendBreakPoint, SendChunk, SendFileDone, End
<1>8. Undecided(f)'
  BY <1>3, <1>6, <1>7 DEF Undecided
<1> QED
  BY <1>1, <1>2, <1>8, FileKeeps

\* The accepted breakpoint.
LEMMA PointCopied ==
  ASSUME TurnInv, NEW f \in Files, FileCopied(f), SendBreakPoint(f)
  PROVE  FileCopied(f)'
<1>0. /\ TypeOK /\ FileTurn(f) /\ Chosen(f) /\ Streams(f)
      /\ rstate = "run" => Carried(f)
  BY TurnInvFacts DEF FileCopied
<1>1. task[f] = "point" /\ Streaming(f)
  BY DEF SendBreakPoint, Streaming
<1>2. /\ Questions(f)' /\ Confirms(f)' /\ Chosen(f)' /\ Copied(f)' /\ Places(f)'
      /\ CopyPosition(f)' = CopyPosition(f) /\ Saved(f)' = Saved(f)
      /\ Resumes(f)' = Resumes(f) /\ Undecided(f)'
      /\ UNCHANGED <<up, rstate, choice, recvPos>>
  BY <1>1, SendFacts
<1>3. /\ pos[f] = Saved(f) /\ CopyPosition(f) = Saved(f) /\ Resumes(f) /\ ~Streamed(f)
      /\ Saved(f) \in Nat /\ Saved(f) <= Len(Source[f])
  BY <1>0, <1>1, Position DEF Streams, Resumes
<1>4. task'[f] = "stream" /\ pos'[f] = pos[f]
  BY <1>0 DEF SendBreakPoint, TypeOK
<1>5. Streams(f)'
  BY <1>2, <1>3, <1>4 DEF Streams
<1>6. ASSUME rstate' = "run" PROVE Carried(f)'
  <2>1. Carried(f) /\ toReceiver \in Seq(ToReceiverMsg)
    BY <1>0, <1>2, <1>6 DEF TypeOK
  <2>2. Carries(toReceiver', f, CopyPosition(f), pos[f], Len(toReceiver'))
    BY <1>3, CarriesNothing
  <2>3. CASE up
    <3> DEFINE m == ToReceiver("BreakPoint", f, pos[f])
    <3>1. toReceiver' = Append(toReceiver, m)
      BY <2>3 DEF SendBreakPoint, Post
    <3>2. IsPoint(m, f) /\ m.n = Saved(f)
      BY <1>3 DEF IsPoint, ToReceiver
    <3>3. \A i \in 1..Len(toReceiver) : ~IsBody(toReceiver[i], f)
      BY <1>3 DEF Streamed
    <3> HIDE DEF m
    <3>4. /\ Flow(toReceiver', f, CopyPosition(f)) /\ HasPoint(toReceiver', f)
          /\ AfterPoint(toReceiver', f) /\ PointFirst(toReceiver', f, Saved(f))
          /\ UpTo(toReceiver', f, pos[f])
      BY <3>1, <3>2, <3>3, <2>1, <1>3, SendPoint
    <3> QED
      BY <3>4, <2>2, <1>2, <1>3, <1>4 DEF Carried
  <2>4. CASE ~up
    <3>1. UNCHANGED toReceiver
      BY <2>4 DEF SendBreakPoint, Post
    <3>2. UpTo(toReceiver, f, pos[f])
      BY <2>1, <1>1 DEF Carried
    <3> QED
      BY <3>1, <3>2, <2>1, <2>4, <1>2, <1>4 DEF Carried
  <2> QED
    BY <2>3, <2>4
<1> QED
  BY <1>2, <1>5, <1>6 DEF FileCopied

\* The next chunk.
LEMMA ChunkCopied ==
  ASSUME TurnInv, NEW f \in Files, FileCopied(f), SendChunk(f)
  PROVE  FileCopied(f)'
<1>0. /\ TypeOK /\ FileTurn(f) /\ Chosen(f) /\ Streams(f)
      /\ rstate = "run" => Carried(f)
  BY TurnInvFacts DEF FileCopied
<1>1. task[f] = "send" /\ Streaming(f)
  BY DEF SendChunk, Streaming
<1>2. /\ Questions(f)' /\ Confirms(f)' /\ Chosen(f)' /\ Copied(f)' /\ Places(f)'
      /\ CopyPosition(f)' = CopyPosition(f) /\ Saved(f)' = Saved(f)
      /\ Resumes(f)' = Resumes(f) /\ Undecided(f)'
      /\ UNCHANGED <<up, rstate, choice, recvPos>>
  BY <1>1, SendFacts
<1>3. /\ CopyPosition(f) <= pos[f] /\ pos[f] < Len(Source[f])
      /\ CopyPosition(f) \in Nat /\ pos[f] \in Nat /\ Len(Source[f]) \in Nat
      /\ Resumes(f) => Saved(f) \in Nat
  BY <1>0, <1>1, Position DEF Streams, SendChunk, Resumes
<1>4. task'[f] = "stream" /\ pos'[f] = pos[f] + 1
  BY <1>0 DEF SendChunk, TypeOK
<1>5. Streams(f)'
  BY <1>2, <1>3, <1>4 DEF Streams
<1>6. ASSUME rstate' = "run" PROVE Carried(f)'
  <2>1. Carried(f) /\ toReceiver \in Seq(ToReceiverMsg)
    BY <1>0, <1>2, <1>6 DEF TypeOK
  <2>2. UpTo(toReceiver, f, pos[f])
    BY <2>1, <1>1 DEF Carried
  <2>3. CASE up
    <3> DEFINE m == ToReceiver("FileData", f, pos[f] + 1)
    <3>1. toReceiver' = Append(toReceiver, m)
      BY <2>3 DEF SendChunk, Post
    <3>2. IsData(m, f) /\ m.n = pos[f] + 1
      BY DEF IsData, ToReceiver
    <3>3. Carries(toReceiver, f, CopyPosition(f), pos[f], Len(toReceiver))
      BY <2>1, <2>3, <1>1 DEF Carried, Reads
    <3>4. Flow(toReceiver, f, CopyPosition(f))
      BY <2>1 DEF Carried
    <3> HIDE DEF m
    <3>5. /\ Flow(toReceiver', f, CopyPosition(f))
          /\ UpTo(toReceiver', f, pos[f] + 1)
          /\ Carries(toReceiver', f, CopyPosition(f), pos[f] + 1, Len(toReceiver'))
          /\ HasPoint(toReceiver', f) <=> HasPoint(toReceiver, f)
          /\ AfterPoint(toReceiver, f) /\ HasPoint(toReceiver, f)
               => AfterPoint(toReceiver', f)
          /\ \A n \in Nat : PointFirst(toReceiver, f, n) => PointFirst(toReceiver', f, n)
      BY <3>1, <3>2, <3>3, <3>4, <2>1, <2>2, <1>3, SendData
    <3>6. PointFirst(toReceiver', f, Saved(f))
      <4>1. CASE HasPoint(toReceiver', f)
        BY <4>1, <3>5, <2>1, <1>3 DEF Carried
      <4>2. CASE ~HasPoint(toReceiver', f)
        BY <4>2 DEF PointFirst, HasPoint
      <4> QED
        BY <4>1, <4>2
    <3>7. Resumes(f) => HasPoint(toReceiver, f) /\ AfterPoint(toReceiver, f)
      BY <2>1, <2>3, <1>1 DEF Carried, Reads
    <3>8. HasPoint(toReceiver, f) => Resumes(f)
      BY <2>1 DEF Carried
    <3> QED
      BY <3>5, <3>6, <3>7, <3>8, <1>2, <1>4 DEF Carried
  <2>4. CASE ~up
    <3>1. UNCHANGED toReceiver
      BY <2>4 DEF SendChunk, Post
    <3>2. UpTo(toReceiver, f, pos[f] + 1)
      BY <2>1, <2>2, <1>3, MessageFields DEF UpTo
    <3> QED
      BY <3>1, <3>2, <2>1, <2>4, <1>2, <1>4 DEF Carried
  <2> QED
    BY <2>3, <2>4
<1> QED
  BY <1>2, <1>5, <1>6 DEF FileCopied

\* FileDone, behind the last chunk.
LEMMA LastCopied ==
  ASSUME TurnInv, NEW f \in Files, FileCopied(f), SendFileDone(f)
  PROVE  FileCopied(f)'
<1>0. /\ TypeOK /\ FileTurn(f) /\ Chosen(f) /\ Streams(f)
      /\ rstate = "run" => Carried(f)
  BY TurnInvFacts DEF FileCopied
<1>1. task[f] = "send" /\ Streaming(f)
  BY DEF SendFileDone, Streaming
<1>2. /\ Questions(f)' /\ Confirms(f)' /\ Chosen(f)' /\ Copied(f)' /\ Places(f)'
      /\ CopyPosition(f)' = CopyPosition(f) /\ Saved(f)' = Saved(f)
      /\ Resumes(f)' = Resumes(f) /\ Undecided(f)'
      /\ UNCHANGED <<up, rstate, choice, recvPos>>
  BY <1>1, SendFacts
<1>3. /\ pos[f] = Len(Source[f])
      /\ CopyPosition(f) \in Nat /\ Len(Source[f]) \in Nat
      /\ Resumes(f) => Saved(f) \in Nat
  BY <1>0, <1>1, Position DEF Streams, SendFileDone, Resumes
<1>4. task'[f] = "ok" /\ ~Streaming(f)'
  BY <1>0 DEF SendFileDone, End, TypeOK, Streaming
<1>5. Streams(f)'
  BY <1>4 DEF Streams
<1>6. ASSUME rstate' = "run" PROVE Carried(f)'
  <2>1. Carried(f) /\ toReceiver \in Seq(ToReceiverMsg)
    BY <1>0, <1>2, <1>6 DEF TypeOK
  <2>2. task'[f] \notin Reads
    BY <1>4 DEF Reads
  <2>3. CASE up
    <3> DEFINE m == ToReceiver("FileDone", f, 0)
    <3>1. toReceiver' = Append(toReceiver, m)
      BY <2>3 DEF SendFileDone, Post
    <3>2. IsDone(m, f)
      BY DEF IsDone, ToReceiver
    <3>3. Carries(toReceiver, f, CopyPosition(f), Len(Source[f]), Len(toReceiver))
      BY <2>1, <2>3, <1>1, <1>3 DEF Carried, Reads
    <3>4. Flow(toReceiver, f, CopyPosition(f))
      BY <2>1 DEF Carried
    <3> HIDE DEF m
    <3>5. /\ Flow(toReceiver', f, CopyPosition(f))
          /\ HasPoint(toReceiver', f) <=> HasPoint(toReceiver, f)
          /\ AfterPoint(toReceiver, f) /\ HasPoint(toReceiver, f)
               => AfterPoint(toReceiver', f)
          /\ \A n \in Nat : PointFirst(toReceiver, f, n) => PointFirst(toReceiver', f, n)
      BY <3>1, <3>2, <3>3, <3>4, <2>1, <1>3, SendLast
    <3>6. PointFirst(toReceiver', f, Saved(f))
      <4>1. CASE HasPoint(toReceiver', f)
        BY <4>1, <3>5, <2>1, <1>3 DEF Carried
      <4>2. CASE ~HasPoint(toReceiver', f)
        BY <4>2 DEF PointFirst, HasPoint
      <4> QED
        BY <4>1, <4>2
    <3>7. Resumes(f) => HasPoint(toReceiver, f) /\ AfterPoint(toReceiver, f)
      BY <2>1, <2>3, <1>1 DEF Carried, Reads
    <3>8. HasPoint(toReceiver, f) => Resumes(f)
      BY <2>1 DEF Carried
    <3> QED
      BY <3>5, <3>6, <3>7, <3>8, <2>2, <1>2, <1>4 DEF Carried
  <2>4. CASE ~up
    <3>1. UNCHANGED toReceiver
      BY <2>4 DEF SendFileDone, Post
    <3> QED
      BY <3>1, <2>1, <2>2, <1>2, <1>4 DEF Carried
  <2> QED
    BY <2>3, <2>4
<1> QED
  BY <1>2, <1>5, <1>6 DEF FileCopied

\* Whatever a task does, for any file.
LEMMA TaskCopied ==
  ASSUME TurnInv, NEW f \in Files, SendSingleFile(f) \/ TaskFails(f),
         NEW g \in Files, FileCopied(g)
  PROVE  FileCopied(g)'
<1>1. CASE g # f
  BY <1>1, TaskOther
<1>2. CASE g = f
  <2>1. CASE \/ RequestFile(f) \/ FileKept(f) \/ DirAccepted(f) \/ ConfirmTimeout(f)
             \/ ReadChunk(f) \/ StreamCancelled(f) \/ TaskFails(f)
    BY <1>2, <2>1, TaskQuiet
  <2>2. CASE FileResumed(f) \/ FileAccepted(f)
    BY <1>2, <2>2, BeginCopied
  <2>3. CASE SendBreakPoint(f)
    BY <1>2, <2>3, PointCopied
  <2>4. CASE SendChunk(f)
    BY <1>2, <2>4, ChunkCopied
  <2>5. CASE SendFileDone(f)
    BY <1>2, <2>5, LastCopied
  <2> QED
    BY <2>1, <2>2, <2>3, <2>4, <2>5 DEF SendSingleFile
<1> QED
  BY <1>1, <1>2

-----------------------------------------------------------------------------
(* The receiver's steps.                                                   *)

\* A reply about another file, or none, says nothing about g.
LEMMA WordsOther ==
  ASSUME TypeOK, UNCHANGED <<confirmQ, oneshot>>, NEW g,
         UNCHANGED toSender \/ \E m : Reply(m) /\ ~IsConfirm(m, g)
  PROVE  Words(g)' \subseteq Words(g)
<1>1. CASE UNCHANGED toSender
  BY <1>1, WordsSame
<1>2. CASE \E m : Reply(m) /\ ~IsConfirm(m, g)
  BY <1>2, WordsReply
<1> QED
  BY <1>1, <1>2

\* What a handler of f, or an answer about it, does.
FileMessage(f) ==
  \/ RecvDirRequest(f) \/ RecvNewFile(f) \/ RecvExistingFile(f)
  \/ RecvBreakPoint(f) \/ RecvFileData(f) \/ RecvFileDone(f)

\* To the other files it does nothing.
LEMMA ReceiverOther ==
  ASSUME TurnInv, NEW f \in Files, FileMessage(f) \/ AnswerFile(f),
         NEW g \in Files, g # f, FileCopied(g)
  PROVE  FileCopied(g)'
<1>0. TypeOK /\ Chosen(g) /\ rstate = "run"
  BY DEF TurnInv, FileCopied, FileMessage, RecvDirRequest, RecvNewFile, RecvExistingFile,
         RecvBreakPoint, RecvFileData, RecvFileDone, AnswerFile, Overwrite, Keep, ResumeAt,
         Restart, ReceivedFile, Received, Asked
<1>1. UNCHANGED <<up, task, pos, confirmQ, oneshot>>
  BY DEF FileMessage, RecvDirRequest, RecvNewFile, RecvExistingFile, RecvBreakPoint,
         RecvFileData, RecvFileDone, AnswerFile, Overwrite, Keep, ResumeAt, Restart
<1>2. FileStays(g)
  <2>1. /\ choice' = choice \/ \E c : choice' = [choice EXCEPT ![f] = c]
        /\ recvPos' = recvPos \/ \E n : recvPos' = [recvPos EXCEPT ![f] = n]
        /\ disk' = disk \/ \E c : disk' = [disk EXCEPT ![f] = c]
        /\ old' = old
        /\ recvFiles' \subseteq recvFiles \cup {f}
        /\ finished' \subseteq finished \cup {f}
    <3>1. CASE RecvDirRequest(f) \/ RecvNewFile(f) \/ RecvExistingFile(f)
      BY <3>1 DEF RecvDirRequest, RecvNewFile, RecvExistingFile, Open
    <3>2. CASE RecvBreakPoint(f) \/ RecvFileData(f) \/ RecvFileDone(f)
      BY <3>2 DEF RecvBreakPoint, RecvFileData, RecvFileDone
    <3>3. CASE AnswerFile(f)
      BY <3>3 DEF AnswerFile, Overwrite, Keep, ResumeAt, Restart
    <3> QED
      BY <3>1, <3>2, <3>3 DEF FileMessage
  <2> QED
    BY <2>1, <1>0 DEF FileStays, TypeOK
<1>3. Words(g)' \subseteq Words(g)
  <2>1. \/ UNCHANGED toSender
        \/ \E k \in {"newFile", "breakPoint"}, a \in BOOLEAN, n \in Nat :
             Reply(FileConfirm(k, f, a, n))
    <3>1. CASE RecvDirRequest(f) \/ RecvNewFile(f)
      BY <3>1 DEF RecvDirRequest, RecvNewFile, Accept
    <3>2. CASE RecvExistingFile(f) \/ RecvBreakPoint(f) \/ RecvFileData(f) \/ RecvFileDone(f)
      BY <3>2 DEF RecvExistingFile, RecvBreakPoint, RecvFileData, RecvFileDone
    <3>3. CASE Overwrite(f) \/ Keep(f)
      BY <3>3 DEF Overwrite, Keep, Accept
    <3>4. ASSUME NEW n \in 0..Len(Source[f]), ResumeAt(f, n) \/ Restart(f, n)
          PROVE  \E k \in {"newFile", "breakPoint"}, a \in BOOLEAN, l \in Nat :
                    Reply(FileConfirm(k, f, a, l))
      <4>1. n \in Nat
        BY ContentsAssumption
      <4> QED
        BY <3>4, <4>1 DEF ResumeAt, Restart
    <3> QED
      BY <3>1, <3>2, <3>3, <3>4 DEF FileMessage, AnswerFile
  <2>2. \A k, a, n : ~IsConfirm(FileConfirm(k, f, a, n), g)
    BY DEF IsConfirm, FileConfirm
  <2>3. UNCHANGED toSender \/ \E m : Reply(m) /\ ~IsConfirm(m, g)
    BY <2>1, <2>2, Zenon
  <2> QED
    BY <2>3, <1>0, <1>1, WordsOther
<1>4. /\ LinkStays(g) /\ (Streamed(g)' => Streamed(g))
      /\ Requested(g)' => Requested(g)
  <2>1. UNCHANGED toReceiver \/ \E t : Received(t) /\ Head(toReceiver).file = f
    BY DEF FileMessage, RecvDirRequest, RecvNewFile, RecvExistingFile, RecvBreakPoint,
           RecvFileData, RecvFileDone, AnswerFile, Overwrite, Keep, ResumeAt, Restart,
           ReceivedFile
  <2>2. CASE UNCHANGED toReceiver
    BY <1>1, <2>2, LinkSame, SameQuiet DEF LinkQuiet
  <2>3. ASSUME NEW t, Received(t), Head(toReceiver).file = f
        PROVE  /\ LinkStays(g) /\ (Streamed(g)' => Streamed(g))
               /\ Requested(g)' => Requested(g)
    <3>1. ~IsBody(Head(toReceiver), g)
      BY <2>3 DEF IsBody
    <3>2. LinkQuiet(g)
      BY <2>3, <1>0, TakeQuiet
    <3> QED
      BY <2>3, <3>1, <3>2, <1>0, <1>1, TakeStays DEF LinkQuiet
  <2> QED
    BY <2>1, <2>2, <2>3
<1>5. \A p \in prompts' : p.file = g => p \in prompts
  <2>1. prompts' \subseteq prompts \/ \E p : p.file = f /\ prompts' = prompts \cup {p}
    <3>1. CASE RecvExistingFile(f)
      <4> DEFINE b == [kind |-> "breakPoint", file |-> f, n |-> SavedChunks(disk[f])]
                 d == [kind |-> "duplicate", file |-> f, n |-> 0]
      <4>1. prompts' = prompts \cup {b} \/ prompts' = prompts \cup {d}
        BY <3>1 DEF RecvExistingFile
      <4>2. b.file = f /\ d.file = f
        OBVIOUS
      <4> HIDE DEF b, d
      <4> QED
        BY <4>1, <4>2
    <3>2. CASE ~RecvExistingFile(f)
      BY <3>2 DEF FileMessage, RecvDirRequest, RecvNewFile, RecvBreakPoint,
         RecvFileData, RecvFileDone, AnswerFile, Overwrite, Keep, ResumeAt, Restart
    <3> QED
      BY <3>1, <3>2
  <2> QED
    BY <2>1
<1>6. Questioned(g)' => Questioned(g)
  BY <1>5 DEF Questioned, IsQuestion
<1>7. TalkStays(g) /\ TaskStays(g)
  BY <1>1, <1>3, <1>4, <1>5, <1>6 DEF TalkStays, TaskStays
<1> QED
  BY <1>0, <1>2, <1>4, <1>7, StaysCopied

\* What is about the share, and failures, concern no file's content.
LEMMA OtherCopied ==
  ASSUME TurnInv, NEW g \in Files, FileCopied(g),
         \/ RecvSendRequest \/ RecvDone \/ (\E a \in BOOLEAN : AnswerShare(a))
         \/ Cancel \/ LinkDown \/ (\E f \in Files : RecvIoError(f))
         \/ UNCHANGED vars
  PROVE  FileCopied(g)'
<1>0. TypeOK /\ Chosen(g)
  BY DEF TurnInv, FileCopied
<1> USE DEF RecvSendRequest, RecvDone, AnswerShare, Cancel, RecvIoError
<1>1. /\ UNCHANGED <<task, pos, confirmQ, oneshot, fileVars, historyVars>>
      /\ rstate' = rstate \/ rstate' = "ioError"
  BY DEF LinkDown, vars
<1>2. FileStays(g)
  BY <1>1 DEF FileStays
<1>3. Words(g)' \subseteq Words(g)
  <2>1. CASE LinkDown
    BY <2>1, <1>0, WordsDown
  <2>2. CASE ~LinkDown
    <3>1. \/ UNCHANGED toSender
          \/ \E k \in {"share", "done"}, a \in BOOLEAN :
               Reply([kind |-> k, file |-> 0, accept |-> a, n |-> 0])
      BY <2>2 DEF vars
    <3>2. \A k \in {"share", "done"} : \A a :
            ~IsConfirm([kind |-> k, file |-> 0, accept |-> a, n |-> 0], g)
      BY DEF IsConfirm
    <3>3. UNCHANGED toSender \/ \E m : Reply(m) /\ ~IsConfirm(m, g)
      BY <3>1, <3>2, Zenon
    <3> QED
      BY <3>3, <1>0, <1>1, WordsOther
  <2> QED
    BY <2>1, <2>2
<1>4. /\ (Streamed(g)' => Streamed(g)) /\ (Requested(g)' => Requested(g))
      /\ rstate' = "run" => rstate = "run" /\ LinkStays(g)
  <2>1. CASE LinkDown
    BY <2>1, <1>0, DownStays, PrefixQuiet DEF LinkDown, LinkQuiet
  <2>2. CASE UNCHANGED toReceiver /\ ~LinkDown
    <3>1. UNCHANGED <<up, rstate>>
      <4>1. ASSUME NEW f \in Files, RecvIoError(f) PROVE FALSE
        <5>1. toReceiver # <<>> /\ Tail(toReceiver) = toReceiver
          BY <2>2, <4>1 DEF ReceivedFile, Received
        <5>2. Len(Tail(toReceiver)) = Len(toReceiver) - 1 /\ Len(toReceiver) \in Nat
          BY <5>1, <1>0, TailElements DEF TypeOK
        <5> QED
          BY <5>1, <5>2
      <4> HIDE DEF RecvIoError
      <4> QED
        BY <4>1, <2>2 DEF vars
    <3> QED
      BY <3>1, <2>2, LinkSame, SameQuiet DEF LinkQuiet
  <2>3. ASSUME NEW t \in {"SendRequest", "Done", "NewFileRequest", "FileData"}, Received(t)
        PROVE  (Streamed(g)' => Streamed(g)) /\ (Requested(g)' => Requested(g))
    BY <2>3, <1>0, TakeQuiet DEF LinkQuiet
  <2>4. ASSUME NEW t \in {"SendRequest", "Done"}, Received(t), UNCHANGED up
        PROVE  rstate = "run" /\ LinkStays(g)
    <3>1. ~IsBody(Head(toReceiver), g) /\ rstate = "run"
      BY <2>4 DEF Received, IsBody
    <3> QED
      BY <2>4, <3>1, <1>0, TakeStays
  <2>5. \/ LinkDown \/ UNCHANGED toReceiver
        \/ (\E t \in {"SendRequest", "Done"} : Received(t)) /\ UNCHANGED up
        \/ (\E t \in {"NewFileRequest", "FileData"} : Received(t)) /\ rstate' = "ioError"
    BY DEF ReceivedFile, vars
  <2> QED
    BY <2>1, <2>2, <2>3, <2>4, <2>5
<1>5. \A p \in prompts' : p.kind \in {"duplicate", "breakPoint"} => p \in prompts
  <2>1. prompts' \subseteq prompts \cup {[kind |-> "share", file |-> 0, n |-> 0]}
    BY DEF LinkDown, vars
  <2> QED
    BY <2>1
<1>6. Questioned(g)' => Questioned(g)
  BY <1>5 DEF Questioned, IsQuestion
<1>7. TalkStays(g) /\ TaskStays(g)
  BY <1>1, <1>3, <1>4, <1>5, <1>6 DEF TalkStays, TaskStays
<1> QED
  BY <1>0, <1>2, <1>4, <1>7, StaysCopied

\* Before anything is streamed there is nothing to be carried.
LEMMA CalmCopied ==
  ASSUME NEW f \in Files, Unanswered(f), ~Streamed(f)', UNCHANGED task
  PROVE  Carried(f)' /\ Streams(f)' /\ ~Streaming(f)'
         /\ task'[f] \notin {"none", "start"}
<1>1. task'[f] \notin {"none", "start", "point", "stream", "send"}
  BY DEF Unanswered
<1>2. ~Streaming(f)' /\ task'[f] \notin Reads
  BY <1>1 DEF Streaming, Reads
<1>3. \A i \in 1..Len(toReceiver') : ~IsBody(toReceiver'[i], f)
  BY DEF Streamed
<1>4. /\ Flow(toReceiver', f, CopyPosition(f)')
      /\ AfterPoint(toReceiver', f) /\ ~HasPoint(toReceiver', f)
      /\ PointFirst(toReceiver', f, Saved(f)')
  BY <1>3, Nothing
<1> QED
  BY <1>1, <1>2, <1>4 DEF Carried, Streams

\* The receiver's answer is the only word about the file.
LEMMA FirstWord ==
  ASSUME TypeOK, NEW f, ~Replied(f), ~Queued(f), ~Confirmed(f),
         UNCHANGED <<confirmQ, oneshot>>, NEW m, Reply(m)
  PROVE  \A c \in Words(f)' : c = m
BY WordsReply, NoWords

\* What is known of a file whose request arrives.
LEMMA RequestFacts ==
  ASSUME TurnInv, NEW f \in Files, FileCopied(f), ReceivedFile("NewFileRequest", f)
  PROVE  /\ TypeOK /\ Unanswered(f) /\ ~Questioned(f)
         /\ ~Replied(f) /\ ~Queued(f) /\ ~Confirmed(f)
         /\ ~Requested(f)' /\ ~Streamed(f)'
         /\ choice[f] = "none" /\ disk[f] = old[f] /\ recvPos[f] = 0
         /\ f \notin finished
<1>1. /\ Unanswered(f) /\ ~Questioned(f) /\ ~Streamed(f)
      /\ ~Replied(f) /\ ~Queued(f) /\ ~Confirmed(f)
      /\ ~Requested(f)' /\ (Streamed(f)' => Streamed(f))
  BY HeadRequest
<1>2. TypeOK /\ Received("NewFileRequest") /\ IsRequest(Head(toReceiver), f)
  BY DEF TurnInv, ReceivedFile, Received, IsRequest
<1>3. Requested(f)
  BY <1>2, TakeQuiet
<1>4. choice[f] = "none" /\ disk[f] = old[f] /\ recvPos[f] = 0
  BY <1>3 DEF FileCopied, Undecided
<1>5. f \notin finished
  BY <1>4 DEF FileCopied, Places, Copying
<1> QED
  BY <1>1, <1>2, <1>4, <1>5

\* An empty directory is made.
LEMMA DirCopied ==
  ASSUME TurnInv, NEW f \in Files, FileCopied(f), RecvDirRequest(f)
  PROVE  FileCopied(f)'
<1>1. /\ TypeOK /\ Unanswered(f) /\ ~Questioned(f)
      /\ ~Replied(f) /\ ~Queued(f) /\ ~Confirmed(f)
      /\ ~Requested(f)' /\ ~Streamed(f)'
      /\ choice[f] = "none" /\ disk[f] = old[f] /\ recvPos[f] = 0
      /\ f \notin finished
  BY RequestFacts DEF RecvDirRequest
<1>2. /\ UNCHANGED <<senderVars, prompts, fileVars, old, finished>>
      /\ Reply(Accept(f)) /\ choice'[f] = "create" /\ f \in EmptyDirs
  BY <1>1 DEF RecvDirRequest, TypeOK
<1>3. Carried(f)' /\ Streams(f)' /\ ~Streaming(f)' /\ task'[f] \notin {"none", "start"}
  BY <1>1, <1>2, CalmCopied
<1>4. ~Questioned(f)'
  BY <1>1, <1>2 DEF Questioned
<1>5. Confirms(f)'
  <2>1. \A c \in Words(f)' : c = Accept(f)
    BY <1>1, <1>2, FirstWord
  <2>2. Says(Accept(f), f)'
    BY <1>1, <1>2 DEF Says, Accept, FileConfirm
  <2> QED
    BY <2>1, <2>2 DEF Confirms, Accept, FileConfirm, Says
<1>6. Undecided(f)'
  BY <1>1, <1>2, <1>3, <1>4 DEF Undecided
<1>7. Questions(f)'
  BY <1>2 DEF FileCopied, Questions, Saved
<1>8. Chosen(f)' /\ Copied(f)'
  BY <1>2 DEF Chosen, Copied
<1>9. Places(f)'
  BY <1>1, <1>2 DEF FileCopied, Places
<1> QED
  BY <1>3, <1>5, <1>6, <1>7, <1>8, <1>9 DEF FileCopied

\* A new file is created.
LEMMA NewCopied ==
  ASSUME TurnInv, NEW f \in Files, FileCopied(f), RecvNewFile(f)
  PROVE  FileCopied(f)'
<1>1. /\ TypeOK /\ Unanswered(f) /\ ~Questioned(f)
      /\ ~Replied(f) /\ ~Queued(f) /\ ~Confirmed(f)
      /\ ~Requested(f)' /\ ~Streamed(f)'
      /\ choice[f] = "none" /\ disk[f] = old[f] /\ recvPos[f] = 0
      /\ f \notin finished
  BY RequestFacts DEF RecvNewFile
<1>2. /\ UNCHANGED <<senderVars, prompts, old, finished>>
      /\ Reply(Accept(f)) /\ choice'[f] = "create" /\ f \notin EmptyDirs
      /\ disk'[f] = <<>> /\ recvPos'[f] = 0
  BY <1>1 DEF RecvNewFile, Open, TypeOK
<1>3. Carried(f)' /\ Streams(f)' /\ ~Streaming(f)' /\ task'[f] \notin {"none", "start"}
  BY <1>1, <1>2, CalmCopied
<1>4. ~Questioned(f)'
  BY <1>1, <1>2 DEF Questioned
<1>5. Confirms(f)'
  <2>1. \A c \in Words(f)' : c = Accept(f)
    BY <1>1, <1>2, FirstWord
  <2>2. Says(Accept(f), f)'
    BY <1>1, <1>2 DEF Says, Accept, FileConfirm
  <2> QED
    BY <2>1, <2>2 DEF Confirms, Accept, FileConfirm, Says
<1>6. Undecided(f)'
  BY <1>1, <1>2, <1>3, <1>4 DEF Undecided
<1>7. Questions(f)'
  BY <1>2 DEF FileCopied, Questions, Saved
<1>8. Chosen(f)'
  BY <1>2 DEF Chosen
<1>9. Copied(f)'
  <2>1. CopyPosition(f)' = 0 /\ Base(f)' = <<>> /\ From(f)' = 0
    BY <1>2 DEF CopyPosition, Base, From
  <2>2. Len(disk'[f]) = 0 /\ disk'[f] # NoFile /\ Len(Source[f]) \in Nat
    BY <1>2, EmptyContent, ContentsAssumption
  <2> QED
    BY <1>2, <2>1, <2>2 DEF Copied, Larger
<1>10. Places(f)'
  BY <1>1, <1>2 DEF Places
<1> QED
  BY <1>3, <1>5, <1>6, <1>7, <1>8, <1>9, <1>10 DEF FileCopied

\* An existing file is opened as it is, and the user asked.
LEMMA ExistingCopied ==
  ASSUME TurnInv, NEW f \in Files, FileCopied(f), RecvExistingFile(f)
  PROVE  FileCopied(f)'
<1>1. /\ TypeOK /\ Unanswered(f) /\ ~Questioned(f)
      /\ ~Replied(f) /\ ~Queued(f) /\ ~Confirmed(f)
      /\ ~Requested(f)' /\ ~Streamed(f)'
      /\ choice[f] = "none" /\ disk[f] = old[f] /\ recvPos[f] = 0
      /\ f \notin finished
  BY RequestFacts DEF RecvExistingFile
<1>2. /\ UNCHANGED <<senderVars, toSender, disk, old, choice, finished>>
      /\ f \notin EmptyDirs /\ recvPos'[f] = 0 /\ choice'[f] = "none"
  BY <1>1 DEF RecvExistingFile, Open, TypeOK
<1>3. Carried(f)' /\ Streams(f)' /\ ~Streaming(f)' /\ task'[f] \notin {"none", "start"}
  BY <1>1, <1>2, CalmCopied
<1>4. Words(f) = {} /\ Words(f)' \subseteq Words(f)
  BY <1>1, <1>2, NoWords, WordsSame
<1>5. Confirms(f)'
  BY <1>4 DEF Confirms
<1>6. Undecided(f)'
  BY <1>1, <1>2, <1>3 DEF Undecided
<1>7. Questions(f)'
  <2> DEFINE b == [kind |-> "breakPoint", file |-> f, n |-> SavedChunks(disk[f])]
             d == [kind |-> "duplicate", file |-> f, n |-> 0]
  <2>1. prompts' = prompts \cup {IF AtBreakPoint(disk[f], Source[f]) THEN b ELSE d}
    BY DEF RecvExistingFile
  <2>2. b.n = Saved(f) /\ d.kind = "duplicate"
    BY <1>1 DEF Saved
  <2>3. Questions(f) /\ Saved(f)' = Saved(f)
    BY <1>2 DEF FileCopied, Saved
  <2> HIDE DEF b, d
  <2> QED
    BY <2>1, <2>2, <2>3, <1>1, <1>2 DEF Questions
<1>8. Chosen(f)' /\ Copied(f)' /\ Places(f)'
  BY <1>1, <1>2 DEF Chosen, Copied, Copying, Places
<1> QED
  BY <1>3, <1>5, <1>6, <1>7, <1>8 DEF FileCopied

\* What is known of a file when content arrives for it.
LEMMA BodyFacts ==
  ASSUME TurnInv, NEW f \in Files, FileCopied(f), NEW t \in Body, ReceivedFile(t, f)
  PROVE  /\ TypeOK /\ Streamed(f) /\ ~Requested(f)' /\ ~Questioned(f)
         /\ Words(f) = {} /\ task[f] \notin {"none", "start", "point"}
         /\ f \in recvFiles /\ f \notin EmptyDirs \cup finished
         /\ choice[f] \in Copying /\ Carried(f) /\ Chosen(f)
         /\ toReceiver \in Seq(ToReceiverMsg) /\ toReceiver # <<>>
         /\ toReceiver' = Tail(toReceiver)
         /\ Head(toReceiver).type = t /\ Head(toReceiver).file = f
<1>1. /\ TypeOK /\ FileTurn(f) /\ Received(t) /\ Head(toReceiver).file = f
      /\ IsBody(Head(toReceiver), f)
  BY TurnInvFacts DEF ReceivedFile, Received, IsBody
<1>2. Streamed(f) /\ LinkQuiet(f)
  BY <1>1, TakeQuiet
<1>3. /\ ~Requested(f) /\ ~Questioned(f) /\ ~Replied(f) /\ ~Queued(f) /\ ~Confirmed(f)
      /\ task[f] \notin {"none", "start"} /\ f \in recvFiles
  BY <1>1, <1>2 DEF FileTurn, UnaskedTurn, RequestTurn, QuestionTurn, ConfirmTurn, StreamTurn
<1>4. choice[f] \in Copying /\ task[f] # "point"
  BY <1>1, <1>2 DEF FileCopied, Undecided, Streams, TypeOK, Copying
<1>5. f \notin EmptyDirs \cup finished /\ Chosen(f)
  BY <1>3 DEF FileCopied, Places
<1>6. Carried(f)
  BY <1>1 DEF FileCopied, Received
<1> QED
  BY <1>1, <1>2, <1>3, <1>4, <1>5, <1>6, NoWords DEF LinkQuiet, Received, TypeOK

\* The accepted breakpoint moves the writer behind the saved chunks.
LEMMA BreakPointCopied ==
  ASSUME TurnInv, NEW f \in Files, FileCopied(f), RecvBreakPoint(f)
  PROVE  FileCopied(f)' /\ CopyPosition(f)' = CopyPosition(f)
<1>1. /\ TypeOK /\ Streamed(f) /\ ~Requested(f)' /\ ~Questioned(f)
      /\ Words(f) = {} /\ task[f] \notin {"none", "start", "point"}
      /\ f \in recvFiles /\ f \notin EmptyDirs \cup finished
      /\ choice[f] \in Copying /\ Carried(f) /\ Chosen(f)
      /\ toReceiver \in Seq(ToReceiverMsg) /\ toReceiver # <<>>
      /\ toReceiver' = Tail(toReceiver)
      /\ Head(toReceiver).type = "BreakPoint" /\ Head(toReceiver).file = f
  BY BodyFacts DEF RecvBreakPoint
<1>2. /\ UNCHANGED <<up, toSender, senderVars, prompts, recvFiles, disk, historyVars>>
      /\ recvPos'[f] = Head(toReceiver).n
  BY <1>1 DEF RecvBreakPoint, TypeOK
<1>3. IsPoint(Head(toReceiver), f) /\ CopyPosition(f) \in Nat
  BY <1>1, Position DEF IsPoint
<1>4. HasPoint(toReceiver, f)
  <2>1. Len(toReceiver) \in Nat \ {0} /\ toReceiver[1] = Head(toReceiver)
    BY <1>1, TailElements
  <2> QED
    BY <1>3, <2>1 DEF HasPoint
<1>5. /\ Resumes(f) /\ choice[f] = "resume" /\ Saved(f) \in Nat
      /\ CopyPosition(f) = Saved(f)
  BY <1>1, <1>4, Position DEF Carried, Resumes
<1>6. PointFirst(toReceiver, f, Saved(f)) /\ Flow(toReceiver, f, CopyPosition(f))
  BY <1>1 DEF Carried
<1> DEFINE q == toReceiver
           P == CopyPosition(f)
<1>7. /\ Head(q).n = Saved(f) /\ ~HasPoint(Tail(q), f)
      /\ Flow(Tail(q), f, P)
      /\ \A k \in Nat : UpTo(q, f, k) => UpTo(Tail(q), f, k)
      /\ \A k \in Nat : Carries(q, f, P, k, Len(q))
                          => Carries(Tail(q), f, P, k, Len(Tail(q)))
  BY <1>1, <1>3, <1>5, <1>6, TakePoint
<1>8. /\ Saved(f)' = Saved(f) /\ recvPos'[f] = Saved(f) /\ ~Resumes(f)'
      /\ CopyPosition(f)' = P /\ Base(f)' = Base(f) /\ From(f)' = From(f)
      /\ choice'[f] = choice[f] /\ task'[f] = task[f] /\ pos'[f] = pos[f]
  <2>1. Saved(f)' = Saved(f) /\ recvPos'[f] = Saved(f)
    BY <1>2, <1>7 DEF Saved
  <2> QED
    BY <2>1, <1>2, <1>5 DEF Resumes, CopyPosition, Saved, Base, From
<1> HIDE DEF q, P
<1>9. Carried(f)'
  <2>1. Flow(toReceiver', f, P) /\ ~HasPoint(toReceiver', f)
    BY <1>1, <1>7 DEF q
  <2>2. Streaming(f)' => UpTo(toReceiver', f, pos[f])
    BY <1>1, <1>2, <1>7 DEF q, Carried, Streaming, TypeOK
  <2>3. up' /\ task'[f] \in Reads => Carries(toReceiver', f, P, pos[f], Len(toReceiver'))
    BY <1>1, <1>2, <1>7 DEF q, P, Carried, TypeOK
  <2>4. PointFirst(toReceiver', f, Saved(f))
    BY <2>1 DEF PointFirst, HasPoint
  <2> QED
    BY <1>8, <2>1, <2>2, <2>3, <2>4 DEF Carried
<1>10. Streams(f)'
  BY <1>1, <1>2, <1>8 DEF FileCopied, Streams, Streaming, P
<1>11. Words(f)' = {}
  BY <1>1, <1>2, WordsSame
<1>12. Confirms(f)' /\ Questions(f)'
  BY <1>2, <1>8, <1>11 DEF Confirms, FileCopied, Questions
<1>13. ~Questioned(f)'
  BY <1>1, <1>2 DEF Questioned
<1>14. Undecided(f)'
  BY <1>1, <1>8, <1>13 DEF Undecided, Copying
<1>15. Chosen(f)' /\ Copied(f)' /\ Places(f)'
  BY <1>1, <1>2, <1>8 DEF FileCopied, Chosen, Copied, Places, P
<1> QED
  BY <1>8, <1>9, <1>10, <1>12, <1>14, <1>15 DEF FileCopied, P

\* A chunk is the next one, and is written where it belongs.
LEMMA DataFacts ==
  ASSUME TurnInv, NEW f \in Files, FileCopied(f), RecvFileData(f)
  PROVE  /\ Head(toReceiver).n = CopyPosition(f) + 1
         /\ CopyPosition(f) = recvPos[f] /\ ~Resumes(f)
         /\ CopyPosition(f) < Len(Source[f])
         /\ Flow(Tail(toReceiver), f, recvPos[f] + 1) /\ ~HasPoint(Tail(toReceiver), f)
         /\ \A k \in Nat : UpTo(toReceiver, f, k)
              => UpTo(Tail(toReceiver), f, k) /\ recvPos[f] + 1 <= k
         /\ \A k \in Nat : Carries(toReceiver, f, recvPos[f], k, Len(toReceiver))
              => Carries(Tail(toReceiver), f, recvPos[f] + 1, k, Len(Tail(toReceiver)))
<1>1. /\ TypeOK /\ Carried(f) /\ Chosen(f)
      /\ toReceiver \in Seq(ToReceiverMsg) /\ toReceiver # <<>>
      /\ Head(toReceiver).type = "FileData" /\ Head(toReceiver).file = f
  BY BodyFacts DEF RecvFileData
<1>2. /\ CopyPosition(f) \in Nat /\ recvPos[f] \in Nat
      /\ Resumes(f) => Saved(f) \in Nat
      /\ CopyPosition(f) = IF Resumes(f) THEN Saved(f) ELSE recvPos[f]
  BY <1>1, Position DEF Resumes
<1>3. IsData(Head(toReceiver), f) /\ Flow(toReceiver, f, CopyPosition(f))
  BY <1>1 DEF IsData, Carried
<1> DEFINE q == toReceiver
           P == CopyPosition(f)
<1>4. /\ Head(q).n = P + 1
      /\ Flow(Tail(q), f, P + 1)
      /\ \A k \in Nat : UpTo(q, f, k) => UpTo(Tail(q), f, k) /\ P + 1 <= k
      /\ \A k \in Nat : Carries(q, f, P, k, Len(q))
                          => Carries(Tail(q), f, P + 1, k, Len(Tail(q)))
      /\ \A k \in Nat : PointFirst(q, f, k) => ~HasPoint(q, f)
      /\ HasPoint(Tail(q), f) => HasPoint(q, f)
      /\ AfterPoint(q, f) => HasPoint(q, f)
  BY <1>1, <1>2, <1>3, TakeChunk
<1>5. ~HasPoint(q, f)
  <2> SUFFICES ASSUME HasPoint(q, f) PROVE FALSE
    OBVIOUS
  <2>1. Saved(f) \in Nat /\ PointFirst(q, f, Saved(f))
    BY <1>1, <1>2 DEF Carried
  <2> QED
    BY <2>1, <1>4
<1>6. ~Resumes(f)
  BY <1>1, <1>4, <1>5 DEF Carried
<1>7. P = recvPos[f]
  BY <1>2, <1>6
<1>8. P < Len(Source[f])
  <2>1. Head(q) \in ToReceiverMsg
    BY <1>1, HeadTail
  <2>2. Head(q).n \in 1..Len(Source[f])
    BY <2>1, <1>1 DEF ToReceiverMsg
  <2>3. Len(Source[f]) \in Nat
    BY ContentsAssumption
  <2> QED
    BY <2>2, <2>3, <1>2, <1>4
<1> HIDE DEF q, P
<1>9. \A k \in Nat : Carries(q, f, recvPos[f], k, Len(q))
         => Carries(Tail(q), f, recvPos[f] + 1, k, Len(Tail(q)))
  BY <1>4, <1>7
<1>10. /\ Flow(Tail(q), f, recvPos[f] + 1) /\ ~HasPoint(Tail(q), f)
       /\ \A k \in Nat : UpTo(q, f, k) => UpTo(Tail(q), f, k) /\ recvPos[f] + 1 <= k
  BY <1>4, <1>5, <1>7
<1> QED
  BY <1>4, <1>6, <1>7, <1>8, <1>9, <1>10 DEF q, P


\* One chunk more is copied.
LEMMA ChunkWritten ==
  ASSUME TypeOK, NEW f \in Files, Chosen(f), Copied(f), f \in recvFiles,
         f \notin EmptyDirs, choice[f] \in Copying,
         CopyPosition(f) = recvPos[f], recvPos[f] < Len(Source[f]),
         UNCHANGED <<old, choice>>, CopyPosition(f)' = recvPos[f] + 1,
         disk'[f] = WriteAt(disk[f], recvPos[f], Source[f][recvPos[f] + 1])
  PROVE  Copied(f)'
<1> DEFINE P == recvPos[f]
           s == disk[f]
           b == Base(f)
           c == Source[f][recvPos[f] + 1]
<1>1. P \in Nat /\ Len(Source[f]) \in Nat /\ c \in Chunk /\ s \in Seq(Chunk)
  <2>1. P \in Nat /\ Len(Source[f]) \in Nat /\ P + 1 \in 1..Len(Source[f])
    BY ContentsAssumption DEF TypeOK
  <2>2. s \in Seq(Chunk) /\ Source[f] \in Seq(Chunk)
    BY ContentsAssumption DEF TypeOK
  <2> QED
    BY <2>1, <2>2
<1>2. /\ From(f) <= P /\ From(f) \in Nat
      /\ Len(s) = Larger(Len(b), P)
      /\ \A i \in 1..Len(s) : s[i] = IF From(f) < i /\ i <= P THEN Source[f][i] ELSE b[i]
  BY <1>1, Position DEF Copied, From
<1>3. Len(b) \in Nat
  <2>1. choice[f] \in {"overwrite", "resume"} => old[f] \in Seq(Chunk)
    BY DEF TypeOK, Chosen
  <2> QED
    BY <2>1, EmptyContent DEF Base
<1>4. /\ From(f)' = From(f) /\ Base(f)' = b /\ choice'[f] = choice[f]
      /\ CopyPosition(f)' = P + 1
  BY DEF From, Base, Saved
<1>5. disk'[f] = WriteAt(s, P, c)
  OBVIOUS
<1> HIDE DEF P, s, b, c
<1>6. P <= Len(s) /\ Len(s) \in Nat
  BY <1>1, <1>2, <1>3 DEF Larger
<1>7. /\ disk'[f] \in Seq(Chunk)
      /\ Len(disk'[f]) = IF P < Len(s) THEN Len(s) ELSE P + 1
      /\ \A i \in 1..Len(disk'[f]) : disk'[f][i] = IF i = P + 1 THEN c ELSE s[i]
  <2> DEFINE w == WriteAt(s, P, c)
  <2>1. /\ w \in Seq(Chunk) /\ Len(w) = IF P < Len(s) THEN Len(s) ELSE P + 1
        /\ \A i \in 1..Len(w) : w[i] = IF i = P + 1 THEN c ELSE s[i]
    BY <1>1, <1>6, Written
  <2>2. disk'[f] = w
    BY <1>5
  <2> HIDE DEF w
  <2> QED
    BY <2>1, <2>2
<1>8. Len(disk'[f]) = Larger(Len(b), P + 1)
  BY <1>1, <1>2, <1>3, <1>6, <1>7 DEF Larger
<1>9. ASSUME NEW i \in 1..Len(disk'[f])
      PROVE  disk'[f][i] = IF From(f) < i /\ i <= P + 1 THEN Source[f][i] ELSE b[i]
  <2>1. CASE i = P + 1
    BY <2>1, <1>1, <1>2, <1>7 DEF c, P
  <2>2. CASE i # P + 1
    <3>1. i \in 1..Len(s) /\ (i <= P + 1 <=> i <= P)
      BY <2>2, <1>1, <1>6, <1>7
    <3>2. disk'[f][i] = s[i]
      BY <2>2, <1>7
    <3> QED
      BY <3>1, <3>2, <1>2
  <2> QED
    BY <2>1, <2>2
<1>10. disk'[f] # NoFile
  BY <1>7, NoFileIsNoContent
<1>11. From(f) <= P + 1 /\ P + 1 <= Len(Source[f])
  BY <1>1, <1>2 DEF P
<1> QED
  BY <1>4, <1>8, <1>9, <1>10, <1>11 DEF Copied

\* A chunk is copied where it belongs.
LEMMA DataCopied ==
  ASSUME TurnInv, NEW f \in Files, FileCopied(f), RecvFileData(f)
  PROVE  FileCopied(f)' /\ CopyPosition(f)' = CopyPosition(f) + 1
<1>1. /\ TypeOK /\ Streamed(f) /\ ~Requested(f)' /\ ~Questioned(f)
      /\ Words(f) = {} /\ task[f] \notin {"none", "start", "point"}
      /\ f \in recvFiles /\ f \notin EmptyDirs \cup finished
      /\ choice[f] \in Copying /\ Carried(f) /\ Chosen(f)
      /\ toReceiver' = Tail(toReceiver)
  BY BodyFacts DEF RecvFileData
<1>2. /\ Head(toReceiver).n = recvPos[f] + 1
      /\ CopyPosition(f) = recvPos[f] /\ ~Resumes(f)
      /\ recvPos[f] < Len(Source[f])
  BY DataFacts
<1>3. /\ Flow(Tail(toReceiver), f, recvPos[f] + 1) /\ ~HasPoint(Tail(toReceiver), f)
      /\ \A k \in Nat : UpTo(toReceiver, f, k)
           => UpTo(Tail(toReceiver), f, k) /\ recvPos[f] + 1 <= k
      /\ \A k \in Nat : Carries(toReceiver, f, recvPos[f], k, Len(toReceiver))
           => Carries(Tail(toReceiver), f, recvPos[f] + 1, k, Len(Tail(toReceiver)))
  BY DataFacts
<1>4. /\ UNCHANGED <<up, toSender, senderVars, prompts, recvFiles, historyVars>>
      /\ recvPos'[f] = recvPos[f] + 1
      /\ disk'[f] = WriteAt(disk[f], recvPos[f], Source[f][recvPos[f] + 1])
  BY <1>1, <1>2 DEF RecvFileData, TypeOK
<1>5. /\ recvPos[f] \in Nat /\ pos[f] \in Nat
      /\ choice[f] = "resume" => Saved(f) \in Nat
  BY <1>1, Position
<1>6. /\ Saved(f)' = Saved(f) /\ ~Resumes(f)' /\ CopyPosition(f)' = recvPos[f] + 1
      /\ choice'[f] = choice[f] /\ task'[f] = task[f] /\ pos'[f] = pos[f]
  <2>1. Saved(f)' = Saved(f) /\ choice'[f] = choice[f]
    BY <1>4 DEF Saved
  <2>2. ~Resumes(f)'
    BY <2>1, <1>2, <1>4, <1>5 DEF Resumes
  <2> QED
    BY <2>1, <2>2, <1>4 DEF Resumes, CopyPosition, Saved
<1>7. Streaming(f) => UpTo(toReceiver', f, pos[f]) /\ recvPos[f] + 1 <= pos[f]
  BY <1>1, <1>3, <1>5 DEF Carried
<1>8. Carried(f)'
  <2>1. up' /\ task'[f] \in Reads
          => Carries(toReceiver', f, recvPos[f] + 1, pos[f], Len(toReceiver'))
    BY <1>1, <1>2, <1>3, <1>4, <1>5, <1>6 DEF Carried
  <2>2. Flow(toReceiver', f, recvPos[f] + 1) /\ ~HasPoint(toReceiver', f)
    BY <1>1, <1>3
  <2>3. PointFirst(toReceiver', f, Saved(f))
    BY <2>2 DEF PointFirst, HasPoint
  <2>4. Streaming(f)' => Streaming(f)
    BY <1>6 DEF Streaming
  <2> QED
    BY <1>6, <1>7, <2>1, <2>2, <2>3, <2>4 DEF Carried
<1>9. Streams(f)'
  BY <1>1, <1>6, <1>7 DEF FileCopied, Streams, Streaming
<1>10. Words(f)' = {}
  BY <1>1, <1>4, WordsSame
<1>11. Confirms(f)' /\ Questions(f)'
  BY <1>4, <1>6, <1>10 DEF Confirms, FileCopied, Questions
<1>12. ~Questioned(f)'
  BY <1>1, <1>4 DEF Questioned
<1>13. Undecided(f)'
  BY <1>1, <1>6, <1>12 DEF Undecided, Copying
<1>14. Copied(f)'
  BY <1>1, <1>2, <1>4, <1>6, ChunkWritten DEF FileCopied
<1>15. Chosen(f)' /\ Places(f)'
  BY <1>1, <1>4, <1>6 DEF FileCopied, Chosen, Places
<1> QED
  BY <1>2, <1>6, <1>8, <1>9, <1>11, <1>13, <1>14, <1>15 DEF FileCopied

\* FileDone closes a file that was copied to its end.
LEMMA DoneCopied ==
  ASSUME TurnInv, NEW f \in Files, FileCopied(f), RecvFileDone(f)
  PROVE  /\ FileCopied(f)'
         /\ choice[f] \in Copying /\ f \notin EmptyDirs \cup finished /\ f \in recvFiles
         /\ CopyPosition(f) = Len(Source[f])
<1>1. /\ TypeOK /\ FileTurn(f) /\ ~Requested(f)' /\ ~Questioned(f)
      /\ Words(f) = {} /\ task[f] \notin {"none", "start", "point"}
      /\ f \in recvFiles /\ f \notin EmptyDirs \cup finished
      /\ choice[f] \in Copying /\ Carried(f) /\ Chosen(f)
      /\ toReceiver \in Seq(ToReceiverMsg) /\ toReceiver # <<>>
      /\ toReceiver' = Tail(toReceiver)
      /\ Head(toReceiver).type = "FileDone" /\ Head(toReceiver).file = f
  BY BodyFacts, TurnInvFacts DEF RecvFileDone
<1>2. /\ UNCHANGED <<up, toSender, senderVars, prompts, recvPos, disk, old, choice>>
      /\ recvFiles' = recvFiles \ {f} /\ finished' = finished \cup {f}
  BY <1>1 DEF RecvFileDone
<1>3. /\ Len(toReceiver) \in Nat \ {0} /\ Len(toReceiver') = Len(toReceiver) - 1
      /\ toReceiver[1] = Head(toReceiver) /\ IsDone(Head(toReceiver), f)
      /\ \A j \in 1..Len(toReceiver') : j + 1 \in 1..Len(toReceiver)
                                        /\ toReceiver'[j] = toReceiver[j + 1]
  BY <1>1, TailElements DEF IsDone
<1>4. task[f] = "ok" /\ \A j \in 1..Len(toReceiver') : ~IsBody(toReceiver'[j], f)
  <2>1. DoneSent(f)
    BY <1>3 DEF DoneSent
  <2>2. ASSUME NEW j \in 1..Len(toReceiver'), IsBody(toReceiver'[j], f) PROVE FALSE
    <3>1. IsBody(toReceiver[j + 1], f) /\ IsDone(toReceiver[1], f)
      BY <2>2, <1>3
    <3>2. j + 1 <= 1
      BY <3>1, <1>1, <1>3 DEF FileTurn, StreamTurn, DoneLast
    <3> QED
      BY <3>2
  <2> QED
    BY <2>1, <2>2, <1>1 DEF FileTurn, StreamTurn
<1>5. CopyPosition(f) = Len(Source[f])
  <2>1. /\ CopyPosition(f) \in Nat /\ Len(Source[f]) \in Nat
        /\ Flow(toReceiver, f, CopyPosition(f))
    BY <1>1, Position DEF Carried
  <2>2. Len(Source[f]) <= CopyPosition(f)
    BY <2>1, <1>1, <1>3, TakeFileDone
  <2>3. CopyPosition(f) <= Len(Source[f])
    BY <1>1 DEF FileCopied, Copied
  <2> QED
    BY <2>1, <2>2, <2>3
<1>6. /\ CopyPosition(f)' = CopyPosition(f) /\ Saved(f)' = Saved(f)
      /\ Base(f)' = Base(f) /\ From(f)' = From(f)
      /\ choice'[f] = choice[f] /\ task'[f] = "ok"
  BY <1>2, <1>4 DEF CopyPosition, Saved, Base, From
<1>7. Carried(f)'
  <2>1. /\ Flow(toReceiver', f, CopyPosition(f)) /\ AfterPoint(toReceiver', f)
        /\ ~HasPoint(toReceiver', f) /\ PointFirst(toReceiver', f, Saved(f))
    BY <1>4, Nothing
  <2> QED
    BY <2>1, <1>6 DEF Carried, Streaming, Reads
<1>8. Streams(f)' /\ Undecided(f)'
  <2>1. ~Questioned(f)'
    BY <1>1, <1>2 DEF Questioned
  <2> QED
    BY <2>1, <1>1, <1>6 DEF Streams, Streaming, Undecided, Copying
<1>9. Words(f)' = {}
  BY <1>1, <1>2, WordsSame
<1>10. Confirms(f)' /\ Questions(f)'
  BY <1>2, <1>6, <1>9 DEF Confirms, FileCopied, Questions
<1>11. Chosen(f)' /\ Copied(f)'
  BY <1>2, <1>6 DEF FileCopied, Chosen, Copied
<1>12. Places(f)'
  BY <1>1, <1>2, <1>5, <1>6 DEF Places
<1> QED
  BY <1>1, <1>5, <1>7, <1>8, <1>10, <1>11, <1>12 DEF FileCopied

-----------------------------------------------------------------------------
(* The answers of the user.                                                *)

\* What is known of a file while a question about it is open.
LEMMA AskedFacts ==
  ASSUME TurnInv, NEW f \in Files, FileCopied(f), NEW p \in prompts, IsQuestion(p, f)
  PROVE  /\ choice[f] = "none" /\ disk[f] = old[f] /\ old[f] \in Seq(Chunk)
         /\ recvPos[f] = 0 /\ f \in recvFiles /\ f \notin EmptyDirs \cup finished
<1>1. TypeOK /\ FileTurn(f) /\ Questioned(f)
  BY TurnInvFacts DEF Questioned
<1>2. choice[f] = "none" /\ disk[f] = old[f] /\ recvPos[f] = 0 /\ f \in recvFiles
  BY <1>1 DEF FileCopied, Undecided, FileTurn, QuestionTurn
<1> QED
  BY <1>1, <1>2 DEF FileCopied, Places, TypeOK

\* What is known of it when it is answered with m.
LEMMA AnswerFacts ==
  ASSUME TurnInv, NEW f \in Files, FileCopied(f), NEW p \in prompts, IsQuestion(p, f),
         prompts' = prompts \ {p}, NEW m, Reply(m),
         UNCHANGED <<toReceiver, senderVars, old, finished>>
  PROVE  /\ Carried(f)' /\ Streams(f)' /\ Questions(f)' /\ \A c \in Words(f)' : c = m
         /\ (disk'[f] = old'[f] /\ recvPos'[f] = 0) \/ choice'[f] \in Copying
              => Undecided(f)'
<1>1. TypeOK /\ FileTurn(f) /\ Questioned(f)
  BY TurnInvFacts DEF Questioned
<1>2. /\ Unanswered(f) /\ ~Requested(f) /\ ~Streamed(f) /\ f \in recvFiles
      /\ ~Replied(f) /\ ~Queued(f) /\ ~Confirmed(f)
  BY <1>1 DEF FileTurn, QuestionTurn, RequestTurn
<1>3. ~Questioned(f)'
  BY <1>1 DEF FileTurn, QuestionTurn, OneQuestion, Questioned
<1>6. ~Requested(f)' /\ ~Streamed(f)'
  BY <1>2 DEF Requested, Streamed
<1>7. Carried(f)' /\ Streams(f)' /\ ~Streaming(f)' /\ task'[f] \notin {"none", "start"}
  BY <1>2, <1>6, CalmCopied
<1>8. \A c \in Words(f)' : c = m
  BY <1>1, <1>2, FirstWord
<1>9. Questions(f)'
  BY DEF FileCopied, Questions, Saved
<1>10. (disk'[f] = old'[f] /\ recvPos'[f] = 0) \/ choice'[f] \in Copying => Undecided(f)'
  BY <1>3, <1>6, <1>7 DEF Undecided, Copying
<1> QED
  BY <1>7, <1>8, <1>9, <1>10

\* "overwrite?" yes: the copy starts over what is there.
LEMMA OverwriteCopied ==
  ASSUME TurnInv, NEW f \in Files, FileCopied(f), Overwrite(f)
  PROVE  FileCopied(f)'
<1>1. /\ Duplicate(f) \in prompts /\ IsQuestion(Duplicate(f), f)
      /\ prompts' = prompts \ {Duplicate(f)} /\ Reply(Accept(f))
      /\ UNCHANGED <<toReceiver, senderVars, old, finished, fileVars>>
  BY DEF Overwrite, Asked, Duplicate, IsQuestion
<1>2. TypeOK /\ choice'[f] = "overwrite"
  BY TurnInvFacts DEF Overwrite, TypeOK
<1>3. /\ choice[f] = "none" /\ disk[f] = old[f] /\ old[f] \in Seq(Chunk)
      /\ recvPos[f] = 0 /\ f \in recvFiles /\ f \notin EmptyDirs \cup finished
      /\ Carried(f)' /\ Streams(f)' /\ Questions(f)' /\ \A c \in Words(f)' : c = Accept(f)
      /\ (disk'[f] = old'[f] /\ recvPos'[f] = 0) \/ choice'[f] \in Copying => Undecided(f)'
  BY <1>1, AnswerFacts, AskedFacts
<1>4. Confirms(f)'
  BY <1>1, <1>2, <1>3 DEF Confirms, Says, Accept, FileConfirm
<1>5. Undecided(f)'
  BY <1>1, <1>3
<1>6. Copied(f)'
  <2>1. CopyPosition(f)' = 0 /\ Base(f)' = old[f] /\ From(f)' = 0
    BY <1>1, <1>2, <1>3 DEF CopyPosition, Base, From
  <2>2. disk'[f] = old[f] /\ Len(old[f]) \in Nat /\ Len(Source[f]) \in Nat /\ old[f] # NoFile
    BY <1>1, <1>3, NoFileIsNoContent, ContentsAssumption
  <2> QED
    BY <2>1, <2>2 DEF Copied, Larger
<1>7. Chosen(f)' /\ Places(f)'
  BY <1>1, <1>2, <1>3, NoFileIsNoContent DEF Chosen, Places
<1> QED
  BY <1>3, <1>4, <1>5, <1>6, <1>7 DEF FileCopied

\* "overwrite?" no: the file is kept.
LEMMA KeepCopied ==
  ASSUME TurnInv, NEW f \in Files, FileCopied(f), Keep(f)
  PROVE  FileCopied(f)'
<1> DEFINE m == FileConfirm("newFile", f, FALSE, 0)
<1>1. /\ Duplicate(f) \in prompts /\ IsQuestion(Duplicate(f), f)
      /\ prompts' = prompts \ {Duplicate(f)} /\ Reply(m)
      /\ UNCHANGED <<toReceiver, senderVars, old, finished, recvPos, disk>>
      /\ recvFiles' = recvFiles \ {f}
  BY DEF Keep, Asked, Duplicate, IsQuestion
<1>2. TypeOK /\ choice'[f] = "keep"
  BY TurnInvFacts DEF Keep, TypeOK
<1>3. /\ choice[f] = "none" /\ disk[f] = old[f] /\ old[f] \in Seq(Chunk)
      /\ recvPos[f] = 0 /\ f \in recvFiles /\ f \notin EmptyDirs \cup finished
      /\ Carried(f)' /\ Streams(f)' /\ Questions(f)' /\ \A c \in Words(f)' : c = m
      /\ (disk'[f] = old'[f] /\ recvPos'[f] = 0) \/ choice'[f] \in Copying => Undecided(f)'
  BY <1>1, AnswerFacts, AskedFacts
<1>4. Confirms(f)'
  BY <1>1, <1>2, <1>3 DEF Confirms, Says, FileConfirm
<1>5. Undecided(f)'
  BY <1>1, <1>3
<1>6. Chosen(f)' /\ Copied(f)' /\ Places(f)'
  BY <1>1, <1>2, <1>3 DEF Chosen, Copied, Copying, Places
<1> QED
  BY <1>3, <1>4, <1>5, <1>6 DEF FileCopied

\* A question to resume is what the answer is about.
LEMMA BreakPointFacts ==
  ASSUME TurnInv, NEW f \in Files, FileCopied(f), NEW n \in 0..Len(Source[f]),
         ResumeAt(f, n) \/ Restart(f, n)
  PROVE  LET p == [kind |-> "breakPoint", file |-> f, n |-> n] IN
         /\ p \in prompts /\ IsQuestion(p, f) /\ prompts' = prompts \ {p}
         /\ AtBreakPoint(old[f], Source[f]) /\ n = Saved(f)
         /\ UNCHANGED <<toReceiver, senderVars, old, finished, recvFiles>>
<1> DEFINE p == [kind |-> "breakPoint", file |-> f, n |-> n]
<1>1. /\ p \in prompts /\ prompts' = prompts \ {p}
      /\ UNCHANGED <<toReceiver, senderVars, old, finished, recvFiles>>
  BY DEF ResumeAt, Restart, Asked
<1>2. IsQuestion(p, f)
  BY DEF IsQuestion
<1>3. AtBreakPoint(old[f], Source[f]) /\ n = Saved(f)
  BY <1>1 DEF FileCopied, Questions
<1> QED
  BY <1>1, <1>2, <1>3

\* "Resume transfer?" yes: the copy starts behind the saved chunks.
LEMMA ResumeCopied ==
  ASSUME TurnInv, NEW f \in Files, FileCopied(f), NEW n \in 0..Len(Source[f]),
         ResumeAt(f, n)
  PROVE  FileCopied(f)'
<1> DEFINE m == FileConfirm("breakPoint", f, TRUE, n)
           p == [kind |-> "breakPoint", file |-> f, n |-> n]
<1>1. /\ p \in prompts /\ IsQuestion(p, f) /\ prompts' = prompts \ {p}
      /\ AtBreakPoint(old[f], Source[f]) /\ n = Saved(f)
      /\ UNCHANGED <<toReceiver, senderVars, old, finished, fileVars>>
      /\ Reply(m)
  BY BreakPointFacts DEF ResumeAt
<1>2. TypeOK /\ choice'[f] = "resume"
  BY TurnInvFacts DEF ResumeAt, TypeOK
<1> HIDE DEF p
<1>3. /\ choice[f] = "none" /\ disk[f] = old[f] /\ old[f] \in Seq(Chunk)
      /\ recvPos[f] = 0 /\ f \in recvFiles /\ f \notin EmptyDirs \cup finished
      /\ Carried(f)' /\ Streams(f)' /\ Questions(f)' /\ \A c \in Words(f)' : c = m
      /\ (disk'[f] = old'[f] /\ recvPos'[f] = 0) \/ choice'[f] \in Copying => Undecided(f)'
  BY <1>1, AnswerFacts, AskedFacts
<1>4. Saved(f)' = n
  BY <1>1 DEF Saved
<1>5. Confirms(f)'
  BY <1>1, <1>2, <1>3, <1>4 DEF Confirms, Says, FileConfirm
<1>6. Undecided(f)'
  BY <1>1, <1>3
<1>7. Chosen(f)' /\ Places(f)'
  BY <1>1, <1>2, <1>3, NoFileIsNoContent DEF Chosen, Places
<1>8. Copied(f)'
  <2>1. /\ Len(old[f]) = Len(Source[f]) /\ Len(Source[f]) \in Nat /\ n \in Nat
        /\ SavedChunks(old[f]) > 0 /\ n = SavedChunks(old[f]) /\ n <= Len(Source[f])
    BY <1>1, ContentsAssumption DEF AtBreakPoint, Saved
  <2>2. CopyPosition(f)' = n /\ Base(f)' = old[f] /\ From(f)' = n
    BY <2>1, <1>1, <1>2, <1>3, <1>4 DEF CopyPosition, Base, From
  <2>3. disk'[f] = old[f] /\ old[f] # NoFile
    BY <1>1, <1>3, NoFileIsNoContent
  <2>4. \A i \in 1..Len(old[f]) : ~(n < i /\ i <= n)
    BY <2>1
  <2> QED
    BY <2>1, <2>2, <2>3, <2>4 DEF Copied, Larger
<1> QED
  BY <1>3, <1>5, <1>6, <1>7, <1>8 DEF FileCopied

\* "Resume transfer?" no: the copy starts in the emptied file.
LEMMA RestartCopied ==
  ASSUME TurnInv, NEW f \in Files, FileCopied(f), NEW n \in 0..Len(Source[f]),
         Restart(f, n)
  PROVE  FileCopied(f)'
<1> DEFINE m == FileConfirm("breakPoint", f, FALSE, 0)
           p == [kind |-> "breakPoint", file |-> f, n |-> n]
<1>1. /\ p \in prompts /\ IsQuestion(p, f) /\ prompts' = prompts \ {p}
      /\ UNCHANGED <<toReceiver, senderVars, old, finished, recvFiles>>
      /\ Reply(m)
  BY BreakPointFacts DEF Restart
<1> HIDE DEF p
<1>2. /\ choice[f] = "none" /\ disk[f] = old[f] /\ old[f] \in Seq(Chunk)
      /\ recvPos[f] = 0 /\ f \in recvFiles /\ f \notin EmptyDirs \cup finished
      /\ Carried(f)' /\ Streams(f)' /\ Questions(f)' /\ \A c \in Words(f)' : c = m
      /\ (disk'[f] = old'[f] /\ recvPos'[f] = 0) \/ choice'[f] \in Copying => Undecided(f)'
  BY <1>1, AnswerFacts, AskedFacts
<1>3. choice'[f] = "restart" /\ disk'[f] = <<>> /\ recvPos'[f] = 0
  BY <1>2, TurnInvFacts DEF Restart, TypeOK
<1>4. Confirms(f)'
  BY <1>1, <1>2, <1>3 DEF Confirms, Says, FileConfirm
<1>5. Undecided(f)'
  BY <1>2, <1>3 DEF Copying
<1>6. Chosen(f)' /\ Places(f)'
  BY <1>1, <1>2, <1>3 DEF Chosen, Places
<1>7. Copied(f)'
  <2>1. CopyPosition(f)' = 0 /\ Base(f)' = <<>> /\ From(f)' = 0
    BY <1>3 DEF CopyPosition, Base, From
  <2>2. Len(disk'[f]) = 0 /\ disk'[f] # NoFile /\ Len(Source[f]) \in Nat
    BY <1>3, EmptyContent, ContentsAssumption
  <2> QED
    BY <1>3, <2>1, <2>2 DEF Copied, Larger
<1> QED
  BY <1>2, <1>4, <1>5, <1>6, <1>7 DEF FileCopied

\* Every message about f, and every answer about it, keeps what is known of it.
LEMMA OwnCopied ==
  ASSUME TurnInv, NEW f \in Files, FileCopied(f), FileMessage(f) \/ AnswerFile(f)
  PROVE  FileCopied(f)'
BY DirCopied, NewCopied, ExistingCopied, BreakPointCopied, DataCopied, DoneCopied,
   OverwriteCopied, KeepCopied, ResumeCopied, RestartCopied DEF FileMessage, AnswerFile

-----------------------------------------------------------------------------
(* The invariant holds.                                                    *)

\* At first nothing is asked, said or under way, and the disk is as it was.
LEMMA InitCopied == Init => CopyInv
<1> SUFFICES ASSUME Init PROVE CopyInv
  OBVIOUS
<1>1. ConsentInv /\ TypeOK
  BY InitConsent, InitType
<1>2. ASSUME NEW f \in Files PROVE FileCopied(f)
  <2>1. /\ choice[f] = "none" /\ disk[f] = old[f] /\ recvPos[f] = 0 /\ task[f] = "none"
        /\ finished = {} /\ recvFiles = {} /\ prompts = {} /\ Len(toReceiver) = 0
    BY DEF Init
  <2>2. /\ Flow(toReceiver, f, CopyPosition(f)) /\ ~HasPoint(toReceiver, f)
        /\ PointFirst(toReceiver, f, Saved(f))
    <3>1. \A i \in 1..Len(toReceiver) : ~IsBody(toReceiver[i], f)
      BY <2>1
    <3> QED
      BY <3>1, Nothing
  <2>3. Carried(f)
    BY <2>1, <2>2 DEF Carried, Streaming, Reads, Resumes
  <2>4. Words(f) = {}
    BY NoWords DEF Init, Replied, Queued, Confirmed
  <2>5. Undecided(f) /\ Questions(f) /\ Confirms(f) /\ Streams(f)
    BY <2>1, <2>4 DEF Undecided, Questions, Confirms, Streams, Streaming, Streamed
  <2>6. Chosen(f) /\ Copied(f) /\ Places(f)
    BY <2>1 DEF Chosen, Copied, Copying, Places
  <2> QED
    BY <2>3, <2>5, <2>6 DEF FileCopied
<1> QED
  BY <1>1, <1>2 DEF CopyInv

\* What each kind of step does.
LEMMA NextKinds ==
  ASSUME [Next]_vars
  PROVE  \/ SenderLoop \/ SendFiles \/ Dispatcher
         \/ \E f \in Files : SendSingleFile(f) \/ TaskFails(f)
         \/ \E f \in Files : FileMessage(f) \/ AnswerFile(f)
         \/ RecvSendRequest \/ RecvDone \/ (\E a \in BOOLEAN : AnswerShare(a))
         \/ Cancel \/ LinkDown \/ (\E f \in Files : RecvIoError(f))
         \/ UNCHANGED vars
BY DEF Next, ReceiverLoop, FileMessage, User, Failure, Terminated

\* Every step of the system keeps it, for every file.
LEMMA NextCopied == CopyInv /\ [Next]_vars => CopyInv'
<1> SUFFICES ASSUME CopyInv, [Next]_vars PROVE CopyInv'
  OBVIOUS
<1>1. TurnInv /\ ConsentInv /\ ConsentInv'
  BY NextConsent DEF CopyInv, ConsentInv
<1>2. ASSUME NEW g \in Files PROVE FileCopied(g)'
  <2>1. FileCopied(g)
    BY DEF CopyInv
  <2>2. ASSUME NEW f \in Files, FileMessage(f) \/ AnswerFile(f) PROVE FileCopied(g)'
    <3>1. CASE g = f
      BY <3>1, <2>1, <2>2, <1>1, OwnCopied
    <3>2. CASE g # f
      BY <3>2, <2>1, <2>2, <1>1, ReceiverOther
    <3> QED
      BY <3>1, <3>2
  <2> QED
    BY <2>1, <2>2, <1>1, NextKinds, LoopCopied, SendFilesCopied, TaskCopied, OtherCopied
<1> QED
  BY <1>1, <1>2 DEF CopyInv

\* The link, the confirms, the tasks and the disk agree on every file.
THEOREM CopiesKeepTheirPlace == Spec => []CopyInv
BY InitCopied, NextCopied, PTL DEF Spec

-----------------------------------------------------------------------------
(* A finished file.                                                        *)

\* The first k chunks of s, and those of t behind them.
Joined(s, t, k) == SubSeq(s, 1, k) \o SubSeq(t, k + 1, Len(t))

\* The beginning of a content, and a content put together of two.
LEMMA Parts ==
  ASSUME NEW s \in Seq(Chunk), NEW t \in Seq(Chunk), NEW k \in Nat,
         k <= Len(s), k <= Len(t)
  PROVE  /\ SubSeq(s, 1, k) \in Seq(Chunk) /\ Len(SubSeq(s, 1, k)) = k
         /\ \A i \in 1..k : SubSeq(s, 1, k)[i] = s[i]
         /\ Joined(s, t, k) \in Seq(Chunk) /\ Len(Joined(s, t, k)) = Len(t)
         /\ \A i \in 1..Len(t) : Joined(s, t, k)[i] = IF k < i THEN t[i] ELSE s[i]
<1> DEFINE a == SubSeq(s, 1, k)
           b == SubSeq(t, k + 1, Len(t))
<1>1. Len(s) \in Nat /\ Len(t) \in Nat
  OBVIOUS
<1>2. a \in Seq(Chunk) /\ Len(a) = k /\ \A i \in 1..k : a[i] = s[i]
  BY <1>1
<1>3. /\ b \in Seq(Chunk) /\ Len(b) = Len(t) - k
      /\ \A i \in 1..(Len(t) - k) : b[i] = t[i + k]
  BY <1>1, SubSeqProperties
<1> HIDE DEF a, b
<1>4. a \o b \in Seq(Chunk) /\ Len(a \o b) = Len(t)
  BY <1>1, <1>2, <1>3, ConcatProperties
<1>5. ASSUME NEW i \in 1..Len(t) PROVE (a \o b)[i] = IF k < i THEN t[i] ELSE s[i]
  <2>1. CASE k < i
    <3>1. i - k \in 1..(Len(t) - k) /\ (i - k) + k = i
      BY <2>1, <1>1
    <3>2. (a \o b)[i] = b[i - k]
      BY <2>1, <1>1, <1>2, <1>3, ConcatProperties
    <3> QED
      BY <2>1, <3>1, <3>2, <1>3
  <2>2. CASE ~(k < i)
    <3>1. i \in 1..k
      BY <2>2, <1>1
    <3>2. (a \o b)[i] = a[i]
      BY <3>1, <1>1, <1>2, <1>3, ConcatProperties
    <3> QED
      BY <2>2, <3>1, <3>2, <1>2
  <2> QED
    BY <2>1, <2>2
<1> QED
  BY <1>2, <1>4, <1>5 DEF a, b, Joined

\* A copy that reached the end holds what it should.
LEMMA CopyFinished == CopyInv => FinishedContent
<1> SUFFICES ASSUME CopyInv, NEW f \in finished, f \in Files
             PROVE  LET n == Len(Source[f]) IN
                    /\ choice[f] \in {"create", "restart"} => disk[f] = Source[f]
                    /\ choice[f] = "overwrite" =>
                         Len(disk[f]) >= n /\ SubSeq(disk[f], 1, n) = Source[f]
                    /\ choice[f] = "resume" =>
                         LET s == SavedChunks(old[f]) IN
                         disk[f] = SubSeq(old[f], 1, s) \o SubSeq(Source[f], s + 1, n)
                    /\ choice[f] \notin {"none", "keep"}
  BY TurnInvFacts DEF FinishedContent, CopyInv, ConsentInv, TypeOK
<1> DEFINE n == Len(Source[f])
<1>1. /\ TypeOK /\ Chosen(f) /\ Copied(f) /\ choice[f] \in Copying
      /\ f \notin EmptyDirs /\ CopyPosition(f) = n
  BY TurnInvFacts DEF CopyInv, ConsentInv, FileCopied, Places
<1>2. /\ Source[f] \in Seq(Chunk) /\ n \in Nat
      /\ disk[f] \in Seq(Chunk) /\ Len(disk[f]) \in Nat
      /\ Len(disk[f]) = Larger(Len(Base(f)), n)
      /\ \A i \in 1..Len(disk[f]) :
           disk[f][i] = IF From(f) < i /\ i <= n THEN Source[f][i] ELSE Base(f)[i]
  <2>1. Source[f] \in Seq(Chunk) /\ n \in Nat
    BY ContentsAssumption
  <2>2. disk[f] \in Seq(Chunk)
    BY <1>1 DEF Copied, TypeOK
  <2> QED
    BY <2>1, <2>2, <1>1 DEF Copied
<1>3. ASSUME choice[f] \in {"create", "restart"} PROVE disk[f] = Source[f]
  <2>1. From(f) = 0 /\ Len(Base(f)) = 0
    BY <1>3, EmptyContent DEF From, Base
  <2>2. Len(disk[f]) = n
    BY <2>1, <1>2 DEF Larger
  <2>3. \A i \in 1..n : disk[f][i] = Source[f][i]
    BY <2>1, <2>2, <1>2
  <2> QED
    BY <2>2, <2>3, <1>2, SeqEqual
<1>4. ASSUME choice[f] = "overwrite"
      PROVE  Len(disk[f]) >= n /\ SubSeq(disk[f], 1, n) = Source[f]
  <2>1. From(f) = 0 /\ Len(Base(f)) \in Nat
    BY <1>1, <1>4 DEF From, Base, Chosen, TypeOK
  <2>2. Len(disk[f]) >= n
    BY <2>1, <1>2 DEF Larger
  <2>3. \A i \in 1..n : disk[f][i] = Source[f][i]
    BY <2>1, <2>2, <1>2
  <2>4. /\ SubSeq(disk[f], 1, n) \in Seq(Chunk) /\ Len(SubSeq(disk[f], 1, n)) = n
        /\ \A i \in 1..n : SubSeq(disk[f], 1, n)[i] = disk[f][i]
    BY <2>2, <1>2, Parts
  <2> QED
    BY <2>2, <2>3, <2>4, <1>2, SeqEqual
<1>5. ASSUME choice[f] = "resume"
      PROVE  LET s == SavedChunks(old[f]) IN
             disk[f] = SubSeq(old[f], 1, s) \o SubSeq(Source[f], s + 1, n)
  <2> DEFINE s == Saved(f)
             u == Joined(old[f], Source[f], s)
  <2>1. s \in Nat /\ s <= n /\ Len(old[f]) = n /\ old[f] \in Seq(Chunk)
    BY <1>1, <1>5, Position DEF Chosen, TypeOK
  <2>2. From(f) = s /\ Base(f) = old[f]
    BY <1>5 DEF From, Base
  <2>3. Len(disk[f]) = n
    BY <2>1, <2>2, <1>2 DEF Larger
  <2>4. u \in Seq(Chunk) /\ Len(u) = n
        /\ \A i \in 1..n : u[i] = IF s < i THEN Source[f][i] ELSE old[f][i]
    <3>1. /\ s \in Nat /\ s <= Len(old[f]) /\ s <= Len(Source[f])
          /\ old[f] \in Seq(Chunk) /\ Source[f] \in Seq(Chunk)
      BY <2>1, <1>2
    <3> HIDE DEF s
    <3> QED
      BY <3>1, Parts
  <2> HIDE DEF u
  <2>5. \A i \in 1..n : disk[f][i] = u[i]
    <3> SUFFICES ASSUME NEW i \in 1..n PROVE disk[f][i] = u[i]
      OBVIOUS
    <3>1. disk[f][i] = IF s < i /\ i <= n THEN Source[f][i] ELSE old[f][i]
      BY <2>2, <2>3, <1>2
    <3> QED
      BY <3>1, <2>4, <1>2
  <2>6. disk[f] = u
    BY <2>3, <2>4, <2>5, <1>2, SeqEqual
  <2> QED
    BY <2>6 DEF Saved, u, Joined
<1> QED
  BY <1>1, <1>3, <1>4, <1>5 DEF Copying

\* A file that is reported finished has the content it should have, whatever
\* the other files, the links and the user did.
THEOREM FinishedIsCopied == Spec => []FinishedContent
BY CopiesKeepTheirPlace, CopyFinished, PTL

-----------------------------------------------------------------------------
(* The transfer implements FileCopy.                                       *)

\* The abstract copy's variables.
State == [f \in Files |-> CopyState(f)]
At    == [f \in Files |-> CopyPosition(f)]

\* Both modules say the same about contents.
LEMMA CopyContents ==
  /\ \A c, p, x : Copy!WriteAt(c, p, x) = WriteAt(c, p, x)
  /\ \A c : Copy!SavedChunks(c) = SavedChunks(c)
  /\ \A c, s : Copy!AtBreakPoint(c, s) <=> AtBreakPoint(c, s)
<1>1. \A S : Copy!Cardinality(S) = Cardinality(S)
  BY DEF Copy!Cardinality, Cardinality
<1>2. \A c, p, x : Copy!WriteAt(c, p, x) = WriteAt(c, p, x)
  BY DEF Copy!WriteAt, WriteAt
<1>3. \A c : Copy!SavedChunks(c) = SavedChunks(c)
  BY <1>1 DEF Copy!SavedChunks, SavedChunks
<1>4. \A c, s : Copy!AtBreakPoint(c, s) <=> AtBreakPoint(c, s)
  BY <1>3 DEF Copy!AtBreakPoint, AtBreakPoint, Copy!MissingChunks, MissingChunks
<1> QED
  BY <1>2, <1>3, <1>4

\* The state of a copy, by what the receiver chose.
LEMMA StateOf ==
  ASSUME NEW f
  PROVE  /\ choice[f] = "none" => CopyState(f) = "pending"
         /\ choice[f] = "keep" => CopyState(f) = "kept"
         /\ choice[f] \in Copying =>
              CopyState(f) = IF f \in finished \cup EmptyDirs THEN "done" ELSE "copying"
BY DEF CopyState, Copying

\* Likewise in the next state.
LEMMA NextStateOf ==
  ASSUME NEW f
  PROVE  /\ choice'[f] = "none" => CopyState(f)' = "pending"
         /\ choice'[f] = "keep" => CopyState(f)' = "kept"
         /\ choice'[f] \in Copying =>
              CopyState(f)' = IF f \in finished' \cup EmptyDirs THEN "done" ELSE "copying"
BY DEF CopyState, Copying

\* What happens to the copies of f alone.
LEMMA OneCopy ==
  ASSUME NEW f \in Files,
         \A g \in Files \ {f} : CopyState(g)' = CopyState(g)
                                /\ CopyPosition(g)' = CopyPosition(g)
  PROVE  /\ State' = [State EXCEPT ![f] = CopyState(f)']
         /\ At' = [At EXCEPT ![f] = CopyPosition(f)']
         /\ State[f] = CopyState(f) /\ At[f] = CopyPosition(f)
BY DEF State, At

\* A message about f, or an answer, leaves the other copies alone.
LEMMA OtherCopies ==
  ASSUME TypeOK, NEW f \in Files, FileMessage(f) \/ AnswerFile(f),
         NEW g \in Files \ {f}
  PROVE  CopyState(g)' = CopyState(g) /\ CopyPosition(g)' = CopyPosition(g)
<1>1. /\ choice'[g] = choice[g] /\ recvPos'[g] = recvPos[g] /\ old' = old
      /\ g \in finished' <=> g \in finished
  <2>1. /\ choice' = choice \/ \E c : choice' = [choice EXCEPT ![f] = c]
        /\ recvPos' = recvPos \/ \E n : recvPos' = [recvPos EXCEPT ![f] = n]
        /\ old' = old
        /\ finished' = finished \/ finished' = finished \cup (recvFiles \cap {f})
    <3>1. CASE RecvDirRequest(f) \/ RecvNewFile(f) \/ RecvExistingFile(f)
      BY <3>1 DEF RecvDirRequest, RecvNewFile, RecvExistingFile, Open
    <3>2. CASE RecvBreakPoint(f) \/ RecvFileData(f) \/ RecvFileDone(f)
      BY <3>2 DEF RecvBreakPoint, RecvFileData, RecvFileDone
    <3>3. CASE AnswerFile(f)
      BY <3>3 DEF AnswerFile, Overwrite, Keep, ResumeAt, Restart
    <3> QED
      BY <3>1, <3>2, <3>3 DEF FileMessage
  <2> QED
    BY <2>1 DEF TypeOK
<1> QED
  BY <1>1 DEF CopyState, CopyPosition

\* A step that touches no file is none of the copy.
LEMMA NoCopy ==
  ASSUME UNCHANGED <<disk, recvPos, old, choice, finished>>
  PROVE  UNCHANGED <<disk, State, At>>
BY DEF State, At, CopyState, CopyPosition

\* Every message about a file, and every answer, is a step of its copy, or none.
LEMMA MessageCopies ==
  ASSUME CopyInv, NEW f \in Files, FileMessage(f)
  PROVE  \/ Copy!Start(f) \/ Copy!CopyChunk(f) \/ Copy!Finish(f) \/ Copy!MakeDir(f)
         \/ UNCHANGED <<disk, State, At>>
<1>1. TurnInv /\ TypeOK /\ FileCopied(f)
  BY TurnInvFacts DEF CopyInv, ConsentInv
<1>2. /\ State' = [State EXCEPT ![f] = CopyState(f)']
      /\ At' = [At EXCEPT ![f] = CopyPosition(f)']
      /\ State[f] = CopyState(f) /\ At[f] = CopyPosition(f)
  BY <1>1, OtherCopies, OneCopy
<1>3. At = [At EXCEPT ![f] = At[f]] /\ State = [State EXCEPT ![f] = State[f]]
  BY DEF At, State
<1>4. CASE RecvDirRequest(f)
  <2>1. choice[f] = "none" /\ f \in EmptyDirs /\ choice'[f] = "create"
        /\ UNCHANGED <<disk, recvPos, old, finished>>
    BY <1>1, <1>4, RequestFacts DEF RecvDirRequest, TypeOK
  <2>2. CopyState(f) = "pending" /\ CopyState(f)' = "done"
    BY <2>1, StateOf, NextStateOf DEF Copying
  <2>3. CopyPosition(f)' = CopyPosition(f)
    BY <2>1 DEF CopyPosition
  <2> QED
    BY <1>2, <1>3, <2>1, <2>2, <2>3 DEF Copy!MakeDir, State, At
<1>5. CASE RecvNewFile(f)
  <2>1. /\ choice[f] = "none" /\ f \notin EmptyDirs \cup finished /\ recvPos[f] = 0
        /\ choice'[f] = "create" /\ recvPos'[f] = 0 /\ UNCHANGED <<old, finished>>
        /\ disk' = [disk EXCEPT ![f] = <<>>]
    BY <1>1, <1>5, RequestFacts DEF RecvNewFile, Open, TypeOK
  <2>2. CopyState(f) = "pending" /\ CopyState(f)' = "copying"
    BY <2>1, StateOf, NextStateOf DEF Copying
  <2>3. CopyPosition(f)' = CopyPosition(f)
    BY <2>1 DEF CopyPosition
  <2> QED
    BY <1>2, <1>3, <2>1, <2>2, <2>3 DEF Copy!Start, State, At
<1>6. CASE RecvExistingFile(f)
  <2>1. /\ UNCHANGED <<disk, old, choice, finished>> /\ recvPos[f] = 0
        /\ recvPos' = [recvPos EXCEPT ![f] = 0]
    BY <1>1, <1>6, RequestFacts DEF RecvExistingFile, Open
  <2>2. recvPos' = recvPos
    BY <2>1, <1>1 DEF TypeOK
  <2> QED
    BY <2>1, <2>2, NoCopy
<1>7. CASE RecvBreakPoint(f)
  <2>1. CopyPosition(f)' = CopyPosition(f) /\ UNCHANGED <<disk, choice, finished>>
    BY <1>1, <1>7, BreakPointCopied DEF RecvBreakPoint
  <2>2. CopyState(f)' = CopyState(f)
    BY <2>1 DEF CopyState
  <2> QED
    BY <1>2, <1>3, <2>1, <2>2
<1>8. CASE RecvFileData(f)
  <2>1. /\ f \in recvFiles /\ f \notin EmptyDirs \cup finished /\ choice[f] \in Copying
    BY <1>1, <1>8, BodyFacts DEF RecvFileData
  <2>2. /\ Head(toReceiver).n = recvPos[f] + 1 /\ CopyPosition(f) = recvPos[f]
        /\ recvPos[f] < Len(Source[f]) /\ CopyPosition(f)' = CopyPosition(f) + 1
    BY <1>1, <1>8, DataFacts, DataCopied
  <2>3. /\ UNCHANGED <<choice, finished>>
        /\ disk' = [disk EXCEPT ![f] =
             WriteAt(@, CopyPosition(f), Source[f][CopyPosition(f) + 1])]
    BY <1>8, <2>1, <2>2 DEF RecvFileData
  <2>4. CopyState(f) = "copying" /\ CopyState(f)' = "copying"
    BY <2>1, <2>3, StateOf, NextStateOf
  <2> QED
    BY <1>2, <1>3, <2>2, <2>3, <2>4, CopyContents DEF Copy!CopyChunk, State, At
<1>9. CASE RecvFileDone(f)
  <2>1. /\ choice[f] \in Copying /\ f \notin EmptyDirs \cup finished /\ f \in recvFiles
        /\ CopyPosition(f) = Len(Source[f])
    BY <1>1, <1>9, DoneCopied
  <2>2. /\ UNCHANGED <<disk, choice, recvPos, old>> /\ f \in finished'
    BY <1>9, <2>1 DEF RecvFileDone
  <2>3. CopyState(f) = "copying" /\ CopyState(f)' = "done"
    BY <2>1, <2>2, StateOf, NextStateOf
  <2>4. CopyPosition(f)' = CopyPosition(f)
    BY <2>2 DEF CopyPosition
  <2> QED
    BY <1>2, <1>3, <2>1, <2>2, <2>3, <2>4 DEF Copy!Finish, State, At
<1> QED
  BY <1>4, <1>5, <1>6, <1>7, <1>8, <1>9 DEF FileMessage

\* An answer starts the copy, or keeps the file.
LEMMA AnswerCopies ==
  ASSUME CopyInv, NEW f \in Files, AnswerFile(f)
  PROVE  Copy!Start(f) \/ Copy!Keep(f)
<1>1. TurnInv /\ TypeOK /\ FileCopied(f)
  BY TurnInvFacts DEF CopyInv, ConsentInv
<1>2. /\ State' = [State EXCEPT ![f] = CopyState(f)']
      /\ At' = [At EXCEPT ![f] = CopyPosition(f)']
      /\ State[f] = CopyState(f) /\ At[f] = CopyPosition(f)
  BY <1>1, OtherCopies, OneCopy
<1>3. At = [At EXCEPT ![f] = At[f]]
  BY DEF At
<1>4. /\ choice[f] = "none" /\ disk[f] = old[f] /\ disk[f] # NoFile
      /\ recvPos[f] = 0 /\ f \in recvFiles /\ f \notin EmptyDirs \cup finished
      /\ UNCHANGED <<old, finished>>
  <2>1. \E p \in prompts : IsQuestion(p, f)
    BY DEF AnswerFile, Overwrite, Keep, ResumeAt, Restart, Asked, Duplicate, IsQuestion
  <2>2. UNCHANGED <<old, finished>>
    BY DEF AnswerFile, Overwrite, Keep, ResumeAt, Restart
  <2> QED
    BY <1>1, <2>1, <2>2, AskedFacts, NoFileIsNoContent
<1>5. CopyState(f) = "pending" /\ CopyPosition(f) = 0
  BY <1>4, StateOf DEF CopyPosition
<1>6. CASE Overwrite(f)
  <2>1. choice'[f] = "overwrite" /\ UNCHANGED <<disk, recvPos>>
    BY <1>1, <1>6 DEF Overwrite, TypeOK
  <2>2. CopyState(f)' = "copying" /\ CopyPosition(f)' = 0
    BY <1>4, <2>1, NextStateOf DEF Copying, CopyPosition
  <2> QED
    BY <1>2, <1>3, <1>4, <1>5, <2>1, <2>2 DEF Copy!Start, State, At
<1>7. CASE Keep(f)
  <2>1. choice'[f] = "keep" /\ UNCHANGED <<disk, recvPos>>
    BY <1>1, <1>7 DEF Keep, TypeOK
  <2>2. CopyState(f)' = "kept" /\ CopyPosition(f)' = 0
    BY <1>4, <2>1, NextStateOf DEF CopyPosition
  <2> QED
    BY <1>2, <1>3, <1>4, <1>5, <2>1, <2>2 DEF Copy!Keep, State, At
<1>8. ASSUME NEW n \in 0..Len(Source[f]), ResumeAt(f, n) PROVE Copy!Start(f)
  <2>1. choice'[f] = "resume" /\ UNCHANGED <<disk, recvPos>>
    BY <1>1, <1>8 DEF ResumeAt, TypeOK
  <2>2. AtBreakPoint(old[f], Source[f])
    BY <1>1, <1>8, BreakPointFacts
  <2>3. CopyState(f)' = "copying"
    BY <1>4, <2>1, NextStateOf DEF Copying
  <2>4. CopyPosition(f)' = SavedChunks(disk[f])
    BY <1>4, <2>1, <2>2 DEF CopyPosition, AtBreakPoint
  <2> QED
    BY <1>2, <1>4, <1>5, <2>1, <2>2, <2>3, <2>4, CopyContents DEF Copy!Start, State, At
<1>9. ASSUME NEW n \in 0..Len(Source[f]), Restart(f, n) PROVE Copy!Start(f)
  <2>1. choice'[f] = "restart" /\ disk' = [disk EXCEPT ![f] = <<>>] /\ recvPos'[f] = 0
    BY <1>1, <1>4, <1>9 DEF Restart, TypeOK
  <2>2. CopyState(f)' = "copying" /\ CopyPosition(f)' = 0
    BY <1>4, <2>1, NextStateOf DEF Copying, CopyPosition
  <2> QED
    BY <1>2, <1>3, <1>4, <1>5, <2>1, <2>2 DEF Copy!Start, State, At
<1> QED
  BY <1>6, <1>7, <1>8, <1>9 DEF AnswerFile

\* At first no copy has started.
LEMMA InitCopy == Init => Copy!Init
<1> SUFFICES ASSUME Init PROVE Copy!Init
  OBVIOUS
<1>1. disk \in [Files -> Seq(Chunk) \cup {NoFile}]
  BY InitType DEF TypeOK
<1>2. \A f \in Files : CopyState(f) = "pending" /\ CopyPosition(f) = 0
  BY StateOf DEF Init, CopyPosition
<1> QED
  BY <1>1, <1>2 DEF Copy!Init

\* All other steps touch no file.
LEMMA StepsBeside ==
  ASSUME [Next]_vars, ~\E f \in Files : FileMessage(f) \/ AnswerFile(f)
  PROVE  UNCHANGED <<disk, recvPos, old, choice, finished>>
<1>1. CASE SenderLoop \/ SendFiles \/ Dispatcher
  BY <1>1 DEF SenderLoop, Ready, ShareAccepted, ShareRejected, EnqueueConfirm,
     DoneReplied, SendFiles, NextFile, SpawnTask, JoinTasks, SendDone, Dispatcher,
     DispatcherStart, Dispatch
<1>2. ASSUME NEW f \in Files, SendSingleFile(f) \/ TaskFails(f)
      PROVE  UNCHANGED <<disk, recvPos, old, choice, finished>>
  BY <1>2 DEF SendSingleFile, RequestFile, FileKept, FileResumed, FileAccepted,
     DirAccepted, ConfirmTimeout, SendBreakPoint, ReadChunk, StreamCancelled,
     SendChunk, SendFileDone, TaskFails
<1>3. CASE \/ RecvSendRequest \/ RecvDone \/ (\E a \in BOOLEAN : AnswerShare(a))
           \/ Cancel \/ LinkDown \/ (\E f \in Files : RecvIoError(f))
           \/ UNCHANGED vars
  BY <1>3 DEF RecvSendRequest, RecvDone, AnswerShare, Cancel, LinkDown,
     RecvIoError, vars
<1> QED
  BY <1>1, <1>2, <1>3, NextKinds

\* Every step copies, or does not touch a copy.
LEMMA NextCopy == CopyInv /\ [Next]_vars => [Copy!Next]_(Copy!vars)
<1> SUFFICES ASSUME CopyInv, [Next]_vars PROVE [Copy!Next]_(Copy!vars)
  OBVIOUS
<1>1. ASSUME NEW f \in Files, FileMessage(f) \/ AnswerFile(f)
      PROVE  [Copy!Next]_(Copy!vars)
  <2>1. \/ Copy!Start(f) \/ Copy!CopyChunk(f) \/ Copy!Finish(f) \/ Copy!MakeDir(f)
        \/ Copy!Keep(f) \/ UNCHANGED <<disk, State, At>>
    BY <1>1, MessageCopies, AnswerCopies
  <2> QED
    BY <2>1 DEF Copy!Next, Copy!vars, State, At
<1>2. CASE ~\E f \in Files : FileMessage(f) \/ AnswerFile(f)
  <2>1. UNCHANGED <<disk, recvPos, old, choice, finished>>
    BY <1>2, StepsBeside
  <2>2. UNCHANGED <<disk, State, At>>
    BY <2>1, NoCopy
  <2> QED
    BY <2>2 DEF Copy!vars, State, At
<1> QED
  BY <1>1, <1>2

\* For any number of files, any contents and any interleaving of tasks, messages
\* and answers, what happens on the receiver's disk is an in-order copy of each
\* file from where the receiver chose to start.
THEOREM TransferCopies == Spec => CopySpec
<1>1. Init => Copy!Init
  BY InitCopy
<1>2. CopyInv /\ [Next]_vars => [Copy!Next]_(Copy!vars)
  BY NextCopy
<1> QED
  BY <1>1, <1>2, CopiesKeepTheirPlace, PTL DEF Spec, CopySpec, Copy!Spec
-----------------------------------------------------------------------------
(* THE END.  Done is the last word: it is sent when every task is over, it *)
(* follows every FileDone, and the reply to it follows the whole transfer. *)

\* Nothing is left to do for f.
Settled(f) == IF f \in EmptyDirs \/ choice[f] = "keep" THEN choice[f] # "none"
                                                       ELSE f \in finished

IsEnd(m) == m.type = "Done"

\* In link q, FileDone of f comes before every Done.
Behind(q, f) ==
  \A i \in 1..Len(q) : IsEnd(q[i]) => \E j \in 1..i : IsDone(q[j], f)

EndSent    == \E i \in 1..Len(toReceiver) : IsEnd(toReceiver[i])
EndReplied == \E i \in 1..Len(toSender) : toSender[i].kind = "done"

\* Done has arrived, on one side or on both.
Closing == EndReplied \/ receiveDone \/ completed

\* send_files spawns every task, and goes on to Done when all of them are over.
Spawned ==
  /\ \A f \in Files : f < nextFile => task[f] # "none"
  /\ ~cancel => /\ sf = "join" => nextFile > NumFiles
                /\ sf \in {"sendDone", "done"} => \A f \in Files : task[f] = "ok"

\* A task that is over has settled its file, or FileDone will; Done comes after.
FileEnd(f) ==
  /\ up /\ ~cancel /\ task[f] = "ok" => Settled(f) \/ DoneSent(f)
  /\ share = "accepted" /\ ~cancel => Settled(f) \/ Behind(toReceiver, f)
  /\ share = "accepted" /\ ~cancel /\ Closing => Settled(f)

EndInv ==
  /\ CopyInv /\ Spawned
  /\ EndSent \/ Closing => share \in {"accepted", "rejected"}
  /\ \A p \in prompts : p = ShareQuestion \/ \E f \in Files : IsQuestion(p, f)
  /\ \A f \in Files : FileEnd(f)

\* How the end of a transfer follows.
LEMMA EndSettled == EndInv => DoneMeansSettled
<1> SUFFICES ASSUME EndInv, receiveDone \/ completed, share = "accepted", ~cancel
             PROVE  /\ prompts = {} /\ recvFiles = {}
                    /\ \A f \in Files : Settled(f)
  BY DEF DoneMeansSettled, Settled
<1>1. TypeOK /\ ShareTurn /\ \A f \in Files : FileCopied(f)
  BY TurnInvFacts DEF EndInv, CopyInv, ConsentInv
<1>2. \A f \in Files : Settled(f)
  BY DEF EndInv, FileEnd, Closing
<1>3. \A f \in Files : choice[f] # "none"
  BY <1>1, <1>2 DEF FileCopied, Places, Settled, Copying
<1>4. prompts = {}
  <2> SUFFICES ASSUME NEW p \in prompts PROVE FALSE
    OBVIOUS
  <2>1. p # ShareQuestion
    BY <1>1 DEF ShareTurn, ShareQuestioned
  <2>2. PICK f \in Files : IsQuestion(p, f)
    BY <2>1 DEF EndInv
  <2>3. choice[f] = "none"
    BY <1>1, <2>2 DEF FileCopied, Undecided, Questioned
  <2> QED
    BY <1>3, <2>3
<1>5. recvFiles = {}
  <2> SUFFICES ASSUME NEW f \in recvFiles PROVE FALSE
    OBVIOUS
  <2>1. f \in Files
    BY <1>1 DEF TypeOK
  <2> QED
    BY <1>1, <1>2, <2>1 DEF FileCopied, Places, Settled
<1> QED
  BY <1>2, <1>4, <1>5

\* What is settled stays settled: a handler or an answer is only about what is not.
LEMMA SettledStays ==
  ASSUME CopyInv, [Next]_vars, NEW f \in Files, Settled(f)
  PROVE  Settled(f)'
<1>1. TurnInv /\ TypeOK /\ FileCopied(f)
  BY TurnInvFacts DEF CopyInv, ConsentInv
<1>2. choice[f] # "none"
  BY <1>1 DEF FileCopied, Places, Settled, Copying
<1>3. choice'[f] = choice[f] /\ (f \in finished => f \in finished')
  <2>1. ASSUME NEW g \in Files, FileMessage(g) \/ AnswerFile(g), g # f
        PROVE  choice'[f] = choice[f] /\ (f \in finished => f \in finished')
    <3>1. /\ choice' = choice \/ \E c : choice' = [choice EXCEPT ![g] = c]
          /\ finished \subseteq finished'
      <4>1. CASE RecvDirRequest(g) \/ RecvNewFile(g) \/ RecvExistingFile(g)
        BY <4>1 DEF RecvDirRequest, RecvNewFile, RecvExistingFile
      <4>2. CASE RecvBreakPoint(g) \/ RecvFileData(g) \/ RecvFileDone(g)
        BY <4>2 DEF RecvBreakPoint, RecvFileData, RecvFileDone
      <4>3. CASE AnswerFile(g)
        BY <4>3 DEF AnswerFile, Overwrite, Keep, ResumeAt, Restart
      <4> QED
        BY <2>1, <4>1, <4>2, <4>3 DEF FileMessage
    <3> QED
      BY <3>1, <2>1, <1>1 DEF TypeOK
  <2>2. CASE FileMessage(f)
    <3>1. ~(RecvDirRequest(f) \/ RecvNewFile(f) \/ RecvExistingFile(f))
      BY <1>1, <1>2, RequestFacts DEF RecvDirRequest, RecvNewFile, RecvExistingFile
    <3> QED
      BY <2>2, <3>1 DEF FileMessage, RecvBreakPoint, RecvFileData, RecvFileDone
  <2>3. ~AnswerFile(f)
    <3> SUFFICES ASSUME AnswerFile(f) PROVE FALSE
      OBVIOUS
    <3>1. \E p \in prompts : IsQuestion(p, f)
      BY DEF AnswerFile, Overwrite, Keep, ResumeAt, Restart, Asked, Duplicate, IsQuestion
    <3> QED
      BY <1>1, <1>2, <3>1, AskedFacts
  <2>4. CASE ~\E g \in Files : FileMessage(g) \/ AnswerFile(g)
    BY <2>4, StepsBeside
  <2> QED
    BY <2>1, <2>2, <2>3, <2>4
<1> QED
  BY <1>2, <1>3 DEF Settled

\* A task does not go back to before it was spawned, nor on when it is over.
LEMMA TaskEdges ==
  ASSUME NEW f \in Files, SendSingleFile(f) \/ TaskFails(f)
  PROVE  /\ \E s \in TaskState \ {"none", "start"} : task' = [task EXCEPT ![f] = s]
         /\ task[f] \notin {"none"} \cup Ended
         /\ UNCHANGED <<nextFile, sf, cancel>>
<1> USE DEF TaskState, Ended, End, Answered
<1>1. CASE RequestFile(f)
  BY <1>1 DEF RequestFile
<1>2. CASE FileKept(f) \/ DirAccepted(f)
  BY <1>2 DEF FileKept, DirAccepted
<1>3. CASE FileResumed(f) \/ FileAccepted(f)
  BY <1>3 DEF FileResumed, FileAccepted
<1>4. CASE ConfirmTimeout(f) \/ SendBreakPoint(f) \/ ReadChunk(f)
  BY <1>4 DEF ConfirmTimeout, SendBreakPoint, ReadChunk
<1>5. CASE StreamCancelled(f) \/ SendChunk(f) \/ SendFileDone(f) \/ TaskFails(f)
  BY <1>5 DEF StreamCancelled, SendChunk, SendFileDone, TaskFails
<1> QED
  BY <1>1, <1>2, <1>3, <1>4, <1>5 DEF SendSingleFile

\* Done is not due before every file was looked at and every task is over.
LEMMA SpawnedStays ==
  ASSUME TypeOK, Spawned, [Next]_vars
  PROVE  Spawned'
<1>1. /\ task \in [Files -> TaskState] /\ nextFile \in 1..(NumFiles + 1)
      /\ sf = "acquire" => nextFile \in Files
      /\ NumFiles \in Nat /\ \A f \in Files : f \in Nat /\ f <= NumFiles
  BY SizesAssumption DEF TypeOK, Files
<1>2. CASE NextFile
  <2>1. /\ UNCHANGED <<task, nextFile, cancel>> /\ sf' \in {"join", "acquire"}
        /\ ~cancel /\ sf' = "join" => nextFile > NumFiles
    BY <1>2 DEF NextFile
  <2> QED
    BY <2>1 DEF Spawned
<1>3. CASE SpawnTask
  <2>1. /\ sf = "acquire" /\ sf' = "loop" /\ nextFile' = nextFile + 1
        /\ task' = [task EXCEPT ![nextFile] = "start"]
    BY <1>3 DEF SpawnTask
  <2>2. \A f \in Files : f < nextFile' => f < nextFile \/ f = nextFile
    BY <2>1, <1>1
  <2>3. \A f \in Files : f < nextFile' => task'[f] # "none"
    BY <2>1, <2>2, <1>1 DEF Spawned
  <2> QED
    BY <2>1, <2>3 DEF Spawned
<1>4. CASE JoinTasks
  <2>1. /\ UNCHANGED <<task, nextFile, cancel>> /\ sf = "join"
        /\ \A f \in Files : task[f] \in Ended \cup {"none"}
        /\ sf' = IF \E f \in Files : task[f] \in {"failed", "timedOut"}
                   THEN "failed" ELSE "sendDone"
    BY <1>4 DEF JoinTasks
  <2>2. ~cancel /\ sf' = "sendDone" => \A f \in Files : task[f] = "ok"
    <3> SUFFICES ASSUME ~cancel, sf' = "sendDone", NEW f \in Files PROVE task[f] = "ok"
      OBVIOUS
    <3>1. f < nextFile
      BY <2>1, <1>1 DEF Spawned
    <3> QED
      BY <3>1, <2>1 DEF Spawned, Ended
  <2>3. sf' \in {"failed", "sendDone"}
    BY <2>1
  <2> QED
    BY <2>1, <2>2, <2>3 DEF Spawned
<1>5. CASE SendDone
  <2>1. UNCHANGED <<task, nextFile, cancel>> /\ sf = "sendDone" /\ sf' \in {"done", "failed"}
    BY <1>5 DEF SendDone
  <2> QED
    BY <2>1 DEF Spawned
<1>6. ASSUME NEW f \in Files, SendSingleFile(f) \/ TaskFails(f) PROVE Spawned'
  <2>1. PICK s \in TaskState \ {"none", "start"} : task' = [task EXCEPT ![f] = s]
    BY <1>6, TaskEdges
  <2>2. task[f] \notin {"none", "ok"} /\ UNCHANGED <<nextFile, sf, cancel>>
    BY <1>6, TaskEdges DEF Ended
  <2> QED
    BY <2>1, <2>2, <1>1 DEF Spawned
<1>7. CASE ShareAccepted
  <2>1. UNCHANGED <<task, nextFile, cancel>> /\ sf' = "loop"
    BY <1>7 DEF ShareAccepted
  <2> QED
    BY <2>1 DEF Spawned
<1>8. CASE UNCHANGED <<task, nextFile, sf>> /\ (~cancel' => ~cancel)
  BY <1>8 DEF Spawned
<1>9. ASSUME NEW f \in Files, FileMessage(f) \/ AnswerFile(f)
      PROVE  UNCHANGED <<task, nextFile, sf, cancel>>
  BY <1>9 DEF FileMessage, RecvDirRequest, RecvNewFile, RecvExistingFile,
     RecvBreakPoint, RecvFileData, RecvFileDone, AnswerFile, Overwrite, Keep, ResumeAt,
     Restart
<1>10. CASE Ready \/ ShareRejected \/ EnqueueConfirm \/ DoneReplied \/ Dispatcher
  <2>1. UNCHANGED <<task, nextFile, sf, cancel>>
    BY <1>10 DEF Ready, ShareRejected, EnqueueConfirm, DoneReplied, Dispatcher,
       DispatcherStart, Dispatch
  <2> QED
    BY <2>1, <1>8
<1>11. CASE RecvSendRequest \/ RecvDone \/ (\E a \in BOOLEAN : AnswerShare(a))
  <2>1. UNCHANGED <<task, nextFile, sf, cancel>>
    BY <1>11 DEF RecvSendRequest, RecvDone, AnswerShare
  <2> QED
    BY <2>1, <1>8
<1>12. CASE Cancel \/ LinkDown \/ (\E f \in Files : RecvIoError(f)) \/ UNCHANGED vars
  <2>1. UNCHANGED <<task, nextFile, sf>> /\ (cancel' = TRUE \/ UNCHANGED cancel)
    BY <1>12 DEF Cancel, LinkDown, RecvIoError, vars
  <2> QED
    BY <2>1, <1>8
<1> QED
  BY <1>2, <1>3, <1>4, <1>5, <1>6, <1>7, <1>8, <1>9, <1>10, <1>11, <1>12, NextKinds
     DEF SenderLoop, SendFiles

-----------------------------------------------------------------------------
(* What a step does to the link, as far as the end is concerned.           *)

\* Appending, taking or losing messages keeps Done behind FileDone.
LEMMA BehindStays ==
  ASSUME NEW q \in Seq(ToReceiverMsg), NEW f
  PROVE  /\ \A m : /\ ~IsEnd(m) \/ \E j \in 1..Len(q) : IsDone(q[j], f)
                   /\ Behind(q, f)
                   => Behind(Append(q, m), f)
         /\ q # <<>> /\ Behind(q, f) =>
              /\ ~IsEnd(Head(q))
              /\ ~IsDone(Head(q), f) => Behind(Tail(q), f)
         /\ \A n \in 0..Len(q) : Behind(q, f) => Behind(SubSeq(q, 1, n), f)
<1>0. Len(q) \in Nat
  OBVIOUS
<1>1. ASSUME NEW m, ~IsEnd(m) \/ \E j \in 1..Len(q) : IsDone(q[j], f), Behind(q, f)
      PROVE  Behind(Append(q, m), f)
  <2> DEFINE r == Append(q, m)
  <2>1. /\ Len(r) = Len(q) + 1 /\ r[Len(q) + 1] = m
        /\ \A i \in 1..Len(q) : r[i] = q[i]
    BY AppendElements
  <2> HIDE DEF r
  <2>2. SUFFICES ASSUME NEW i \in 1..Len(r), IsEnd(r[i])
                 PROVE  \E j \in 1..i : IsDone(r[j], f)
    BY DEF Behind, r
  <2>3. CASE i = Len(q) + 1
    BY <2>1, <2>2, <2>3, <1>0, <1>1
  <2>4. CASE i # Len(q) + 1
    <3>1. i \in 1..Len(q)
      BY <2>1, <2>4, <1>0
    <3>2. PICK j \in 1..i : IsDone(q[j], f)
      BY <3>1, <2>1, <2>2, <1>1 DEF Behind
    <3> QED
      BY <3>1, <3>2, <2>1
  <2> QED
    BY <2>3, <2>4
<1>2. ASSUME q # <<>>, Behind(q, f)
      PROVE  /\ ~IsEnd(Head(q))
             /\ ~IsDone(Head(q), f) => Behind(Tail(q), f)
  <2> DEFINE r == Tail(q)
  <2>1. /\ Len(q) \in Nat \ {0} /\ Len(r) = Len(q) - 1 /\ Head(q) = q[1]
        /\ \A i \in 1..Len(q) - 1 : r[i] = q[i + 1]
    BY <1>2, TailElements
  <2> HIDE DEF r
  <2>2. ~IsEnd(q[1])
    <3> SUFFICES ASSUME IsEnd(q[1]) PROVE FALSE
      OBVIOUS
    <3>1. \E j \in 1..1 : IsDone(q[j], f)
      BY <1>2, <2>1 DEF Behind
    <3> QED
      BY <3>1 DEF IsEnd, IsDone
  <2>3. ASSUME ~IsDone(q[1], f), NEW i \in 1..Len(r), IsEnd(r[i])
        PROVE  \E j \in 1..i : IsDone(r[j], f)
    <3>1. i + 1 \in 1..Len(q) /\ r[i] = q[i + 1]
      BY <2>1
    <3>2. PICK j \in 1..(i + 1) : IsDone(q[j], f)
      BY <3>1, <2>3, <1>2 DEF Behind
    <3>3. j # 1
      BY <3>2, <2>3
    <3>4. PICK k \in 1..i : j = k + 1
      <4>1. i \in Nat /\ j - 1 \in 1..i /\ j = (j - 1) + 1
        BY <3>3
      <4> QED
        BY <4>1
    <3>5. r[k] = q[k + 1]
      BY <3>1, <2>1
    <3> QED
      BY <3>2, <3>4, <3>5
  <2> QED
    BY <2>1, <2>2, <2>3 DEF Behind, r
<1>3. ASSUME NEW n \in 0..Len(q), Behind(q, f) PROVE Behind(SubSeq(q, 1, n), f)
  <2> DEFINE r == SubSeq(q, 1, n)
  <2>1. Len(r) = n /\ n <= Len(q) /\ n \in Nat /\ \A i \in 1..n : r[i] = q[i]
    BY <1>0
  <2> HIDE DEF r
  <2>2. ASSUME NEW i \in 1..Len(r), IsEnd(r[i]) PROVE \E j \in 1..i : IsDone(r[j], f)
    <3>1. i \in 1..Len(q) /\ IsEnd(q[i])
      BY <2>1, <2>2, <1>0
    <3>2. PICK j \in 1..i : IsDone(q[j], f)
      BY <3>1, <1>3 DEF Behind
    <3> QED
      BY <3>2, <2>1
  <2> QED
    BY <2>2 DEF Behind, r
<1> QED
  BY <1>1, <1>2, <1>3

\* Who sends Done, and who takes Done and FileDone.
LEMMA LinkMoves ==
  ASSUME [Next]_vars
  PROVE  \/ UNCHANGED <<toReceiver, up>>
         \/ /\ UNCHANGED up
            /\ \E m : /\ Post(m)
                      /\ IsEnd(m) => SendDone \/ ShareRejected
         \/ /\ UNCHANGED up
            /\ \E t : /\ Received(t) /\ (t = "Done" => RecvDone)
                      /\ t = "FileDone" => \E f \in Files : RecvFileDone(f)
         \/ LinkDown
<1>1. CASE SenderLoop
  BY <1>1 DEF SenderLoop, Ready, ShareAccepted, ShareRejected, EnqueueConfirm,
     DoneReplied, IsEnd, ToReceiver
<1>2. CASE SendFiles \/ Dispatcher
  BY <1>2 DEF SendFiles, NextFile, SpawnTask, JoinTasks, SendDone, Dispatcher,
     DispatcherStart, Dispatch, ToReceiver
<1>3. ASSUME NEW f \in Files, SendSingleFile(f) \/ TaskFails(f)
      PROVE  UNCHANGED up /\ (UNCHANGED toReceiver \/ \E m : Post(m) /\ ~IsEnd(m))
  BY <1>3 DEF SendSingleFile, RequestFile, FileKept, FileResumed, FileAccepted,
     DirAccepted, ConfirmTimeout, SendBreakPoint, ReadChunk, StreamCancelled,
     SendChunk, SendFileDone, TaskFails, ToReceiver, IsEnd
<1>4. ASSUME NEW f \in Files, FileMessage(f)
      PROVE  /\ UNCHANGED up
             /\ \E t : /\ Received(t) /\ t # "Done"
                       /\ t = "FileDone" => RecvFileDone(f)
  BY <1>4 DEF FileMessage, RecvDirRequest, RecvNewFile, RecvExistingFile,
     RecvBreakPoint, RecvFileData, RecvFileDone, ReceivedFile
<1>5. ASSUME NEW f \in Files, AnswerFile(f) PROVE UNCHANGED <<toReceiver, up>>
  BY <1>5 DEF AnswerFile, Overwrite, Keep, ResumeAt, Restart
<1>6. CASE RecvSendRequest \/ RecvDone
  BY <1>6 DEF RecvSendRequest, RecvDone
<1>7. ASSUME NEW f \in Files, RecvIoError(f)
      PROVE  UNCHANGED up /\ \E t : Received(t) /\ t \notin {"Done", "FileDone"}
  BY <1>7 DEF RecvIoError, ReceivedFile
<1>8. CASE (\E a \in BOOLEAN : AnswerShare(a)) \/ Cancel \/ UNCHANGED vars
  BY <1>8 DEF AnswerShare, Cancel, vars
<1> QED
  BY <1>1, <1>2, <1>3, <1>4, <1>5, <1>6, <1>7, <1>8, NextKinds

\* A message that is appended, or the one that is taken, as for FileDone.
LEMMA LinkEnd ==
  ASSUME CopyInv, [Next]_vars, NEW f \in Files
  PROVE  /\ UNCHANGED up /\ DoneSent(f) => Settled(f)' \/ DoneSent(f)'
         /\ Behind(toReceiver, f) /\ (SendDone /\ up => Settled(f) \/ DoneSent(f)) =>
              Settled(f)' \/ Behind(toReceiver', f) \/ ShareRejected
<1>1. TurnInv /\ TypeOK /\ FileCopied(f) /\ toReceiver \in Seq(ToReceiverMsg)
  BY TurnInvFacts DEF CopyInv, ConsentInv, TypeOK
<1>2. Settled(f) => Settled(f)'
  BY SettledStays
<1>3. CASE UNCHANGED <<toReceiver, up>>
  BY <1>3 DEF DoneSent, Behind
<1>4. ASSUME UNCHANGED up, NEW m, Post(m), IsEnd(m) => SendDone \/ ShareRejected
      PROVE  /\ DoneSent(f) => DoneSent(f)'
             /\ Behind(toReceiver, f) /\ (SendDone /\ up => Settled(f) \/ DoneSent(f)) =>
                  Settled(f)' \/ Behind(toReceiver', f) \/ ShareRejected
  <2>1. CASE UNCHANGED toReceiver
    BY <2>1 DEF DoneSent, Behind
  <2>2. CASE up /\ toReceiver' = Append(toReceiver, m)
    <3>1. DoneSent(f) => DoneSent(f)'
      <4>1. /\ Len(toReceiver') = Len(toReceiver) + 1 /\ Len(toReceiver) \in Nat
            /\ \A i \in 1..Len(toReceiver) : toReceiver'[i] = toReceiver[i]
        BY <2>2, <1>1, AppendElements
      <4> QED
        BY <4>1 DEF DoneSent
    <3>2. Behind(toReceiver, f) /\ (~IsEnd(m) \/ DoneSent(f)) => Behind(toReceiver', f)
      BY <2>2, <1>1, BehindStays DEF DoneSent
    <3> QED
      BY <3>1, <3>2, <2>2, <1>2, <1>4
  <2> QED
    BY <2>1, <2>2, <1>4 DEF Post
<1>5. ASSUME UNCHANGED up, NEW t, Received(t), t = "FileDone" => \E g \in Files : RecvFileDone(g)
      PROVE  /\ DoneSent(f) => Settled(f)' \/ DoneSent(f)'
             /\ Behind(toReceiver, f) => Settled(f)' \/ Behind(toReceiver', f)
  <2>1. toReceiver # <<>> /\ toReceiver' = Tail(toReceiver) /\ Head(toReceiver).type = t
    BY <1>5 DEF Received
  <2>2. CASE IsDone(Head(toReceiver), f)
    <3>1. PICK g \in Files : RecvFileDone(g)
      BY <2>1, <2>2, <1>5 DEF IsDone
    <3>2. g = f
      BY <3>1, <2>2 DEF RecvFileDone, ReceivedFile, IsDone
    <3>3. f \in recvFiles /\ choice[f] \in Copying /\ f \notin EmptyDirs
      BY <3>1, <3>2, <1>1, DoneCopied
    <3>4. f \in finished' /\ choice' = choice
      BY <3>1, <3>2, <3>3 DEF RecvFileDone
    <3> QED
      BY <3>3, <3>4 DEF Settled, Copying
  <2>3. CASE ~IsDone(Head(toReceiver), f)
    <3>1. DoneSent(f) => DoneSent(f)'
      <4>1. /\ Len(toReceiver') = Len(toReceiver) - 1 /\ Len(toReceiver) \in Nat \ {0}
            /\ \A i \in 1..Len(toReceiver) - 1 : toReceiver'[i] = toReceiver[i + 1]
            /\ Head(toReceiver) = toReceiver[1]
        BY <2>1, <1>1, TailElements
      <4>2. SUFFICES ASSUME NEW j \in 1..Len(toReceiver), IsDone(toReceiver[j], f)
                     PROVE  \E i \in 1..Len(toReceiver') : IsDone(toReceiver'[i], f)
        BY DEF DoneSent
      <4>3. j # 1
        BY <4>1, <4>2, <2>3
      <4>4. j - 1 \in 1..Len(toReceiver') /\ toReceiver'[j - 1] = toReceiver[(j - 1) + 1]
            /\ (j - 1) + 1 = j
        BY <4>1, <4>3
      <4> QED
        BY <4>2, <4>4
    <3>2. Behind(toReceiver, f) => Behind(toReceiver', f)
      BY <2>1, <2>3, <1>1, BehindStays
    <3> QED
      BY <3>1, <3>2
  <2> QED
    BY <2>2, <2>3
<1>6. CASE LinkDown
  <2>1. PICK n \in 0..Len(toReceiver) : toReceiver' = SubSeq(toReceiver, 1, n)
    BY <1>6 DEF LinkDown
  <2>2. Behind(toReceiver, f) => Behind(toReceiver', f)
    BY <2>1, <1>1, BehindStays
  <2>3. ~UNCHANGED up
    BY <1>6, <1>1 DEF LinkDown
  <2> QED
    BY <2>2, <2>3
<1> QED
  BY <1>3, <1>4, <1>5, <1>6, LinkMoves

\* A task ends well when its file was kept or made, or FileDone goes out.
LEMMA TaskOver ==
  ASSUME CopyInv, [Next]_vars, NEW f \in Files, up, ~cancel, task[f] # "ok", task'[f] = "ok"
  PROVE  Settled(f) \/ DoneSent(f)'
<1>1. TurnInv /\ TypeOK /\ FileTurn(f) /\ FileCopied(f) /\ task \in [Files -> TaskState]
  BY TurnInvFacts DEF CopyInv, ConsentInv
<1>2. CASE FileKept(f) \/ DirAccepted(f)
  <2>1. Confirmed(f)
    BY <1>2 DEF FileKept, DirAccepted, Answered, Confirmed
  <2>2. IsConfirm(oneshot[f], f) /\ oneshot[f] \in Confirm
    BY <2>1, <1>1 DEF FileTurn, ConfirmTurn, Confirmed, TypeOK
  <2>3. Says(oneshot[f], f)
    BY <2>2, <1>1 DEF FileCopied, Confirms, Words, IsConfirm
  <2>4. CASE FileKept(f)
    <3>1. choice[f] = "keep"
      BY <2>3, <2>4 DEF FileKept, Says
    <3> QED
      BY <3>1 DEF Settled
  <2>5. CASE DirAccepted(f)
    <3>1. choice[f] # "none" /\ f \in EmptyDirs
      BY <2>2, <2>3, <2>5 DEF DirAccepted, Says, IsConfirm
    <3> QED
      BY <3>1 DEF Settled
  <2> QED
    BY <1>2, <2>4, <2>5
<1>3. CASE SendFileDone(f)
  <2>1. toReceiver' = Append(toReceiver, ToReceiver("FileDone", f, 0))
    BY <1>3 DEF SendFileDone, Post
  <2>2. /\ Len(toReceiver') = Len(toReceiver) + 1 /\ Len(toReceiver) \in Nat
        /\ toReceiver'[Len(toReceiver) + 1] = ToReceiver("FileDone", f, 0)
    BY <2>1, <1>1, AppendElements DEF TypeOK
  <2> QED
    BY <2>2 DEF DoneSent, IsDone, ToReceiver
<1>4. ASSUME NEW g \in Files, SendSingleFile(g) \/ TaskFails(g), g # f PROVE FALSE
  <2>1. PICK s \in TaskState \ {"none", "start"} : task' = [task EXCEPT ![g] = s]
    BY <1>4, TaskEdges
  <2> QED
    BY <2>1, <1>1, <1>4
<1>5. ASSUME SendSingleFile(f) \/ TaskFails(f),
             ~(FileKept(f) \/ DirAccepted(f) \/ SendFileDone(f))
      PROVE  FALSE
  <2>1. ~StreamCancelled(f)
    BY DEF StreamCancelled
  <2>2. ~(RequestFile(f) \/ FileResumed(f) \/ FileAccepted(f) \/ ConfirmTimeout(f))
    BY <1>1 DEF RequestFile, FileResumed, FileAccepted, ConfirmTimeout, End
  <2>3. ~(SendBreakPoint(f) \/ ReadChunk(f) \/ SendChunk(f) \/ TaskFails(f))
    BY <1>1 DEF SendBreakPoint, ReadChunk, SendChunk, TaskFails, End
  <2> QED
    BY <1>5, <2>1, <2>2, <2>3 DEF SendSingleFile
<1>6. ~SpawnTask
  <2> SUFFICES ASSUME SpawnTask PROVE FALSE
    OBVIOUS
  <2>1. task' = [task EXCEPT ![nextFile] = "start"]
    BY DEF SpawnTask
  <2> QED
    BY <2>1, <1>1
<1>7. UNCHANGED task => FALSE
  OBVIOUS
<1>8. ~(SenderLoop \/ NextFile \/ JoinTasks \/ SendDone \/ Dispatcher)
  BY <1>7 DEF SenderLoop, Ready, ShareAccepted, ShareRejected, EnqueueConfirm,
     DoneReplied, NextFile, JoinTasks, SendDone, Dispatcher, DispatcherStart, Dispatch
<1>9. ASSUME NEW g \in Files, FileMessage(g) \/ AnswerFile(g) PROVE FALSE
  BY <1>7, <1>9 DEF FileMessage, RecvDirRequest, RecvNewFile, RecvExistingFile,
     RecvBreakPoint, RecvFileData, RecvFileDone, AnswerFile, Overwrite, Keep, ResumeAt,
     Restart
<1>10. ~(RecvSendRequest \/ RecvDone \/ \E a \in BOOLEAN : AnswerShare(a))
  BY <1>7 DEF RecvSendRequest, RecvDone, AnswerShare
<1>11. ~(Cancel \/ LinkDown \/ (\E g \in Files : RecvIoError(g)) \/ UNCHANGED vars)
  BY <1>7 DEF Cancel, LinkDown, RecvIoError, vars
<1> QED
  BY <1>2, <1>3, <1>4, <1>5, <1>6, <1>8, <1>9, <1>10, <1>11, NextKinds DEF SendFiles

\* The reply to Done comes from the receiver's handler of Done only.
LEMMA ClosingMoves ==
  ASSUME TypeOK, [Next]_vars, Closing'
  PROVE  Closing \/ RecvDone
<1>1. toSender \in Seq(ToSenderMsg)
  BY DEF TypeOK
<1>2. ASSUME UNCHANGED <<receiveDone, completed>>,
             \/ UNCHANGED toSender
             \/ toSender # <<>> /\ toSender' = Tail(toSender)
             \/ \E n \in 0..Len(toSender) : toSender' = SubSeq(toSender, 1, n)
             \/ \E m : Reply(m) /\ m.kind # "done"
      PROVE  Closing
  <2>1. CASE UNCHANGED toSender
    BY <1>2, <2>1 DEF Closing, EndReplied
  <2>2. CASE toSender # <<>> /\ toSender' = Tail(toSender)
    <3>1. /\ Len(toSender') = Len(toSender) - 1 /\ Len(toSender) \in Nat \ {0}
          /\ \A i \in 1..Len(toSender) - 1 : toSender'[i] = toSender[i + 1]
      BY <1>1, <2>2, TailElements
    <3>2. EndReplied' => EndReplied
      BY <3>1 DEF EndReplied
    <3> QED
      BY <3>2, <1>2 DEF Closing
  <2>3. ASSUME NEW n \in 0..Len(toSender), toSender' = SubSeq(toSender, 1, n) PROVE Closing
    <3>1. Len(toSender') = n /\ n <= Len(toSender) /\ n \in Nat
          /\ \A i \in 1..n : toSender'[i] = toSender[i]
      BY <1>1, <2>3
    <3>2. EndReplied' => EndReplied
      BY <3>1, <1>1 DEF EndReplied
    <3> QED
      BY <3>2, <1>2 DEF Closing
  <2>4. ASSUME NEW m, Reply(m), m.kind # "done" PROVE Closing
    <3>1. CASE toSender' = Append(toSender, m)
      <4>1. /\ Len(toSender') = Len(toSender) + 1 /\ Len(toSender) \in Nat
            /\ \A i \in 1..Len(toSender) : toSender'[i] = toSender[i]
            /\ toSender'[Len(toSender) + 1] = m
        BY <3>1, <1>1, AppendElements
      <4>2. EndReplied' => EndReplied
        BY <4>1, <2>4 DEF EndReplied
      <4> QED
        BY <4>2, <1>2 DEF Closing
    <3> QED
      BY <3>1, <2>1, <2>4 DEF Reply
  <2> QED
    BY <1>2, <2>1, <2>2, <2>3, <2>4
<1>3. CASE SenderLoop /\ ~DoneReplied
  BY <1>2, <1>3 DEF SenderLoop, Ready, ShareAccepted, ShareRejected, EnqueueConfirm,
     Arrived
<1>4. CASE DoneReplied
  <2>1. EndReplied
    BY <1>1, <1>4, TailElements DEF DoneReplied, Arrived, EndReplied
  <2> QED
    BY <2>1 DEF Closing
<1>5. CASE SendFiles \/ Dispatcher
  BY <1>2, <1>5 DEF SendFiles, NextFile, SpawnTask, JoinTasks, SendDone, Dispatcher,
     DispatcherStart, Dispatch
<1>6. ASSUME NEW f \in Files, SendSingleFile(f) \/ TaskFails(f)
      PROVE  UNCHANGED <<receiveDone, completed, toSender>>
  BY <1>6 DEF SendSingleFile, RequestFile, FileKept, FileResumed, FileAccepted,
     DirAccepted, ConfirmTimeout, SendBreakPoint, ReadChunk, StreamCancelled,
     SendChunk, SendFileDone, TaskFails
<1>7. ASSUME NEW f \in Files, FileMessage(f)
      PROVE  /\ UNCHANGED <<receiveDone, completed>>
             /\ UNCHANGED toSender \/ \E m : Reply(m) /\ m.kind # "done"
  <2>1. CASE RecvDirRequest(f) \/ RecvNewFile(f)
    <3>1. Reply(Accept(f)) /\ Accept(f).kind # "done"
      BY <2>1 DEF RecvDirRequest, RecvNewFile, Accept, FileConfirm
    <3> QED
      BY <2>1, <3>1 DEF RecvDirRequest, RecvNewFile
  <2>2. CASE RecvExistingFile(f)
    BY <2>2 DEF RecvExistingFile
  <2>3. CASE RecvBreakPoint(f) \/ RecvFileData(f) \/ RecvFileDone(f)
    BY <2>3 DEF RecvBreakPoint, RecvFileData, RecvFileDone
  <2> QED
    BY <1>7, <2>1, <2>2, <2>3 DEF FileMessage
<1>8. ASSUME NEW f \in Files, AnswerFile(f)
      PROVE  /\ UNCHANGED <<receiveDone, completed>> /\ \E m : Reply(m) /\ m.kind # "done"
  <2>1. \A k \in {"newFile", "breakPoint"} : \A a, n : FileConfirm(k, f, a, n).kind # "done"
    BY DEF FileConfirm
  <2>2. \E k \in {"newFile", "breakPoint"} : \E a, n : Reply(FileConfirm(k, f, a, n))
    <3>1. CASE Overwrite(f) \/ Keep(f)
      BY <3>1 DEF Overwrite, Keep, Accept
    <3>2. ASSUME NEW n, ResumeAt(f, n) \/ Restart(f, n)
          PROVE  \E k \in {"newFile", "breakPoint"} : \E a, l : Reply(FileConfirm(k, f, a, l))
      BY <3>2 DEF ResumeAt, Restart
    <3> QED
      BY <1>8, <3>1, <3>2 DEF AnswerFile
  <2>3. UNCHANGED <<receiveDone, completed>>
    BY <1>8 DEF AnswerFile, Overwrite, Keep, ResumeAt, Restart
  <2> QED
    BY <2>1, <2>2, <2>3, Zenon
<1>9. ASSUME NEW a \in BOOLEAN, AnswerShare(a)
      PROVE  /\ UNCHANGED <<receiveDone, completed>> /\ \E m : Reply(m) /\ m.kind # "done"
  BY <1>9 DEF AnswerShare
<1>10. CASE RecvSendRequest \/ Cancel \/ (\E f \in Files : RecvIoError(f)) \/ UNCHANGED vars
  BY <1>2, <1>10 DEF RecvSendRequest, Cancel, RecvIoError, vars
<1>11. CASE LinkDown
  BY <1>2, <1>11 DEF LinkDown
<1> QED
  BY <1>2, <1>3, <1>4, <1>5, <1>6, <1>7, <1>8, <1>9, <1>10, <1>11, NextKinds

\* How the share and the questions move.
LEMMA ShareMoves ==
  ASSUME CopyInv, [Next]_vars
  PROVE  /\ (~cancel' => ~cancel) /\ (up' \in {up, FALSE})
         /\ \/ share' = share \/ Ready \/ ShareRejected
            \/ ShareAccepted /\ share = "asked" /\ UNCHANGED <<toReceiver, up>>
         /\ Ready => share = "ready"
         /\ SendDone => share = "accepted" /\ (~cancel => sf = "sendDone")
         /\ ShareRejected => share' = "rejected"
         /\ Ready => share' = "asked"
<1>1. ShareTurn /\ TypeOK
  BY TurnInvFacts DEF CopyInv, ConsentInv
<1>2. SendDone => share = "accepted" /\ sf = "sendDone"
  BY <1>1 DEF SendDone, ShareTurn
<1>3. Ready => share = "ready" /\ share' = "asked"
  BY DEF Ready
<1>4. ShareRejected => share' = "rejected"
  BY DEF ShareRejected
<1>5. CASE SenderLoop
  <2>1. ShareAccepted => share = "asked"
    <3> SUFFICES ASSUME ShareAccepted PROVE share = "asked"
      OBVIOUS
    <3>1. toSender # <<>> /\ Head(toSender).kind = "share"
      BY DEF ShareAccepted, Arrived
    <3>2. ShareReplied
      BY <3>1, <1>1, TailElements DEF ShareReplied, TypeOK
    <3> QED
      BY <3>2, <1>1 DEF ShareTurn
  <2>2. UNCHANGED <<cancel, up>>
    BY <1>5 DEF SenderLoop, Ready, ShareAccepted, ShareRejected, EnqueueConfirm, DoneReplied
  <2>3. share' = share \/ Ready \/ ShareRejected \/ (ShareAccepted /\ UNCHANGED toReceiver)
    BY <1>5 DEF SenderLoop, ShareAccepted, EnqueueConfirm, DoneReplied
  <2> QED
    BY <2>1, <2>2, <2>3, <1>2, <1>3, <1>4
<1>6. CASE SendFiles \/ Dispatcher
  <2>1. UNCHANGED <<cancel, up, share>>
    BY <1>6 DEF SendFiles, NextFile, SpawnTask, JoinTasks, SendDone, Dispatcher,
       DispatcherStart, Dispatch
  <2> QED
    BY <2>1, <1>2, <1>3, <1>4
<1>7. ASSUME NEW f \in Files, SendSingleFile(f) \/ TaskFails(f)
      PROVE  UNCHANGED <<cancel, up, share>>
  BY <1>7 DEF SendSingleFile, RequestFile, FileKept, FileResumed, FileAccepted,
     DirAccepted, ConfirmTimeout, SendBreakPoint, ReadChunk, StreamCancelled,
     SendChunk, SendFileDone, TaskFails
<1>8. ASSUME NEW f \in Files, FileMessage(f) \/ AnswerFile(f)
      PROVE  UNCHANGED <<cancel, up, share>>
  BY <1>8 DEF FileMessage, RecvDirRequest, RecvNewFile, RecvExistingFile,
     RecvBreakPoint, RecvFileData, RecvFileDone, AnswerFile, Overwrite, Keep, ResumeAt,
     Restart
<1>9. CASE RecvSendRequest \/ RecvDone \/ (\E a \in BOOLEAN : AnswerShare(a))
  <2>1. UNCHANGED <<cancel, up, share>>
    BY <1>9 DEF RecvSendRequest, RecvDone, AnswerShare
  <2> QED
    BY <2>1, <1>2, <1>3, <1>4
<1>10. CASE Cancel \/ LinkDown \/ (\E f \in Files : RecvIoError(f)) \/ UNCHANGED vars
  <2>1. UNCHANGED share /\ (~cancel' => ~cancel) /\ up' \in {up, FALSE}
    BY <1>10, <1>1 DEF TypeOK, Cancel, LinkDown, RecvIoError, vars
  <2> QED
    BY <2>1, <1>2, <1>3, <1>4
<1> QED
  BY <1>2, <1>3, <1>4, <1>5, <1>6, <1>7, <1>8, <1>9, <1>10, NextKinds

\* The prompts are questions to the user about the share or a file.
LEMMA PromptMoves ==
  ASSUME [Next]_vars
  PROVE  \A p \in prompts' : \/ p \in prompts \/ p = ShareQuestion
                             \/ \E f \in Files : IsQuestion(p, f)
<1>1. CASE SenderLoop \/ SendFiles \/ Dispatcher
  BY <1>1 DEF SenderLoop, Ready, ShareAccepted, ShareRejected, EnqueueConfirm,
     DoneReplied, SendFiles, NextFile, SpawnTask, JoinTasks, SendDone, Dispatcher,
     DispatcherStart, Dispatch
<1>2. ASSUME NEW f \in Files, SendSingleFile(f) \/ TaskFails(f) PROVE UNCHANGED prompts
  BY <1>2 DEF SendSingleFile, RequestFile, FileKept, FileResumed, FileAccepted,
     DirAccepted, ConfirmTimeout, SendBreakPoint, ReadChunk, StreamCancelled,
     SendChunk, SendFileDone, TaskFails
<1>3. ASSUME NEW f \in Files, FileMessage(f)
      PROVE  \A p \in prompts' : p \in prompts \/ IsQuestion(p, f)
  BY <1>3 DEF FileMessage, RecvDirRequest, RecvNewFile, RecvExistingFile,
     RecvBreakPoint, RecvFileData, RecvFileDone, IsQuestion
<1>4. ASSUME NEW f \in Files, AnswerFile(f) PROVE prompts' \subseteq prompts
  BY <1>4 DEF AnswerFile, Overwrite, Keep, ResumeAt, Restart
<1>5. CASE RecvSendRequest \/ RecvDone \/ (\E a \in BOOLEAN : AnswerShare(a))
  BY <1>5 DEF RecvSendRequest, RecvDone, AnswerShare, ShareQuestion
<1>6. CASE Cancel \/ LinkDown \/ (\E f \in Files : RecvIoError(f)) \/ UNCHANGED vars
  BY <1>6 DEF Cancel, LinkDown, RecvIoError, vars
<1> QED
  BY <1>1, <1>2, <1>3, <1>4, <1>5, <1>6, NextKinds

\* Each part of FileEnd.
LEMMA FileEndStays ==
  ASSUME EndInv, [Next]_vars, NEW f \in Files
  PROVE  FileEnd(f)'
<1>1. CopyInv /\ TypeOK /\ FileEnd(f) /\ toReceiver \in Seq(ToReceiverMsg)
  BY TurnInvFacts DEF EndInv, CopyInv, ConsentInv, TypeOK
<1>2. Settled(f) => Settled(f)'
  BY <1>1, SettledStays
<1>3. ASSUME up', ~cancel', task'[f] = "ok" PROVE Settled(f)' \/ DoneSent(f)'
  <2>1. up /\ ~cancel /\ UNCHANGED up
    BY <1>1, <1>3, ShareMoves
  <2>2. CASE task[f] = "ok"
    BY <2>1, <2>2, <1>1, <1>2, LinkEnd DEF FileEnd
  <2>3. CASE task[f] # "ok"
    BY <2>1, <2>3, <1>1, <1>2, <1>3, TaskOver
  <2> QED
    BY <2>2, <2>3
<1>4. ASSUME ShareAccepted, share = "asked", UNCHANGED <<toReceiver, up>>
      PROVE  Behind(toReceiver', f) /\ ~Closing'
  <2>1. ~EndSent /\ ~Closing
    BY <1>4 DEF EndInv
  <2>2. ~RecvDone
    BY <1>4, <1>1, TailElements DEF RecvDone, Received, ShareAccepted
  <2> QED
    BY <2>1, <2>2, <1>1, <1>4, ClosingMoves DEF EndSent, Behind
<1>5. ASSUME share' = "accepted", ~cancel' PROVE Settled(f)' \/ Behind(toReceiver', f)
  <2>1. ~cancel /\ ~ShareRejected /\ ~Ready
    BY <1>1, <1>5, ShareMoves
  <2>2. CASE share' = share
    <3>1. Settled(f) \/ Behind(toReceiver, f)
      BY <2>1, <2>2, <1>1, <1>5 DEF FileEnd
    <3>2. SendDone /\ up => Settled(f) \/ DoneSent(f)
      <4> SUFFICES ASSUME SendDone, up PROVE Settled(f) \/ DoneSent(f)
        OBVIOUS
      <4>1. sf = "sendDone"
        BY <2>1, <1>1, ShareMoves
      <4>2. task[f] = "ok"
        BY <4>1, <2>1 DEF EndInv, Spawned
      <4> QED
        BY <4>2, <2>1, <1>1 DEF FileEnd
    <3> QED
      BY <3>1, <3>2, <2>1, <1>1, <1>2, LinkEnd
  <2> QED
    BY <2>1, <2>2, <1>1, <1>4, ShareMoves
<1>6. ASSUME share' = "accepted", ~cancel', Closing' PROVE Settled(f)'
  <2>1. ~cancel /\ ~ShareRejected /\ ~Ready
    BY <1>1, <1>6, ShareMoves
  <2>2. CASE share' = share
    <3>1. CASE Closing
      BY <3>1, <2>1, <2>2, <1>1, <1>2, <1>6 DEF FileEnd
    <3>2. CASE RecvDone
      <4>1. toReceiver # <<>> /\ IsEnd(Head(toReceiver))
        BY <3>2 DEF RecvDone, Received, IsEnd
      <4>2. ~Behind(toReceiver, f)
        BY <4>1, <1>1, BehindStays
      <4> QED
        BY <4>2, <2>1, <2>2, <1>1, <1>2, <1>6 DEF FileEnd
    <3> QED
      BY <3>1, <3>2, <1>1, <1>6, ClosingMoves
  <2> QED
    BY <2>1, <2>2, <1>1, <1>4, <1>6, ShareMoves
<1> QED
  BY <1>3, <1>5, <1>6 DEF FileEnd

\* Done is on its way, or has arrived, only after send_files or a refusal sent it.
LEMMA EndStarts ==
  ASSUME EndInv, [Next]_vars, EndSent' \/ Closing'
  PROVE  share' \in {"accepted", "rejected"}
<1>1. CopyInv /\ TypeOK /\ toReceiver \in Seq(ToReceiverMsg)
  BY TurnInvFacts DEF EndInv, CopyInv, ConsentInv, TypeOK
<1>2. share \in {"accepted", "rejected"} \/ ShareRejected \/ SendDone
  <2>1. ASSUME EndSent', ~EndSent PROVE ShareRejected \/ SendDone
    <3>1. CASE UNCHANGED toReceiver
      BY <2>1, <3>1 DEF EndSent
    <3>2. ASSUME NEW m, Post(m), IsEnd(m) => SendDone \/ ShareRejected
          PROVE  ShareRejected \/ SendDone
      <4>1. CASE toReceiver' = Append(toReceiver, m)
        <5>1. /\ Len(toReceiver') = Len(toReceiver) + 1 /\ Len(toReceiver) \in Nat
              /\ \A i \in 1..Len(toReceiver) : toReceiver'[i] = toReceiver[i]
              /\ toReceiver'[Len(toReceiver) + 1] = m
          BY <4>1, <1>1, AppendElements
        <5>2. IsEnd(m)
          BY <5>1, <2>1 DEF EndSent
        <5> QED
          BY <5>2, <3>2
      <4> QED
        BY <4>1, <3>1, <3>2 DEF Post
    <3>3. ASSUME NEW t, Received(t) PROVE FALSE
      <4>1. /\ Len(toReceiver') = Len(toReceiver) - 1 /\ Len(toReceiver) \in Nat \ {0}
            /\ \A i \in 1..Len(toReceiver) - 1 : toReceiver'[i] = toReceiver[i + 1]
        BY <3>3, <1>1, TailElements DEF Received
      <4> QED
        BY <4>1, <2>1 DEF EndSent
    <3>4. CASE LinkDown
      <4>1. PICK n \in 0..Len(toReceiver) : toReceiver' = SubSeq(toReceiver, 1, n)
        BY <3>4 DEF LinkDown
      <4>2. Len(toReceiver') = n /\ n <= Len(toReceiver) /\ n \in Nat
            /\ \A i \in 1..n : toReceiver'[i] = toReceiver[i]
        BY <4>1, <1>1
      <4> QED
        BY <4>2, <2>1, <1>1 DEF EndSent
    <3> QED
      BY <3>1, <3>2, <3>3, <3>4, LinkMoves
  <2>2. ASSUME Closing' PROVE Closing \/ EndSent
    <3>1. RecvDone => EndSent
      BY <1>1, TailElements DEF RecvDone, Received, EndSent, IsEnd
    <3> QED
      BY <3>1, <2>2, <1>1, ClosingMoves
  <2> QED
    BY <2>1, <2>2 DEF EndInv
<1> QED
  BY <1>1, <1>2, ShareMoves

\* Nothing has ended at the start.
LEMMA InitEnd == Init => EndInv
<1> SUFFICES ASSUME Init PROVE EndInv
  OBVIOUS
<1>1. CopyInv
  BY InitCopied
<1>2. /\ \A f \in Files : task[f] = "none"
      /\ toReceiver = <<>> /\ toSender = <<>> /\ prompts = {} /\ share = "ready"
      /\ sf = "idle" /\ nextFile = 1 /\ ~receiveDone /\ ~completed
  BY DEF Init
<1>3. ~EndSent /\ ~Closing
  BY <1>2 DEF EndSent, Closing, EndReplied
<1>4. Spawned
  BY <1>2 DEF Spawned, Files
<1> QED
  BY <1>1, <1>2, <1>3, <1>4 DEF EndInv, FileEnd

\* Every step keeps it.
LEMMA NextEnd == EndInv /\ [Next]_vars => EndInv'
<1> SUFFICES ASSUME EndInv, [Next]_vars PROVE EndInv'
  OBVIOUS
<1>1. CopyInv'
  BY NextCopied DEF EndInv
<1>2. Spawned'
  BY SpawnedStays, TurnInvFacts DEF EndInv, CopyInv, ConsentInv
<1>3. (EndSent \/ Closing => share \in {"accepted", "rejected"})'
  BY EndStarts
<1>4. \A p \in prompts' : p = ShareQuestion \/ \E f \in Files : IsQuestion(p, f)
  BY PromptMoves DEF EndInv
<1>5. \A f \in Files : FileEnd(f)'
  BY FileEndStays
<1> QED
  BY <1>1, <1>2, <1>3, <1>4, <1>5 DEF EndInv

\* For any number of files and any interleaving: when the receiver reports
\* ReceiveDone or the sender Completed, and the share was neither refused nor
\* cancelled, no question and no file is open, and every file is there or was kept.
THEOREM DoneIsSettled == Spec => []DoneMeansSettled
BY InitEnd, NextEnd, EndSettled, PTL DEF Spec

-----------------------------------------------------------------------------
(* THE BOUNDS.  A permit is held by every task that runs, a RecvFile is    *)
(* open for every one of them at most, and a confirm that nobody takes is  *)
(* one that came too late.                                                 *)

ActiveFiles == {f \in Files : Active(f)}
GaveUp      == {f \in Files : task[f] \in {"failed", "timedOut"}}

\* The files that are open when the first i messages of the link are handled.
Opens(m, f) == IsRequest(m, f) /\ f \notin EmptyDirs
OpenAt(i) ==
  {f \in Files : /\ f \in recvFiles \/ \E j \in 1..i : Opens(toReceiver[j], f)
                 /\ ~\E j \in 1..i : IsDone(toReceiver[j], f)}

PermitsTaken == permits + Cardinality(ActiveFiles) = MaxConcurrent

\* A file that will still be open has a task that runs, or gave up.
OpenHasTask ==
  up /\ ~cancel => OpenAt(Len(toReceiver)) \subseteq ActiveFiles \cup GaveUp

\* However many messages are handled, or lost, few files are open.
OpenFew ==
  ~cancel => \A i \in 0..Len(toReceiver) :
               Cardinality(OpenAt(i) \ GaveUp) <= MaxConcurrent

\* The dispatcher stops when all tasks are over, and no other is spawned.
DispatcherStopped ==
  disp = "off" /\ ~cancel => /\ sf \notin {"loop", "acquire", "join"}
                             /\ \A f \in Files : task[f] \in Ended \cup {"none"}

BoundInv == /\ CopyInv /\ PermitsTaken /\ OpenHasTask /\ OpenFew
            /\ DispatcherStopped

\* Who moves a task.
LEMMA TaskSteps ==
  ASSUME [Next]_vars
  PROVE  \/ UNCHANGED <<task, permits>>
         \/ SpawnTask
         \/ \E f \in Files : SendSingleFile(f) \/ TaskFails(f)
<1>1. CASE SenderLoop \/ NextFile \/ JoinTasks \/ SendDone \/ Dispatcher
  BY <1>1 DEF SenderLoop, Ready, ShareAccepted, ShareRejected, EnqueueConfirm,
     DoneReplied, NextFile, JoinTasks, SendDone, Dispatcher, DispatcherStart, Dispatch
<1>2. ASSUME NEW g \in Files, FileMessage(g) \/ AnswerFile(g)
      PROVE  UNCHANGED <<task, permits>>
  BY <1>2 DEF FileMessage, RecvDirRequest, RecvNewFile, RecvExistingFile,
     RecvBreakPoint, RecvFileData, RecvFileDone, AnswerFile, Overwrite, Keep, ResumeAt,
     Restart
<1>3. CASE RecvSendRequest \/ RecvDone \/ \E a \in BOOLEAN : AnswerShare(a)
  BY <1>3 DEF RecvSendRequest, RecvDone, AnswerShare
<1>4. CASE Cancel \/ LinkDown \/ (\E g \in Files : RecvIoError(g)) \/ UNCHANGED vars
  BY <1>4 DEF Cancel, LinkDown, RecvIoError, vars
<1> QED
  BY <1>1, <1>2, <1>3, <1>4, NextKinds DEF SendFiles

\* A task keeps its permit until it is over.
LEMMA TaskPermit ==
  ASSUME NEW f \in Files, SendSingleFile(f) \/ TaskFails(f)
  PROVE  /\ Active(f) /\ UNCHANGED <<sf, disp, cancel>>
         /\ \/ /\ permits' = permits
               /\ \E s \in {"wait", "point", "stream", "send"} :
                    task' = [task EXCEPT ![f] = s]
            \/ /\ permits' = permits + 1
               /\ \E s \in Ended : task' = [task EXCEPT ![f] = s]
<1> USE DEF Active, Ended, End, Answered
<1>1. CASE RequestFile(f)
  BY <1>1 DEF RequestFile
<1>2. CASE FileKept(f) \/ DirAccepted(f)
  BY <1>2 DEF FileKept, DirAccepted
<1>3. CASE FileResumed(f) \/ FileAccepted(f)
  BY <1>3 DEF FileResumed, FileAccepted
<1>4. CASE ConfirmTimeout(f)
  BY <1>4 DEF ConfirmTimeout
<1>5. CASE SendBreakPoint(f) \/ ReadChunk(f)
  BY <1>5 DEF SendBreakPoint, ReadChunk
<1>6. CASE SendChunk(f)
  BY <1>6 DEF SendChunk
<1>7. CASE StreamCancelled(f) \/ SendFileDone(f) \/ TaskFails(f)
  BY <1>7 DEF StreamCancelled, SendFileDone, TaskFails
<1> QED
  BY <1>1, <1>2, <1>3, <1>4, <1>5, <1>6, <1>7 DEF SendSingleFile

\* What a step does to the tasks that run and to those that gave up.
LEMMA ActiveMoves ==
  ASSUME TurnInv, [Next]_vars
  PROVE  /\ GaveUp \subseteq GaveUp'
         /\ \/ permits' = permits /\ ActiveFiles' = ActiveFiles
            \/ /\ permits > 0 /\ permits' = permits - 1
               /\ \E f \in Files \ ActiveFiles : ActiveFiles' = ActiveFiles \cup {f}
            \/ /\ permits' = permits + 1
               /\ \E f \in ActiveFiles : ActiveFiles' = ActiveFiles \ {f}
         /\ \A f \in Files : task[f] # "none" => task'[f] # "none"
<1>1. task \in [Files -> TaskState] /\ permits \in Nat
  BY DEF TurnInv, TypeOK
<1>2. CASE UNCHANGED <<task, permits>>
  BY <1>2 DEF GaveUp, ActiveFiles, Active
<1>3. CASE SpawnTask
  <2>1. /\ permits > 0 /\ permits' = permits - 1 /\ nextFile \in Files
        /\ task' = [task EXCEPT ![nextFile] = "start"]
    BY <1>3 DEF SpawnTask, TurnInv, TypeOK
  <2>2. task[nextFile] = "none"
    BY <2>1 DEF TurnInv, Unspawned, Files
  <2>3. nextFile \notin ActiveFiles /\ ActiveFiles' = ActiveFiles \cup {nextFile}
    BY <2>1, <2>2, <1>1 DEF ActiveFiles, Active
  <2>4. GaveUp \subseteq GaveUp' /\ \A f \in Files : task[f] # "none" => task'[f] # "none"
    BY <2>1, <2>2, <1>1 DEF GaveUp
  <2> QED
    BY <2>1, <2>3, <2>4
<1>4. ASSUME NEW f \in Files, SendSingleFile(f) \/ TaskFails(f)
      PROVE  /\ GaveUp \subseteq GaveUp'
             /\ \/ permits' = permits /\ ActiveFiles' = ActiveFiles
                \/ /\ permits' = permits + 1 /\ f \in ActiveFiles
                   /\ ActiveFiles' = ActiveFiles \ {f}
             /\ \A g \in Files : task[g] # "none" => task'[g] # "none"
  <2>1. Active(f)
    BY <1>4, TaskPermit
  <2>2. ASSUME NEW s \in {"wait", "point", "stream", "send"},
               task' = [task EXCEPT ![f] = s], permits' = permits
        PROVE  /\ GaveUp \subseteq GaveUp' /\ ActiveFiles' = ActiveFiles
               /\ \A g \in Files : task[g] # "none" => task'[g] # "none"
    BY <2>1, <2>2, <1>1 DEF GaveUp, ActiveFiles, Active
  <2>3. ASSUME NEW s \in Ended, task' = [task EXCEPT ![f] = s]
        PROVE  /\ GaveUp \subseteq GaveUp' /\ f \in ActiveFiles
               /\ ActiveFiles' = ActiveFiles \ {f}
               /\ \A g \in Files : task[g] # "none" => task'[g] # "none"
    BY <2>1, <2>3, <1>1 DEF GaveUp, ActiveFiles, Active, Ended
  <2> QED
    BY <2>2, <2>3, <1>4, TaskPermit
<1> QED
  BY <1>2, <1>3, <1>4, TaskSteps

\* The sets of files are finite.
LEMMA FilesFinite ==
  ASSUME NEW S, S \subseteq Files
  PROVE  IsFiniteSet(S) /\ Cardinality(S) \in Nat
<1>1. IsFiniteSet(Files)
  BY FS_Interval, SizesAssumption DEF Files
<1>2. IsFiniteSet(S)
  BY <1>1, FS_Subset
<1> QED
  BY <1>2, FS_CardinalityType

\* No permit gets lost, and none is given twice.
LEMMA PermitsStay ==
  ASSUME TurnInv, PermitsTaken, [Next]_vars
  PROVE  PermitsTaken'
<1>1. permits \in Nat /\ MaxConcurrent \in Nat
  BY SizesAssumption DEF TurnInv, TypeOK
<1>2. IsFiniteSet(ActiveFiles) /\ Cardinality(ActiveFiles) \in Nat
  BY FilesFinite DEF ActiveFiles
<1>3. CASE permits' = permits /\ ActiveFiles' = ActiveFiles
  BY <1>3 DEF PermitsTaken
<1>4. ASSUME NEW f \in Files \ ActiveFiles, permits' = permits - 1,
             ActiveFiles' = ActiveFiles \cup {f}
      PROVE  PermitsTaken'
  <2>1. Cardinality(ActiveFiles \cup {f}) = Cardinality(ActiveFiles) + 1
    BY <1>2, <1>4, FS_AddElement
  <2> QED
    BY <2>1, <1>1, <1>2, <1>4 DEF PermitsTaken
<1>5. ASSUME NEW f \in ActiveFiles, permits' = permits + 1,
             ActiveFiles' = ActiveFiles \ {f}
      PROVE  PermitsTaken'
  <2>1. Cardinality(ActiveFiles \ {f}) = Cardinality(ActiveFiles) - 1
    BY <1>2, <1>5, FS_RemoveElement
  <2> QED
    BY <2>1, <1>1, <1>2, <1>5 DEF PermitsTaken
<1> QED
  BY <1>3, <1>4, <1>5, ActiveMoves

\* What a step does to the open files, ahead of the link: a request that is
\* handled was counted, FileDone closes, and an answer opens nothing.
LEMMA OpenFilesMove ==
  ASSUME CopyInv, [Next]_vars
  PROVE  \/ UNCHANGED <<toReceiver, up>> /\ recvFiles' \subseteq recvFiles
         \/ /\ UNCHANGED up /\ recvFiles' = recvFiles
            /\ \E m : /\ Post(m)
                      /\ \A f : Opens(m, f) => f \in Files /\ RequestFile(f)
         \/ /\ UNCHANGED up
            /\ \E t : /\ Received(t)
                      /\ \A f \in recvFiles' :
                           /\ f \in recvFiles \/ Opens(Head(toReceiver), f)
                           /\ ~IsDone(Head(toReceiver), f)
                           /\ Opens(Head(toReceiver), f) => ~Streamed(f)'
         \/ LinkDown /\ recvFiles' = recvFiles
<1>1. TurnInv /\ \A f \in Files : FileCopied(f)
  BY DEF CopyInv, ConsentInv
<1> USE DEF Opens, IsRequest, IsDone
<1>2. CASE SenderLoop
  BY <1>2 DEF SenderLoop, Ready, ShareAccepted, ShareRejected, EnqueueConfirm,
     DoneReplied, ToReceiver
<1>3. CASE SendFiles \/ Dispatcher
  BY <1>3 DEF SendFiles, NextFile, SpawnTask, JoinTasks, SendDone, Dispatcher,
     DispatcherStart, Dispatch, ToReceiver
<1>4. ASSUME NEW f \in Files, SendSingleFile(f) \/ TaskFails(f)
      PROVE  /\ UNCHANGED <<up, recvFiles>>
             /\ \/ UNCHANGED toReceiver
                \/ \E m : Post(m) /\ \A g : Opens(m, g) => g \in Files /\ RequestFile(g)
  <2>1. CASE RequestFile(f)
    <3>1. Post(ToReceiver("NewFileRequest", f, 0)) /\ UNCHANGED <<up, recvFiles>>
      BY <2>1 DEF RequestFile
    <3> QED
      BY <2>1, <3>1 DEF ToReceiver
  <2>2. CASE FileKept(f) \/ FileResumed(f) \/ FileAccepted(f) \/ DirAccepted(f)
             \/ ConfirmTimeout(f) \/ ReadChunk(f) \/ StreamCancelled(f) \/ TaskFails(f)
    BY <2>2 DEF FileKept, FileResumed, FileAccepted, DirAccepted, ConfirmTimeout,
       ReadChunk, StreamCancelled, TaskFails
  <2>3. CASE SendBreakPoint(f) \/ SendChunk(f) \/ SendFileDone(f)
    BY <2>3 DEF SendBreakPoint, SendChunk, SendFileDone, ToReceiver
  <2> QED
    BY <1>4, <2>1, <2>2, <2>3 DEF SendSingleFile
<1>5. ASSUME NEW f \in Files, FileMessage(f)
      PROVE  /\ UNCHANGED up
             /\ \E t : /\ Received(t)
                       /\ \A g \in recvFiles' :
                            /\ g \in recvFiles \/ Opens(Head(toReceiver), g)
                            /\ ~IsDone(Head(toReceiver), g)
                            /\ Opens(Head(toReceiver), g) => ~Streamed(g)'
  <2>1. CASE RecvDirRequest(f) \/ RecvNewFile(f) \/ RecvExistingFile(f)
    <3>1. /\ ReceivedFile("NewFileRequest", f) /\ UNCHANGED up
          /\ recvFiles' = IF f \in EmptyDirs THEN recvFiles ELSE recvFiles \cup {f}
      BY <2>1 DEF RecvDirRequest, RecvNewFile, RecvExistingFile, Open
    <3>2. ~Streamed(f)'
      BY <3>1, <1>1, RequestFacts
    <3> QED
      BY <3>1, <3>2 DEF ReceivedFile, Received
  <2>2. CASE RecvBreakPoint(f) \/ RecvFileData(f)
    BY <2>2 DEF RecvBreakPoint, RecvFileData, ReceivedFile, Received
  <2>3. CASE RecvFileDone(f)
    BY <2>3 DEF RecvFileDone, ReceivedFile, Received
  <2> QED
    BY <1>5, <2>1, <2>2, <2>3 DEF FileMessage
<1>6. ASSUME NEW f \in Files, AnswerFile(f)
      PROVE  UNCHANGED <<toReceiver, up>> /\ recvFiles' \subseteq recvFiles
  BY <1>6 DEF AnswerFile, Overwrite, Keep, ResumeAt, Restart
<1>7. CASE RecvSendRequest \/ RecvDone
  BY <1>7 DEF RecvSendRequest, RecvDone, Received
<1>8. ASSUME NEW f \in Files, RecvIoError(f)
      PROVE  /\ UNCHANGED <<up, recvFiles>>
             /\ \E t \in {"NewFileRequest", "FileData"} : ReceivedFile(t, f)
  BY <1>8 DEF RecvIoError
<1>9. CASE \E f \in Files : RecvIoError(f)
  <2>1. PICK f \in Files : RecvIoError(f)
    BY <1>9
  <2>2. PICK t \in {"NewFileRequest", "FileData"} : ReceivedFile(t, f)
    BY <2>1, <1>8
  <2>3. UNCHANGED <<up, recvFiles>>
    BY <2>1, <1>8
  <2>4. ~Streamed(f)' \/ t # "NewFileRequest"
    BY <2>2, <1>1, RequestFacts
  <2> QED
    BY <2>2, <2>3, <2>4 DEF ReceivedFile, Received
<1>10. CASE (\E a \in BOOLEAN : AnswerShare(a)) \/ Cancel \/ UNCHANGED vars
  BY <1>10 DEF AnswerShare, Cancel, vars
<1>11. CASE LinkDown
  BY <1>11 DEF LinkDown
<1> QED
  BY <1>2, <1>3, <1>4, <1>5, <1>6, <1>7, <1>9, <1>10, <1>11, NextKinds

\* So the files that are open later are among those of the state before, but
\* for those of a request that was sent.
LEMMA OpenAtMoves ==
  ASSUME CopyInv, [Next]_vars
  PROVE  \A i \in 0..Len(toReceiver') :
           \/ \E j \in 0..Len(toReceiver) :
                /\ OpenAt(i)' \subseteq OpenAt(j)
                /\ up' /\ i = Len(toReceiver') => j = Len(toReceiver)
           \/ /\ UNCHANGED up /\ up' /\ i = Len(toReceiver')
              /\ \A f \in OpenAt(i)' : f \in OpenAt(Len(toReceiver)) \/ RequestFile(f)
<1>1. TurnInv /\ TypeOK /\ toReceiver \in Seq(ToReceiverMsg) /\ Len(toReceiver) \in Nat
  BY TurnInvFacts DEF CopyInv, ConsentInv, TypeOK
<1>2. CASE UNCHANGED <<toReceiver, up>> /\ recvFiles' \subseteq recvFiles
  BY <1>2 DEF OpenAt
<1>3. ASSUME UNCHANGED up, recvFiles' = recvFiles, NEW m, Post(m),
             \A f : Opens(m, f) => f \in Files /\ RequestFile(f),
             NEW i \in 0..Len(toReceiver')
      PROVE  \/ i \in 0..Len(toReceiver) /\ OpenAt(i)' \subseteq OpenAt(i)
                /\ (i = Len(toReceiver') => i = Len(toReceiver))
             \/ /\ up' /\ i = Len(toReceiver')
                /\ \A f \in OpenAt(i)' : f \in OpenAt(Len(toReceiver)) \/ RequestFile(f)
  <2>1. CASE UNCHANGED toReceiver
    BY <2>1, <1>3 DEF OpenAt
  <2>2. CASE up /\ toReceiver' = Append(toReceiver, m)
    <3>1. /\ Len(toReceiver') = Len(toReceiver) + 1
          /\ \A j \in 1..Len(toReceiver) : toReceiver'[j] = toReceiver[j]
          /\ toReceiver'[Len(toReceiver) + 1] = m
      BY <2>2, <1>1, AppendElements
    <3>2. CASE i \in 0..Len(toReceiver)
      <4>1. \A j \in 1..i : toReceiver'[j] = toReceiver[j]
        BY <3>1, <3>2, <1>1
      <4> QED
        BY <4>1, <3>1, <3>2, <1>1, <1>3 DEF OpenAt
    <3>3. CASE i = Len(toReceiver) + 1
      <4>1. ASSUME NEW f \in OpenAt(i)', ~RequestFile(f)
            PROVE  f \in OpenAt(Len(toReceiver))
        <5>1. /\ f \in Files
              /\ f \in recvFiles \/ \E j \in 1..i : Opens(toReceiver'[j], f)
              /\ ~\E j \in 1..i : IsDone(toReceiver'[j], f)
          BY <4>1, <1>3 DEF OpenAt
        <5>2. ~Opens(m, f)
          BY <4>1, <1>3
        <5>3. f \in recvFiles \/ \E j \in 1..Len(toReceiver) : Opens(toReceiver[j], f)
          BY <5>1, <5>2, <3>1, <3>3, <1>1
        <5>4. ~\E j \in 1..Len(toReceiver) : IsDone(toReceiver[j], f)
          BY <5>1, <3>1, <3>3, <1>1
        <5> QED
          BY <5>1, <5>3, <5>4 DEF OpenAt
      <4> QED
        BY <4>1, <2>2, <3>1, <3>3, <1>3
    <3> QED
      BY <3>1, <3>2, <3>3, <1>1
  <2> QED
    BY <2>1, <2>2, <1>3 DEF Post
<1>4. ASSUME UNCHANGED up, NEW t, Received(t),
             \A f \in recvFiles' :
                /\ f \in recvFiles \/ Opens(Head(toReceiver), f)
                /\ ~IsDone(Head(toReceiver), f)
                /\ Opens(Head(toReceiver), f) => ~Streamed(f)',
             NEW i \in 0..Len(toReceiver')
      PROVE  /\ i + 1 \in 0..Len(toReceiver) /\ OpenAt(i)' \subseteq OpenAt(i + 1)
             /\ i = Len(toReceiver') => i + 1 = Len(toReceiver)
  <2>1. /\ Len(toReceiver') = Len(toReceiver) - 1 /\ Len(toReceiver) \in Nat \ {0}
        /\ \A j \in 1..Len(toReceiver) - 1 : toReceiver'[j] = toReceiver[j + 1]
        /\ Head(toReceiver) = toReceiver[1]
    BY <1>1, <1>4, TailElements DEF Received
  <2>2. ASSUME NEW f \in OpenAt(i)' PROVE f \in OpenAt(i + 1)
    <3>1. /\ f \in Files
          /\ f \in recvFiles' \/ \E j \in 1..i : Opens(toReceiver'[j], f)
          /\ ~\E j \in 1..i : IsDone(toReceiver'[j], f)
      BY <2>2 DEF OpenAt
    <3>2. \A j \in 1..i : j + 1 \in 2..(i + 1) /\ toReceiver'[j] = toReceiver[j + 1]
      BY <2>1
    <3>3. f \in recvFiles \/ \E j \in 1..(i + 1) : Opens(toReceiver[j], f)
      <4>1. CASE f \in recvFiles'
        <5>1. 1 \in 1..(i + 1)
          OBVIOUS
        <5> QED
          BY <5>1, <4>1, <1>4, <2>1
      <4>2. ASSUME NEW j \in 1..i, Opens(toReceiver'[j], f)
            PROVE  \E k \in 1..(i + 1) : Opens(toReceiver[k], f)
        <5>1. j + 1 \in 1..(i + 1)
          OBVIOUS
        <5> QED
          BY <5>1, <4>2, <3>2
      <4> QED
        BY <4>1, <4>2, <3>1
    <3>4. ~IsDone(toReceiver[1], f)
      <4>1. CASE f \in recvFiles'
        BY <4>1, <1>4, <2>1
      <4>2. CASE \E j \in 1..i : Opens(toReceiver'[j], f)
        <5>1. Requested(f)
          <6>1. PICK j \in 1..i : Opens(toReceiver'[j], f)
            BY <4>2
          <6>2. j + 1 \in 1..Len(toReceiver) /\ Opens(toReceiver[j + 1], f)
            BY <6>1, <3>2, <2>1
          <6> QED
            BY <6>2 DEF Requested, Opens
        <5>2. ~Streamed(f)
          BY <5>1, <3>1, <1>1 DEF TurnInv, OneTurn, FileTurn, RequestTurn
        <5>3. 1 \in 1..Len(toReceiver)
          BY <2>1
        <5> QED
          BY <5>2, <5>3 DEF Streamed, IsDone, IsBody, Body
      <4> QED
        BY <4>1, <4>2, <3>1
    <3>5. ~\E j \in 1..(i + 1) : IsDone(toReceiver[j], f)
      <4> SUFFICES ASSUME NEW j \in 1..(i + 1), IsDone(toReceiver[j], f) PROVE FALSE
        OBVIOUS
      <4>1. j # 1
        BY <3>4
      <4>2. j - 1 \in 1..i /\ toReceiver'[j - 1] = toReceiver[(j - 1) + 1] /\ (j - 1) + 1 = j
        BY <4>1, <3>2
      <4> QED
        BY <4>2, <3>1
    <3> QED
      BY <3>1, <3>3, <3>5 DEF OpenAt
  <2> QED
    BY <2>1, <2>2
<1>5. ASSUME LinkDown, recvFiles' = recvFiles, NEW i \in 0..Len(toReceiver')
      PROVE  i \in 0..Len(toReceiver) /\ OpenAt(i)' \subseteq OpenAt(i) /\ ~up'
  <2>1. PICK n \in 0..Len(toReceiver) : toReceiver' = SubSeq(toReceiver, 1, n)
    BY <1>5 DEF LinkDown
  <2>2. Len(toReceiver') = n /\ n <= Len(toReceiver) /\ n \in Nat
        /\ \A j \in 1..n : toReceiver'[j] = toReceiver[j]
    BY <2>1, <1>1
  <2>3. \A j \in 1..i : toReceiver'[j] = toReceiver[j]
    BY <2>2, <1>5
  <2>4. OpenAt(i)' \subseteq OpenAt(i)
    BY <2>3, <1>5 DEF OpenAt
  <2> QED
    BY <2>2, <2>4, <1>5, <1>1 DEF LinkDown
<1> QED
  <2> SUFFICES ASSUME NEW i \in 0..Len(toReceiver')
               PROVE  \/ \E j \in 0..Len(toReceiver) :
                           /\ OpenAt(i)' \subseteq OpenAt(j)
                           /\ up' /\ i = Len(toReceiver') => j = Len(toReceiver)
                      \/ /\ UNCHANGED up /\ up' /\ i = Len(toReceiver')
                         /\ \A f \in OpenAt(i)' : \/ f \in OpenAt(Len(toReceiver))
                                                  \/ RequestFile(f)
    OBVIOUS
  <2> QED
    BY <1>2, <1>3, <1>4, <1>5, OpenFilesMove

\* A task is not over before its file is closed, will be, or was never opened.
LEMMA OpenHasTaskStays ==
  ASSUME CopyInv, OpenHasTask, [Next]_vars
  PROVE  OpenHasTask'
<1>1. /\ TurnInv /\ TypeOK /\ task \in [Files -> TaskState] /\ task' \in [Files -> TaskState]
      /\ \A f \in Files : FileTurn(f) /\ FileCopied(f)
      /\ Len(toReceiver') \in Nat /\ Len(toReceiver) \in Nat
  <2>1. TypeOK'
    BY NextCopied, TurnInvFacts DEF CopyInv, ConsentInv, TurnInv
  <2> QED
    BY <2>1, TurnInvFacts DEF CopyInv, ConsentInv, TypeOK
<1>2. SUFFICES ASSUME up', ~cancel', NEW n \in Nat, n = Len(toReceiver'),
                      NEW f \in Files, f \in OpenAt(n)', task'[f] \in {"none", "ok"}
               PROVE  FALSE
  <2>1. \A f \in Files : task'[f] \notin {"none", "ok"} => f \in ActiveFiles' \cup GaveUp'
    BY <1>1 DEF ActiveFiles, GaveUp, Active, TaskState, Ended
  <2>2. \A n \in Nat : n = Len(toReceiver') =>
          OpenAt(Len(toReceiver))' = OpenAt(n)' /\ \A f \in OpenAt(n)' : f \in Files
    BY DEF OpenAt
  <2> QED
    BY <2>1, <2>2, <1>1 DEF OpenHasTask
<1>3. up /\ ~cancel
  BY <1>2, ShareMoves
<1>4. ~RequestFile(f)
  BY <1>1, <1>2 DEF RequestFile
<1>5. f \in OpenAt(Len(toReceiver))
  <2>1. n \in 0..Len(toReceiver')
    BY <1>2
  <2> QED
    BY <2>1, <1>2, <1>4, OpenAtMoves
<1>6. task[f] \notin {"none", "ok"}
  BY <1>3, <1>5 DEF OpenHasTask, ActiveFiles, GaveUp, Active
<1>7. task'[f] = "ok"
  BY <1>1, <1>2, <1>6, ActiveMoves
<1>8. Settled(f) \/ DoneSent(f)'
  BY <1>3, <1>6, <1>7, TaskOver
<1>9. ~DoneSent(f)'
  BY <1>2 DEF OpenAt, DoneSent
<1>10. ~Settled(f)
  <2>1. CASE f \in recvFiles
    BY <1>1, <2>1 DEF FileCopied, Places, Settled
  <2>2. CASE f \notin recvFiles
    <3>1. Requested(f) /\ f \notin EmptyDirs
      BY <1>5, <2>2 DEF OpenAt, Opens, Requested
    <3>2. choice[f] = "none"
      BY <3>1, <1>1 DEF FileCopied, Undecided
    <3> QED
      BY <3>1, <3>2, <1>1 DEF FileCopied, Places, Settled, Copying
  <2> QED
    BY <2>1, <2>2
<1> QED
  BY <1>8, <1>9, <1>10

\* So there are never more open than permits, but for those that were given up.
LEMMA OpenFewStays ==
  ASSUME CopyInv, OpenFew, PermitsTaken', OpenHasTask', [Next]_vars
  PROVE  OpenFew'
<1>1. SUFFICES ASSUME ~cancel', NEW i \in 0..Len(toReceiver')
               PROVE  Cardinality(OpenAt(i)' \ GaveUp') <= MaxConcurrent
  BY DEF OpenFew
<1>2. TurnInv /\ TypeOK' /\ MaxConcurrent \in Nat
  BY NextCopied, TurnInvFacts, SizesAssumption DEF CopyInv, ConsentInv, TurnInv
<1>3. ~cancel /\ GaveUp \subseteq GaveUp'
  BY <1>1, <1>2, ShareMoves, ActiveMoves
<1>4. ASSUME NEW j \in 0..Len(toReceiver), OpenAt(i)' \subseteq OpenAt(j)
      PROVE  Cardinality(OpenAt(i)' \ GaveUp') <= MaxConcurrent
  <2>1. IsFiniteSet(OpenAt(j) \ GaveUp) /\ Cardinality(OpenAt(j) \ GaveUp) \in Nat
    BY FilesFinite DEF OpenAt
  <2>2. OpenAt(i)' \ GaveUp' \in SUBSET (OpenAt(j) \ GaveUp)
    BY <1>3, <1>4
  <2>3. /\ Cardinality(OpenAt(i)' \ GaveUp') <= Cardinality(OpenAt(j) \ GaveUp)
        /\ IsFiniteSet(OpenAt(i)' \ GaveUp')
    BY <2>1, <2>2, FS_Subset
  <2>4. Cardinality(OpenAt(j) \ GaveUp) <= MaxConcurrent
    BY <1>3 DEF OpenFew
  <2>5. Cardinality(OpenAt(i)' \ GaveUp') \in Nat
    BY <2>3, FS_CardinalityType
  <2> QED
    BY <1>2, <2>1, <2>3, <2>4, <2>5
<1>5. CASE up' /\ i = Len(toReceiver')
  <2>1. OpenAt(i)' \ GaveUp' \in SUBSET ActiveFiles'
    BY <1>1, <1>5 DEF OpenHasTask
  <2>2. IsFiniteSet(ActiveFiles') /\ Cardinality(ActiveFiles') \in Nat
    BY FilesFinite DEF ActiveFiles
  <2>3. /\ Cardinality(OpenAt(i)' \ GaveUp') <= Cardinality(ActiveFiles')
        /\ IsFiniteSet(OpenAt(i)' \ GaveUp')
    BY <2>1, <2>2, FS_Subset
  <2>4. Cardinality(OpenAt(i)' \ GaveUp') \in Nat
    BY <2>3, FS_CardinalityType
  <2>5. permits' \in Nat
    BY <1>2 DEF TypeOK
  <2>6. permits' + Cardinality(ActiveFiles') = MaxConcurrent
    BY DEF PermitsTaken
  <2> QED
    BY <1>2, <2>2, <2>3, <2>4, <2>5, <2>6
<1> QED
  BY <1>4, <1>5, OpenAtMoves

\* The dispatcher outlives the tasks that may wait for it.
LEMMA DispatcherStays ==
  ASSUME TurnInv, ShareTurn, DispatcherStopped, [Next]_vars
  PROVE  DispatcherStopped'
<1>1. CASE UNCHANGED <<sf, disp, task>> /\ (~cancel' => ~cancel)
  BY <1>1 DEF DispatcherStopped
<1>2. CASE SenderLoop
  <2>1. CASE ShareAccepted
    BY <2>1 DEF ShareAccepted, DispatcherStopped
  <2>2. CASE Ready \/ ShareRejected \/ EnqueueConfirm \/ DoneReplied
    BY <1>1, <2>2 DEF Ready, ShareRejected, EnqueueConfirm, DoneReplied
  <2> QED
    BY <1>2, <2>1, <2>2 DEF SenderLoop
<1>3. CASE NextFile \/ SpawnTask
  BY <1>3 DEF NextFile, SpawnTask, DispatcherStopped
<1>4. CASE JoinTasks
  BY <1>4 DEF JoinTasks, DispatcherStopped
<1>5. CASE SendDone
  BY <1>5 DEF SendDone, DispatcherStopped
<1>6. CASE Dispatcher
  BY <1>6 DEF Dispatcher, DispatcherStart, Dispatch, DispatcherStopped
<1>7. ASSUME NEW f \in Files, SendSingleFile(f) \/ TaskFails(f) PROVE DispatcherStopped'
  <2>1. Active(f) /\ UNCHANGED <<sf, disp, cancel>>
    BY <1>7, TaskPermit
  <2>2. disp # "off" \/ cancel
    BY <2>1 DEF DispatcherStopped, Active, Ended
  <2> QED
    BY <2>1, <2>2 DEF DispatcherStopped
<1>8. ASSUME NEW f \in Files, FileMessage(f) \/ AnswerFile(f)
      PROVE  UNCHANGED <<sf, disp, task, cancel>>
  BY <1>8 DEF FileMessage, RecvDirRequest, RecvNewFile, RecvExistingFile,
     RecvBreakPoint, RecvFileData, RecvFileDone, AnswerFile, Overwrite, Keep, ResumeAt,
     Restart
<1>9. CASE RecvSendRequest \/ RecvDone \/ \E a \in BOOLEAN : AnswerShare(a)
  BY <1>1, <1>9 DEF RecvSendRequest, RecvDone, AnswerShare
<1>10. CASE Cancel \/ LinkDown \/ (\E f \in Files : RecvIoError(f)) \/ UNCHANGED vars
  <2>1. UNCHANGED <<sf, disp, task>>
    BY <1>10 DEF Cancel, LinkDown, RecvIoError, vars
  <2>2. cancel' = TRUE \/ cancel' = cancel
    BY <1>10 DEF Cancel, LinkDown, RecvIoError, vars
  <2> QED
    BY <2>1, <2>2 DEF DispatcherStopped
<1> QED
  BY <1>1, <1>2, <1>3, <1>4, <1>5, <1>6, <1>7, <1>8, <1>9, <1>10, NextKinds DEF SendFiles

\* At the start all permits are there.
LEMMA InitBound == Init => BoundInv
<1> SUFFICES ASSUME Init PROVE BoundInv
  OBVIOUS
<1>1. CopyInv
  BY InitCopied
<1>2. /\ \A f \in Files : task[f] = "none"
      /\ toReceiver = <<>> /\ recvFiles = {} /\ permits = MaxConcurrent /\ sf = "idle"
  BY DEF Init
<1>3. ActiveFiles = {} /\ \A i \in 0..Len(toReceiver) : OpenAt(i) = {}
  BY <1>2 DEF ActiveFiles, Active, OpenAt
<1>4. PermitsTaken
  BY <1>2, <1>3, FS_EmptySet, SizesAssumption DEF PermitsTaken
<1>5. OpenHasTask
  BY <1>2, <1>3 DEF OpenHasTask
<1>6. OpenFew
  <2>1. \A i \in 0..Len(toReceiver) : OpenAt(i) \ GaveUp = {}
    BY <1>3
  <2> QED
    BY <2>1, FS_EmptySet, SizesAssumption DEF OpenFew
<1>7. DispatcherStopped
  BY <1>2 DEF DispatcherStopped
<1> QED
  BY <1>1, <1>4, <1>5, <1>6, <1>7 DEF BoundInv

\* Every step keeps the bounds.
LEMMA NextBound == BoundInv /\ [Next]_vars => BoundInv'
<1> SUFFICES ASSUME BoundInv, [Next]_vars PROVE BoundInv'
  OBVIOUS
<1>1. CopyInv /\ CopyInv' /\ TurnInv /\ ShareTurn
  BY NextCopied DEF BoundInv, CopyInv, ConsentInv
<1>2. PermitsTaken'
  BY <1>1, PermitsStay DEF BoundInv
<1>3. OpenHasTask'
  BY <1>1, OpenHasTaskStays DEF BoundInv
<1>4. OpenFew'
  BY <1>1, <1>2, <1>3, OpenFewStays DEF BoundInv
<1>5. DispatcherStopped'
  BY <1>1, DispatcherStays DEF BoundInv
<1> QED
  BY <1>1, <1>2, <1>3, <1>4, <1>5 DEF BoundInv

\* Before the next message is handled the open files are those that are open now.
LEMMA BoundOpen == BoundInv => OpenFilesBounded
<1> SUFFICES ASSUME BoundInv, ~cancel
             PROVE  Cardinality(recvFiles) <= MaxConcurrent + Cardinality(GaveUp)
  BY DEF OpenFilesBounded, GaveUp
<1>1. TypeOK /\ MaxConcurrent \in Nat /\ recvFiles \subseteq Files /\ Len(toReceiver) \in Nat
  BY TurnInvFacts, SizesAssumption DEF BoundInv, CopyInv, ConsentInv, TypeOK
<1>2. OpenAt(0) = recvFiles
  BY <1>1 DEF OpenAt
<1>3. Cardinality(recvFiles \ GaveUp) <= MaxConcurrent
  <2>1. 0 \in 0..Len(toReceiver)
    BY <1>1
  <2> QED
    BY <2>1, <1>2 DEF BoundInv, OpenFew
<1>4. /\ IsFiniteSet(recvFiles) /\ Cardinality(recvFiles) \in Nat
      /\ IsFiniteSet(GaveUp) /\ Cardinality(GaveUp) \in Nat
  BY <1>1, FilesFinite DEF GaveUp
<1>5. Cardinality(recvFiles \ GaveUp) = Cardinality(recvFiles) - Cardinality(recvFiles \cap GaveUp)
  BY <1>4, FS_Difference
<1>6. Cardinality(recvFiles \cap GaveUp) <= Cardinality(GaveUp)
      /\ Cardinality(recvFiles \cap GaveUp) \in Nat
  BY <1>4, FS_Intersection, FS_CardinalityType
<1> QED
  BY <1>1, <1>3, <1>4, <1>5, <1>6

\* With the dispatcher stopped, every confirm in the full channel and the one in
\* hand is of another file whose task no longer waits for it.
LEMMA BoundLate == BoundInv => LoopBlockedByLateAnswers
<1> DEFINE Late == {f \in Files : task[f] = "timedOut"}
<1> SUFFICES ASSUME BoundInv, Arrived("newFile") \/ Arrived("breakPoint"),
                    Len(confirmQ) = ConfirmCap, disp = "off"
             PROVE  Cardinality(Late) > ConfirmCap
  BY DEF LoopBlockedByLateAnswers
<1>1. /\ TypeOK /\ \A f \in Files : FileTurn(f)
      /\ toSender \in Seq(ToSenderMsg) /\ confirmQ \in Seq(Confirm)
      /\ ConfirmCap \in Nat
  BY TurnInvFacts, SizesAssumption DEF BoundInv, CopyInv, ConsentInv, TypeOK
<1>2. toSender # <<>> /\ ~cancel /\ Head(toSender).kind \in {"newFile", "breakPoint"}
  BY DEF Arrived, Serving
<1> DEFINE h == Head(toSender)
<1>3. /\ h \in ToSenderMsg /\ 1 \in 1..Len(toSender) /\ toSender[1] = h
  BY <1>1, <1>2, TailElements
<1>4. h.file \in Files /\ IsConfirm(h, h.file)
  BY <1>2, <1>3 DEF ToSenderMsg, Confirm, IsConfirm
<1>5. Replied(h.file)
  BY <1>3, <1>4 DEF Replied
<1>6. \A f \in Files : task[f] \in Ended \cup {"none"}
  BY <1>2 DEF BoundInv, DispatcherStopped
<1>7. h.file \in Late /\ ~Queued(h.file)
  BY <1>1, <1>4, <1>5, <1>6 DEF FileTurn, ConfirmTurn, Unanswered, Ended
<1>8. \A i \in 1..ConfirmCap : /\ confirmQ[i].file \in Files
                               /\ IsConfirm(confirmQ[i], confirmQ[i].file)
                               /\ Queued(confirmQ[i].file)
  <2> SUFFICES ASSUME NEW i \in 1..ConfirmCap
               PROVE  /\ confirmQ[i].file \in Files
                      /\ IsConfirm(confirmQ[i], confirmQ[i].file)
                      /\ Queued(confirmQ[i].file)
    OBVIOUS
  <2>1. confirmQ[i] \in Confirm
    BY <1>1
  <2>2. confirmQ[i].file \in Files /\ IsConfirm(confirmQ[i], confirmQ[i].file)
    BY <2>1 DEF Confirm, IsConfirm
  <2> QED
    BY <2>2 DEF Queued
<1>9. \A i \in 1..ConfirmCap : confirmQ[i].file \in Late
  BY <1>1, <1>6, <1>8 DEF FileTurn, ConfirmTurn, Unanswered, Ended
<1>10. \A i, j \in 1..ConfirmCap : confirmQ[i].file = confirmQ[j].file => i = j
  BY <1>1, <1>8 DEF FileTurn, ConfirmTurn, OneQueued
<1> DEFINE S == 1..(ConfirmCap + 1)
           g == [i \in S |-> IF i <= ConfirmCap THEN confirmQ[i].file ELSE h.file]
<1>11. \A i \in S : i \in 1..ConfirmCap \/ i = ConfirmCap + 1
  BY <1>1
<1>12. ConfirmCap + 1 \in S /\ ~(ConfirmCap + 1 <= ConfirmCap)
       /\ \A i \in 1..ConfirmCap : i \in S /\ i <= ConfirmCap
  BY <1>1
<1>13. g[ConfirmCap + 1] = h.file /\ \A i \in 1..ConfirmCap : g[i] = confirmQ[i].file
  BY <1>12
<1>14. g \in [S -> Late]
  BY <1>7, <1>9, <1>11, <1>12
<1> HIDE DEF g, h, Late
<1>15. \A i, j \in S : g[i] = g[j] => i = j
  <2>1. \A i \in 1..ConfirmCap : g[i] # h.file
    BY <1>7, <1>8, <1>13
  <2> QED
    BY <2>1, <1>10, <1>11, <1>13
<1>16. g \in Injection(S, Late)
  BY <1>14, <1>15 DEF Injection, IsInjective
<1>17. IsFiniteSet(Late) /\ Cardinality(Late) \in Nat
  BY FilesFinite DEF Late
<1>18. Cardinality(S) <= Cardinality(Late)
  BY <1>16, <1>17, FS_Injection
<1>19. Cardinality(S) = ConfirmCap + 1
  BY <1>1, FS_Interval
<1> QED
  BY <1>1, <1>17, <1>18, <1>19

\* For any number of files and permits, the receiver holds no more files open
\* than the permits of the sender, but for those of tasks that gave up.
THEOREM FewFilesAreOpen == Spec => []OpenFilesBounded
BY InitBound, NextBound, BoundOpen, PTL DEF Spec

\* For any capacity of the confirm channel, the sender's main loop is stopped by
\* a full one without a dispatcher only after more than that many answers came
\* too late.
THEOREM OnlyLateAnswersBlock == Spec => []LoopBlockedByLateAnswers
BY InitBound, NextBound, BoundLate, PTL DEF Spec
=============================================================================
