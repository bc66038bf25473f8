-------------------------- MODULE ReconnectProofs ---------------------------
(***************************************************************************)
(* Proofs about shares over connections that are lost and come back, for   *)
(* any number of files, connections and calls of send_files, any contents  *)
(* and any capacity of the links.                                          *)
(*                                                                         *)
(* The first part is the types, the consent to write, and that each        *)
(* connection of the sender has at most one call of send_files: one of     *)
(* the request, the question, the answer, the resume request and the       *)
(* resume state is under way, or a call has begun and none is.             *)
(*                                                                         *)
(* The second part is what arrives.  The link carries the messages of one  *)
(* call at a time, behind those of a call that is cancelled comes the      *)
(* request for the next; the chunks of a file follow each other from a     *)
(* position the receiver's disk has reached.  So what is written a second  *)
(* time is what was there before.                                          *)
(* time is what was there before.  A message that the relay still held of  *)
(* a lost connection may come in between: nothing is claimed of its file.  *)
(*                                                                         *)
(* The third part is the end: a call posts Done when all of its tasks have *)
(* ended well, behind the FileDone of each, and no call is made once the   *)
(* user has rejected the share.                                            *)
(***************************************************************************)
EXTENDS Reconnect, FiniteSetTheorems, SequenceTheorems, TLAPS

USE DEF oldVars, connVars, runVars, senderVars, receiverVars

-----------------------------------------------------------------------------
(* Types.                                                                  *)

\* Messages to the receiver; FileData names a chunk the source has.
FileTypes == {"NewFileRequest", "BreakPoint", "FileData", "FileDone"}
Requests ==
  {m \in [type : FileTypes \cup {"SendRequest", "ResumeRequest", "Done"},
          file : Files \cup {0}, n : Nat] :
     /\ m.type \in FileTypes => m.file \in Files
     /\ m.type = "Done" => m.file = 0
     /\ m.type = "FileData" => m.n \in 1..Len(Source[m.file])}

\* Confirms and questions about a file, and messages to the sender.
Confirms == [kind : {"newFile", "breakPoint"}, file : Files, accept : BOOLEAN, n : Nat]
Signals == [kind : {"ready", "share", "done"}, file : {0}, accept : BOOLEAN, n : {0}]
Resumes == [kind : {"resume"}, received : [Files -> Nat]]
Replies == Confirms \cup Signals \cup Resumes
Questions == Confirms \cup {Reply("share", 0, FALSE, 0)}

\* A call of send_files, and how far it has come: "acquire" has a file to start.
Calls == {c \in [pc : {"none", "loop", "acquire", "join", "done", "failed"},
                 conn : Nat, next : Nat \ {0}] :
            c.pc = "acquire" => c.next \in Files}

TypeInv ==
  /\ link \in {"up", "lost", "joined"} /\ conn \in Nat
  /\ rlink \in {"first", "lost", "again"} /\ losses \in Nat
  /\ late \in Seq(Seq(Requests)) /\ lateReplies \in Seq(Seq(Replies))
  /\ mixed \subseteq Files \cup {0} /\ missed \in BOOLEAN
  /\ toReceiver \in Seq(Requests) /\ toSender \in Seq(Replies)
  /\ runs \in 0..MaxRuns
  /\ run \in [Runs -> Calls]
  /\ resume \in [Runs -> [Files -> Nat]]
  /\ task \in [Runs -> [Files -> {"none", "start", "wait", "stream", "ok", "failed"}]]
  /\ pos \in [Runs -> [Files -> Nat]]
  /\ told \in [Runs -> [Files -> Confirms \cup {None}]]
  /\ confirmQ \in Seq(Confirms)
  /\ client \in {"on", "error", "ended"} /\ completed \in BOOLEAN
  /\ prompts \in Seq(Questions)
  /\ accepted \in BOOLEAN /\ answers \in [Files -> SUBSET BOOLEAN]
  /\ recvFiles \subseteq Files /\ recvPos \in [Files -> Nat]
  /\ disk \in [Files -> Seq(Chunk) \cup {NoFile}]
  /\ \A f \in recvFiles : disk[f] # NoFile
  /\ finished \subseteq Files
  /\ rstate \in {"run", "unknownFile"} /\ receiveDone \in BOOLEAN

\* No call of send_files runs before it was started.
Unstarted ==
  /\ \A r \in Runs : r > runs => run[r].pc = "none"
  /\ \A r \in Runs : r > runs => \A f \in Files : task[r][f] = "none"

\* Head and tail of a nonempty sequence over S are in S and over S.
LEMMA HeadTail ==
  ASSUME NEW S, NEW q \in Seq(S), q # <<>>
  PROVE  Head(q) \in S /\ Tail(q) \in Seq(S)
  OBVIOUS

\* Appending an element of S keeps a sequence over S.
LEMMA AppendType ==
  ASSUME NEW S, NEW q \in Seq(S), NEW m \in S
  PROVE  Append(q, m) \in Seq(S)
  OBVIOUS

\* What arrives of a lost connection is over the same set.
LEMMA PrefixType ==
  ASSUME NEW S, NEW q \in Seq(S), NEW n \in 0..Len(q)
  PROVE  SubSeq(q, 1, n) \in Seq(S)
  OBVIOUS

\* So is the rest.
LEMMA RestType ==
  ASSUME NEW S, NEW q \in Seq(S), NEW n \in 0..Len(q)
  PROVE  SubSeq(q, n + 1, Len(q)) \in Seq(S)
  OBVIOUS

\* A handler of a lost connection that hands on a message holds the others still.
LEMMA HandedOn ==
  ASSUME NEW S, NEW q \in Seq(Seq(S)), NEW i \in DOMAIN q, q[i] # <<>>
  PROVE  /\ Head(q[i]) \in S
         /\ [q EXCEPT ![i] = Tail(q[i])] \in Seq(Seq(S))
<1>1. q[i] \in Seq(S)
  OBVIOUS
<1>2. Head(q[i]) \in S /\ Tail(q[i]) \in Seq(S)
  BY <1>1, HeadTail
<1> QED
  BY <1>2

\* The stand-in for a missing file is not a content; that of a new file is.
LEMMA NewContent == NoFile \notin Seq(Chunk) /\ <<>> \in Seq(Chunk) /\ <<>> # NoFile
<1>1. <<>> \in Seq(Chunk)
  OBVIOUS
<1> QED
  BY <1>1, ReconnectAssumption

\* The number of saved chunks is a number: the scan looks at finitely many.
LEMMA SavedChunksType ==
  ASSUME NEW s \in Seq(Chunk)
  PROVE  SavedChunks(s) \in Nat
<1> DEFINE S == {i \in 1..Len(s) : \E j \in i..Len(s) : s[j] # Zero}
<1>1. IsFiniteSet(1..Len(s))
  BY FS_Interval
<1>2. IsFiniteSet(S)
  BY <1>1, FS_Subset
<1> QED
  BY <1>2, FS_CardinalityType DEF SavedChunks

\* Writing a chunk anywhere into a content gives a content.
LEMMA WriteAtType ==
  ASSUME NEW s \in Seq(Chunk), NEW p \in Nat, NEW c \in Chunk
  PROVE  WriteAt(s, p, c) \in Seq(Chunk)
  BY ZeroAssumption DEF WriteAt

\* What a task posts is on the link, or nothing is.
LEMMA PostType ==
  ASSUME toReceiver \in Seq(Requests), NEW r, NEW m \in Requests, Post(r, m)
  PROVE  toReceiver' \in Seq(Requests)
  BY AppendType DEF Post, ToReceiver

\* The messages without a file are messages.
LEMMA PlainMessages ==
  /\ \A t \in {"SendRequest", "ResumeRequest", "Done"} : Msg(t, 0, 0) \in Requests
  /\ \A k \in {"ready", "share", "done"}, a \in BOOLEAN : Reply(k, 0, a, 0) \in Replies
  BY DEF Msg, Reply, Requests, FileTypes, Replies, Signals

\* So are the ones about a file.
LEMMA FileMessages ==
  ASSUME NEW f \in Files, NEW n \in Nat
  PROVE  /\ Msg("NewFileRequest", f, n) \in Requests
         /\ Msg("BreakPoint", f, n) \in Requests
         /\ Msg("FileDone", f, n) \in Requests
         /\ n \in 1..Len(Source[f]) => Msg("FileData", f, n) \in Requests
         /\ \A k \in {"newFile", "breakPoint"}, a \in BOOLEAN :
              Reply(k, f, a, n) \in Confirms
  BY DEF Msg, Reply, Requests, FileTypes, Confirms

\* None of the answers is nothing.
LEMMA NoneIsNone == None.kind = "none" /\ None \notin Confirms
  BY DEF None, Reply, Confirms

Typed == TypeInv /\ Unstarted

\* Nothing has been started at the beginning.
LEMMA TypedInit == Init => Typed
<1> SUFFICES ASSUME Init PROVE Typed
  OBVIOUS
<1>1. /\ link = "up" /\ conn = 1 /\ rlink = "first" /\ losses = 0 /\ runs = 0
      /\ late = <<>> /\ lateReplies = <<>> /\ mixed = {} /\ missed = FALSE
      /\ 0 \in 0..MaxRuns
      /\ client = "on" /\ completed = FALSE /\ accepted = FALSE /\ recvFiles = {}
      /\ finished = {} /\ rstate = "run" /\ receiveDone = FALSE
  BY ReconnectAssumption DEF Init
<1>2. /\ toReceiver \in Seq(Requests) /\ confirmQ \in Seq(Confirms)
      /\ prompts \in Seq(Questions)
  BY DEF Init
<1>3. toSender \in Seq(Replies)
  <2>1. Reply("ready", 0, FALSE, 0) \in Replies
    BY PlainMessages
  <2>2. toSender = <<Reply("ready", 0, FALSE, 0)>>
    BY DEF Init
  <2>3. \A m \in Replies : <<m>> \in Seq(Replies)
    OBVIOUS
  <2> QED
    BY <2>1, <2>2, <2>3, Zenon
<1>4. run \in [Runs -> Calls] /\ \A r \in Runs : run[r].pc = "none"
  BY DEF Init, Calls
<1>5. /\ resume \in [Runs -> [Files -> Nat]] /\ pos \in [Runs -> [Files -> Nat]]
      /\ task \in [Runs -> [Files -> {"none", "start", "wait", "stream", "ok", "failed"}]]
      /\ \A r \in Runs, f \in Files : task[r][f] = "none"
      /\ told \in [Runs -> [Files -> Confirms \cup {None}]]
  BY DEF Init
<1>6. /\ answers \in [Files -> SUBSET BOOLEAN] /\ recvPos \in [Files -> Nat]
      /\ disk \in [Files -> Seq(Chunk) \cup {NoFile}]
  BY DEF Init
<1>7. late \in Seq(Seq(Requests)) /\ lateReplies \in Seq(Seq(Replies))
      /\ mixed \subseteq Files \cup {0} /\ missed \in BOOLEAN
  <2>1. \A S : <<>> \in Seq(Seq(S))
    OBVIOUS
  <2> QED
    BY <1>1, <2>1
<1> QED
  BY <1>1, <1>2, <1>3, <1>4, <1>5, <1>6, <1>7 DEF Typed, TypeInv, Unstarted

\* Losing connections and coming back keep the types.
LEMMA TypedConnections ==
  ASSUME Typed, Connections \/ SenderBack \/ Joined \/ ReceiverBack
  PROVE  Typed'
<1>1. CASE SenderLost
  BY <1>1, PrefixType DEF SenderLost, Typed, TypeInv, Unstarted
<1>2. CASE ReceiverLost
  BY <1>2, PrefixType DEF ReceiverLost, Typed, TypeInv, Unstarted
<1>3. CASE SenderMisses
  BY <1>3, HeadTail DEF SenderMisses, Typed, TypeInv, Unstarted
<1>8. CASE ReceiverMisses
  BY <1>8, HeadTail DEF ReceiverMisses, Typed, TypeInv, Unstarted
<1>4. CASE GiveUp
  BY <1>4 DEF GiveUp, Typed, TypeInv, Unstarted
<1>5. CASE SenderBack
  <2>1. <<>> \in Seq(Confirms)
    OBVIOUS
  <2>2. PICK n \in 0..Len(toReceiver) :
          /\ toReceiver' = SubSeq(toReceiver, 1, n)
          /\ late' = Append(late, SubSeq(toReceiver, n + 1, Len(toReceiver)))
    BY <1>5 DEF SenderBack
  <2>3. toReceiver' \in Seq(Requests) /\ late' \in Seq(Seq(Requests))
    BY <2>2, PrefixType, RestType, AppendType DEF Typed, TypeInv
  <2> QED
    BY <1>5, <2>1, <2>3 DEF SenderBack, Typed, TypeInv, Unstarted
<1>6. CASE Joined
  BY <1>6, AppendType, PlainMessages DEF Joined, ToReceiver, Typed, TypeInv, Unstarted
<1>7. CASE ReceiverBack
  <2>1. PICK n \in 0..Len(toSender) :
          /\ toSender' = Append(SubSeq(toSender, 1, n), Reply("ready", 0, FALSE, 0))
          /\ lateReplies' = Append(lateReplies, SubSeq(toSender, n + 1, Len(toSender)))
    BY <1>7 DEF ReceiverBack
  <2>2. SubSeq(toSender, 1, n) \in Seq(Replies) /\ Reply("ready", 0, FALSE, 0) \in Replies
    BY PrefixType, PlainMessages DEF Typed, TypeInv
  <2>3. toSender' \in Seq(Replies) /\ lateReplies' \in Seq(Seq(Replies))
    BY <2>1, <2>2, RestType, AppendType DEF Typed, TypeInv
  <2> QED
    BY <1>7, <2>3 DEF ReceiverBack, Typed, TypeInv, Unstarted
<1>9. ASSUME NEW i \in DOMAIN late, LateRequest(i) PROVE Typed'
  <2>1. /\ Head(late[i]) \in Requests
        /\ [late EXCEPT ![i] = Tail(late[i])] \in Seq(Seq(Requests))
    BY <1>9, HandedOn DEF LateRequest, Typed, TypeInv
  <2>2. Head(late[i]).file \in Files \cup {0}
    BY <2>1 DEF Requests
  <2>3. toReceiver' \in Seq(Requests) /\ late' \in Seq(Seq(Requests))
    BY <1>9, <2>1, AppendType DEF LateRequest, ToReceiver, Typed, TypeInv
  <2> QED
    BY <1>9, <2>2, <2>3 DEF LateRequest, Typed, TypeInv, Unstarted
<1>10. ASSUME NEW i \in DOMAIN lateReplies, LateReply(i) PROVE Typed'
  <2>1. /\ Head(lateReplies[i]) \in Replies
        /\ [lateReplies EXCEPT ![i] = Tail(lateReplies[i])] \in Seq(Seq(Replies))
    BY <1>10, HandedOn DEF LateReply, Typed, TypeInv
  <2>2. toSender' \in Seq(Replies) /\ lateReplies' \in Seq(Seq(Replies))
    BY <1>10, <2>1, AppendType DEF LateReply, ToSender, Typed, TypeInv
  <2> QED
    BY <1>10, <2>2 DEF LateReply, Typed, TypeInv, Unstarted
<1> QED
  BY <1>1, <1>2, <1>3, <1>4, <1>5, <1>6, <1>7, <1>8, <1>9, <1>10 DEF Connections

\* A message that arrives is one of its kind.
LEMMA ArrivedType ==
  ASSUME TypeInv, NEW k, Arrived(k)
  PROVE  /\ toSender # <<>> /\ Head(toSender) \in Replies /\ Head(toSender).kind = k
         /\ Tail(toSender) \in Seq(Replies)
         /\ k \in {"newFile", "breakPoint"} => Head(toSender) \in Confirms
         /\ k = "resume" => Head(toSender).received \in [Files -> Nat]
<1>1. toSender # <<>> /\ Head(toSender) \in Replies /\ Tail(toSender) \in Seq(Replies)
  BY HeadTail DEF Arrived, TypeInv
<1> QED
  BY <1>1 DEF Arrived, Replies, Confirms, Signals, Resumes

\* A call of send_files that starts is the next one.
LEMMA TypedStart ==
  ASSUME Typed, NEW received \in [Files -> Nat], Start(received)
  PROVE  /\ runs' = runs + 1 /\ runs + 1 \in Runs /\ runs' \in 0..MaxRuns
         /\ run' \in [Runs -> Calls] /\ resume' \in [Runs -> [Files -> Nat]]
         /\ run'[runs + 1] = [pc |-> "loop", conn |-> conn, next |-> 1]
         /\ \A r \in Runs \ {runs + 1} : run'[r] = run[r]
         /\ Unstarted'
<1>1. /\ runs' = runs + 1 /\ runs + 1 \in Runs /\ runs' \in 0..MaxRuns
      /\ runs \in Nat
  BY ReconnectAssumption DEF Start, Typed, TypeInv, Runs
<1>2. [pc |-> "loop", conn |-> conn, next |-> 1] \in Calls
  BY DEF Calls, Typed, TypeInv
<1>3. /\ run' \in [Runs -> Calls] /\ resume' \in [Runs -> [Files -> Nat]]
      /\ run'[runs + 1] = [pc |-> "loop", conn |-> conn, next |-> 1]
      /\ \A r \in Runs \ {runs + 1} : run'[r] = run[r]
  BY <1>1, <1>2 DEF Start, Typed, TypeInv
<1>4. Unstarted'
  BY <1>1, <1>3 DEF Start, Typed, Unstarted, Runs
<1> QED
  BY <1>1, <1>3, <1>4

\* The main loop keeps the types.
LEMMA TypedLoop ==
  ASSUME Typed, \/ Ready \/ ShareAccepted \/ ShareRejected \/ ResumeState
                \/ EnqueueConfirm \/ DoneReplied \/ ClientEnds
  PROVE  Typed'
<1>1. CASE Ready
  BY <1>1, ArrivedType, AppendType, PlainMessages
     DEF Ready, Taken, ToReceiver, Typed, TypeInv, Unstarted
<1>2. CASE ShareAccepted
  <2>1. [f \in Files |-> 0] \in [Files -> Nat]
    OBVIOUS
  <2>2. Start([f \in Files |-> 0]) /\ toSender' \in Seq(Replies)
    BY <1>2, ArrivedType DEF ShareAccepted, Taken, Typed
  <2>3. /\ runs' \in 0..MaxRuns /\ run' \in [Runs -> Calls] /\ Unstarted'
        /\ resume' \in [Runs -> [Files -> Nat]]
    BY <2>1, <2>2, TypedStart
  <2> QED
    BY <1>2, <2>2, <2>3 DEF ShareAccepted, Start, Typed, TypeInv
<1>3. CASE ShareRejected
  BY <1>3, ArrivedType, AppendType, PlainMessages
     DEF ShareRejected, Taken, ToReceiver, Typed, TypeInv, Unstarted
<1>4. CASE ResumeState
  <2>1. Head(toSender).received \in [Files -> Nat]
    BY <1>4, ArrivedType DEF ResumeState, Typed
  <2>2. Start(Head(toSender).received) /\ toSender' \in Seq(Replies)
    BY <1>4, ArrivedType DEF ResumeState, Taken, Typed
  <2>3. /\ runs' \in 0..MaxRuns /\ run' \in [Runs -> Calls] /\ Unstarted'
        /\ resume' \in [Runs -> [Files -> Nat]]
    BY <2>1, <2>2, TypedStart
  <2> QED
    BY <1>4, <2>2, <2>3 DEF ResumeState, Start, Typed, TypeInv
<1>5. CASE EnqueueConfirm
  <2>1. Head(toSender) \in Confirms /\ toSender' \in Seq(Replies)
    BY <1>5, ArrivedType DEF EnqueueConfirm, Taken, Typed
  <2> QED
    BY <1>5, <2>1, AppendType DEF EnqueueConfirm, Typed, TypeInv, Unstarted
<1>6. CASE DoneReplied
  BY <1>6, ArrivedType DEF DoneReplied, Taken, Typed, TypeInv, Unstarted
<1>7. CASE ClientEnds
  BY <1>7 DEF ClientEnds, Typed, TypeInv, Unstarted
<1> QED
  BY <1>1, <1>2, <1>3, <1>4, <1>5, <1>6, <1>7

\* A call that goes on is a call.
LEMMA CallGoesOn ==
  ASSUME NEW c \in Calls, NEW pc \in {"loop", "acquire", "join", "done", "failed"},
         pc = "acquire" => c.next \in Files
  PROVE  [c EXCEPT !.pc = pc] \in Calls /\ [c EXCEPT !.pc = pc].conn = c.conn
<1> DEFINE S == [pc : {"none", "loop", "acquire", "join", "done", "failed"},
                 conn : Nat, next : Nat \ {0}]
<1>1. c \in S
  BY DEF Calls
<1>2. /\ [c EXCEPT !.pc = pc] \in S /\ [c EXCEPT !.pc = pc].conn = c.conn
      /\ [c EXCEPT !.pc = pc].pc = pc /\ [c EXCEPT !.pc = pc].next = c.next
  BY <1>1
<1> QED
  BY <1>2 DEF Calls

\* So is one that has started a task.
LEMMA CallCounts ==
  ASSUME NEW c \in Calls
  PROVE  /\ [c EXCEPT !.pc = "loop", !.next = c.next + 1] \in Calls
         /\ [c EXCEPT !.pc = "loop", !.next = c.next + 1].conn = c.conn
<1> DEFINE S == [pc : {"none", "loop", "acquire", "join", "done", "failed"},
                 conn : Nat, next : Nat \ {0}]
           d == [c EXCEPT !.pc = "loop", !.next = c.next + 1]
<1>1. c \in S /\ c.next + 1 \in Nat \ {0}
  BY DEF Calls
<1>2. d \in S /\ d.conn = c.conn /\ d.pc = "loop"
  BY <1>1
<1> QED
  BY <1>2 DEF Calls

\* A call that goes on keeps the calls.
LEMMA GoType ==
  ASSUME Typed, NEW r \in Runs, r <= runs,
         NEW pc \in {"loop", "acquire", "join", "done", "failed"},
         pc = "acquire" => run[r].next \in Files, Go(r, pc), UNCHANGED <<runs, task>>
  PROVE  run' \in [Runs -> Calls] /\ Unstarted'
<1>1. run' = [run EXCEPT ![r] = [run[r] EXCEPT !.pc = pc]]
  BY DEF Go, Typed, TypeInv
<1>2. run[r] \in Calls
  BY DEF Typed, TypeInv
<1>3. [run[r] EXCEPT !.pc = pc] \in Calls
  BY <1>2, CallGoesOn
<1>4. run' \in [Runs -> Calls] /\ \A s \in Runs \ {r} : run'[s] = run[s]
  BY <1>1, <1>3 DEF Typed, TypeInv
<1>5. r \in Nat /\ runs \in Nat
  BY ReconnectAssumption DEF Typed, TypeInv, Runs
<1>6. \A s \in Runs : s > runs => s # r
  BY <1>5
<1>7. \A s \in Runs : s > runs => run'[s].pc = "none"
  BY <1>4, <1>6 DEF Typed, Unstarted
<1> QED
  BY <1>4, <1>7 DEF Typed, Unstarted

\* A task with something to do is of a call that was started.
LEMMA StartedCall ==
  ASSUME Typed, NEW r \in Runs
  PROVE  /\ run[r].pc # "none" => r <= runs
         /\ \A f \in Files : task[r][f] # "none" => r <= runs
         /\ r \in Nat /\ runs \in Nat
  BY ReconnectAssumption DEF Typed, TypeInv, Unstarted, Runs

\* Moving a task or a call keeps the types.
LEMMA TurnType ==
  ASSUME Typed, NEW r \in Runs, NEW f \in Files,
         NEW pc \in {"start", "wait", "stream", "ok", "failed"}, Turn(r, f, pc)
  PROVE  /\ task' \in [Runs -> [Files -> {"none", "start", "wait", "stream", "ok", "failed"}]]
         /\ task'[r][f] = pc
         /\ \A s \in Runs, g \in Files : s # r \/ g # f => task'[s][g] = task[s][g]
  BY DEF Turn, Typed, TypeInv

\* send_files keeps the types.
LEMMA TypedSendFiles ==
  ASSUME Typed, NEW r \in Runs, SendFiles(r)
  PROVE  Typed'
<1> USE DEF Typed
<1>1. CASE NextFile(r)
  <2>1. r <= runs /\ run[r].next \in Nat \ {0} /\ UNCHANGED <<runs, task>>
    BY <1>1 DEF NextFile, InRun, TypeInv, Calls
  <2>2. \E pc \in {"join", "acquire"} :
          Go(r, pc) /\ (pc = "acquire" => run[r].next \in Files)
    BY <1>1, <2>1, ReconnectAssumption DEF NextFile, Files
  <2>3. run' \in [Runs -> Calls] /\ Unstarted'
    BY <2>1, <2>2, GoType
  <2> QED
    BY <1>1, <2>3 DEF NextFile, TypeInv
<1>2. CASE SpawnTask(r)
  <2>1. /\ r <= runs /\ run[r] \in Calls /\ run[r].next \in Files
        /\ Turn(r, run[r].next, "start")
    <3>1. run[r] \in Calls
      BY DEF TypeInv
    <3> QED
      BY <1>2, <3>1 DEF SpawnTask, InRun, Turn, Calls
  <2>2. [run[r] EXCEPT !.pc = "loop", !.next = run[r].next + 1] \in Calls
    BY <2>1, CallCounts
  <2>3. run' \in [Runs -> Calls] /\ \A s \in Runs \ {r} : run'[s] = run[s]
    <3>1. run' = [run EXCEPT ![r] = [run[r] EXCEPT !.pc = "loop", !.next = run[r].next + 1]]
      BY <1>2 DEF SpawnTask, TypeInv
    <3> QED
      BY <2>2, <3>1 DEF TypeInv
  <2>4. Unstarted'
    BY <1>2, <2>1, <2>3, TurnType, StartedCall DEF SpawnTask, Unstarted
  <2> QED
    BY <1>2, <2>1, <2>3, <2>4, TurnType DEF SpawnTask, TypeInv
<1>3. CASE JoinTasks(r)
  <2>1. toReceiver' \in Seq(Requests)
    BY <1>3, PlainMessages, PostType DEF JoinTasks, TypeInv
  <2>2. /\ r <= runs /\ UNCHANGED <<runs, task>>
        /\ \E pc \in {"done", "failed"} : Go(r, pc)
    BY <1>3 DEF JoinTasks, InRun
  <2>3. run' \in [Runs -> Calls] /\ Unstarted'
    BY <2>2, GoType
  <2>4. client' \in {"on", "error", "ended"}
    BY <1>3 DEF JoinTasks, Error, TypeInv
  <2> QED
    BY <1>3, <2>1, <2>3, <2>4 DEF JoinTasks, TypeInv
<1>4. CASE Dispatch(r)
  <2>1. Head(confirmQ) \in Confirms /\ confirmQ' \in Seq(Confirms)
    BY <1>4, HeadTail DEF Dispatch, TypeInv
  <2>2. Head(confirmQ).file \in Files
    BY <2>1 DEF Confirms
  <2>3. told' \in [Runs -> [Files -> Confirms \cup {None}]]
    BY <1>4, <2>1, <2>2 DEF Dispatch, TypeInv
  <2> QED
    BY <1>4, <2>1, <2>3 DEF Dispatch, TypeInv, Unstarted
<1> QED
  BY <1>1, <1>2, <1>3, <1>4 DEF SendFiles

\* So does a task.
LEMMA TypedTask ==
  ASSUME Typed, NEW r \in Runs, NEW f \in Files, SendSingleFile(r, f) \/ TaskFails(r, f)
  PROVE  Typed'
<1> USE DEF Typed
<1>0. ASSUME NEW pc \in {"start", "wait", "stream", "ok", "failed"}, Turn(r, f, pc),
             task[r][f] # "none", UNCHANGED <<runs, run>>
      PROVE  /\ task' \in [Runs -> [Files -> {"none", "start", "wait", "stream", "ok",
                                              "failed"}]]
             /\ Unstarted'
  BY <1>0, TurnType, StartedCall DEF Unstarted
<1>1. CASE ResumeFile(r, f)
  <2>1. resume[r][f] \in Nat
    BY DEF TypeInv
  <2>2. toReceiver' \in Seq(Requests)
    BY <1>1, <2>1, FileMessages, PostType DEF ResumeFile, TypeInv
  <2>3. pos' \in [Runs -> [Files -> Nat]]
    BY <1>1, <2>1 DEF ResumeFile, TypeInv
  <2> QED
    BY <1>1, <2>2, <2>3, <1>0 DEF ResumeFile, InTask, TypeInv
<1>2. CASE RequestFile(r, f)
  <2>1. toReceiver' \in Seq(Requests)
    BY <1>2, FileMessages, PostType DEF RequestFile, TypeInv
  <2> QED
    BY <1>2, <2>1, <1>0 DEF RequestFile, InTask, TypeInv
<1>3. CASE FileKept(r, f)
  <2>1. told' \in [Runs -> [Files -> Confirms \cup {None}]]
    BY <1>3 DEF FileKept, Confirmed, TypeInv
  <2> QED
    BY <1>3, <2>1, <1>0 DEF FileKept, Confirmed, InTask, TypeInv
<1>4. CASE FileConfirmed(r, f)
  <2>1. told' \in [Runs -> [Files -> Confirms \cup {None}]]
    BY <1>4 DEF FileConfirmed, Confirmed, TypeInv
  <2>2. told[r][f].n \in Nat
    BY <1>4 DEF FileConfirmed, Confirmed, TypeInv, Confirms
  <2>3. toReceiver' \in Seq(Requests)
    BY <1>4, <2>2, FileMessages, PostType DEF FileConfirmed, TypeInv
  <2>4. pos' \in [Runs -> [Files -> Nat]]
    BY <1>4, <2>2 DEF FileConfirmed, TypeInv
  <2> QED
    BY <1>4, <2>1, <2>3, <2>4, <1>0 DEF FileConfirmed, Confirmed, InTask, TypeInv
<1>5. CASE ConfirmTimeout(r, f)
  BY <1>5, <1>0 DEF ConfirmTimeout, InTask, TypeInv
<1>6. CASE StreamCancelled(r, f)
  BY <1>6, <1>0 DEF StreamCancelled, InTask, TypeInv
<1>7. CASE SendChunk(r, f)
  <2>1. pos[r][f] \in Nat /\ pos[r][f] + 1 \in 1..Len(Source[f]) /\ pos[r][f] + 1 \in Nat
    BY <1>7, ReconnectAssumption DEF SendChunk, TypeInv
  <2>2. toReceiver' \in Seq(Requests)
    BY <1>7, <2>1, FileMessages, PostType DEF SendChunk, TypeInv
  <2>3. pos' \in [Runs -> [Files -> Nat]]
    BY <1>7, <2>1 DEF SendChunk, TypeInv
  <2> QED
    BY <1>7, <2>2, <2>3 DEF SendChunk, TypeInv, Unstarted
<1>8. CASE SendFileDone(r, f)
  <2>1. toReceiver' \in Seq(Requests)
    BY <1>8, FileMessages, PostType DEF SendFileDone, TypeInv
  <2> QED
    BY <1>8, <2>1, <1>0 DEF SendFileDone, InTask, TypeInv
<1>9. CASE TaskFails(r, f)
  BY <1>9, <1>0 DEF TaskFails, TypeInv
<1> QED
  BY <1>1, <1>2, <1>3, <1>4, <1>5, <1>6, <1>7, <1>8, <1>9 DEF SendSingleFile

\* A message the receiver takes is one of its type.
LEMMA ReceivedType ==
  ASSUME TypeInv, NEW t, Received(t)
  PROVE  /\ toReceiver # <<>> /\ Head(toReceiver) \in Requests
         /\ Head(toReceiver).type = t /\ toReceiver' \in Seq(Requests)
         /\ Head(toReceiver).n \in Nat
         /\ t = "FileData" => Head(toReceiver).n \in 1..Len(Source[Head(toReceiver).file])
<1>1. toReceiver # <<>> /\ Head(toReceiver) \in Requests /\ toReceiver' \in Seq(Requests)
  BY HeadTail DEF Received, TypeInv
<1> QED
  BY <1>1 DEF Received, Requests

\* The receiver's loop keeps the types.
LEMMA TypedReceiver ==
  ASSUME Typed, ReceiverLoop
  PROVE  Typed'
<1> USE DEF Typed
<1>1. CASE ReceiverBack
  BY <1>1, TypedConnections
<1>2. CASE RecvSendRequest
  <2>1. prompts' \in Seq(Questions)
    BY <1>2, AppendType DEF RecvSendRequest, Ask, Questions, TypeInv
  <2> QED
    BY <1>2, <2>1, ReceivedType DEF RecvSendRequest, TypeInv, Unstarted
<1>3. CASE RecvResumeRequest
  <2> DEFINE received == [f \in Files |-> IF f \in recvFiles THEN recvPos[f] ELSE 0]
  <2>1. received \in [Files -> Nat]
    BY DEF TypeInv
  <2>2. ResumeReply(received) \in Replies
    BY <2>1 DEF ResumeReply, Replies, Resumes
  <2>3. ToSender(ResumeReply(received))
    BY <1>3 DEF RecvResumeRequest
  <2> HIDE DEF received
  <2>4. toSender' \in Seq(Replies)
    BY <2>2, <2>3, AppendType DEF ToSender, TypeInv
  <2> QED
    BY <1>3, <2>4, ReceivedType DEF RecvResumeRequest, TypeInv, Unstarted
<1>4. CASE RecvDone
  <2>1. toSender' \in Seq(Replies)
    BY <1>4, PlainMessages, AppendType DEF RecvDone, ToSender, TypeInv
  <2> QED
    BY <1>4, <2>1, ReceivedType DEF RecvDone, TypeInv, Unstarted
<1>5. ASSUME NEW f \in Files, RecvNewFile(f) PROVE Typed'
  <2>1. toSender' \in Seq(Replies)
    BY <1>5, FileMessages, AppendType DEF RecvNewFile, ToSender, TypeInv, Replies
  <2>2. /\ disk' \in [Files -> Seq(Chunk) \cup {NoFile}]
        /\ recvFiles' \subseteq Files /\ recvPos' \in [Files -> Nat]
        /\ \A g \in recvFiles' : disk'[g] # NoFile
    BY <1>5, NewContent DEF RecvNewFile, Open, TypeInv
  <2> QED
    BY <1>5, <2>1, <2>2, ReceivedType DEF RecvNewFile, ReceivedFile, TypeInv, Unstarted
<1>6. ASSUME NEW f \in Files, RecvExistingFile(f) PROVE Typed'
  <2>1. disk[f] \in Seq(Chunk)
    BY <1>6 DEF RecvExistingFile, TypeInv
  <2>2. \E k \in {"newFile", "breakPoint"}, n \in Nat : Ask(k, f, n)
    BY <1>6, <2>1, SavedChunksType DEF RecvExistingFile
  <2>3. prompts' \in Seq(Questions)
    <3>1. PICK k \in {"newFile", "breakPoint"}, n \in Nat : Ask(k, f, n)
      BY <2>2
    <3>2. Reply(k, f, FALSE, n) \in Questions
      BY FileMessages DEF Questions
    <3> QED
      BY <3>1, <3>2, AppendType DEF Ask, TypeInv
  <2>4. /\ recvFiles' \subseteq Files /\ recvPos' \in [Files -> Nat]
        /\ \A g \in recvFiles' : disk'[g] # NoFile
    BY <1>6 DEF RecvExistingFile, Open, TypeInv
  <2>5. toReceiver' \in Seq(Requests)
    BY <1>6, ReceivedType DEF RecvExistingFile, ReceivedFile
  <2> QED
    BY <1>6, <2>3, <2>4, <2>5 DEF RecvExistingFile, TypeInv, Unstarted
<1>7. ASSUME NEW f \in Files, RecvBreakPoint(f) PROVE Typed'
  <2>1. recvPos' \in [Files -> Nat] /\ rstate' \in {"run", "unknownFile"}
    BY <1>7, ReceivedType DEF RecvBreakPoint, ReceivedFile, Lookup, TypeInv
  <2> QED
    BY <1>7, <2>1, ReceivedType DEF RecvBreakPoint, ReceivedFile, TypeInv, Unstarted
<1>8. ASSUME NEW f \in Files, RecvFileData(f) PROVE Typed'
  <2> DEFINE n == Head(toReceiver).n
  <2>1. rstate' \in {"run", "unknownFile"} /\ toReceiver' \in Seq(Requests)
    BY <1>8, ReceivedType DEF RecvFileData, ReceivedFile, Lookup, TypeInv
  <2>2. n \in 1..Len(Source[f]) /\ Source[f][n] \in Chunk
    BY <1>8, ReceivedType, ReconnectAssumption DEF RecvFileData, ReceivedFile
  <2>3. f \in recvFiles => /\ WriteAt(disk[f], recvPos[f], Source[f][n]) \in Seq(Chunk)
                           /\ recvPos[f] + 1 \in Nat
    <3> SUFFICES ASSUME f \in recvFiles
                 PROVE  /\ WriteAt(disk[f], recvPos[f], Source[f][n]) \in Seq(Chunk)
                        /\ recvPos[f] + 1 \in Nat
      OBVIOUS
    <3>1. recvPos[f] \in Nat /\ disk[f] \in Seq(Chunk)
      BY DEF TypeInv
    <3> HIDE DEF n
    <3>2. WriteAt(disk[f], recvPos[f], Source[f][n]) \in Seq(Chunk)
      BY <2>2, <3>1, WriteAtType, Zenon
    <3> QED
      BY <3>1, <3>2
  <2>4. /\ disk' \in [Files -> Seq(Chunk) \cup {NoFile}] /\ recvPos' \in [Files -> Nat]
        /\ \A g \in recvFiles' : disk'[g] # NoFile
    <3>1. CASE f \in recvFiles
      <4>1. disk' = [disk EXCEPT ![f] = WriteAt(disk[f], recvPos[f], Source[f][n])]
        BY <1>8, <3>1 DEF RecvFileData
      <4>2. recvPos' = [recvPos EXCEPT ![f] = @ + 1] /\ recvFiles' = recvFiles
        BY <1>8, <3>1 DEF RecvFileData
      <4> QED
        BY <4>1, <4>2, <3>1, <2>3, NewContent DEF TypeInv
    <3>2. CASE f \notin recvFiles
      BY <1>8, <3>2 DEF RecvFileData, TypeInv
    <3> QED
      BY <3>1, <3>2
  <2> QED
    BY <1>8, <2>1, <2>4 DEF RecvFileData, TypeInv, Unstarted
<1>9. ASSUME NEW f \in Files, RecvFileDone(f) PROVE Typed'
  <2>1. rstate' \in {"run", "unknownFile"}
    BY <1>9 DEF RecvFileDone, Lookup
  <2>2. /\ recvFiles' \subseteq Files /\ finished' \subseteq Files
        /\ \A g \in recvFiles' : disk'[g] # NoFile
    BY <1>9 DEF RecvFileDone, TypeInv
  <2> QED
    BY <1>9, <2>1, <2>2, ReceivedType DEF RecvFileDone, ReceivedFile, TypeInv, Unstarted
<1> QED
  BY <1>1, <1>2, <1>3, <1>4, <1>5, <1>6, <1>7, <1>8, <1>9 DEF ReceiverLoop

\* The user's answers keep them.
LEMMA TypedUser ==
  ASSUME Typed, User
  PROVE  Typed'
<1> USE DEF Typed
<1>0. ASSUME NEW k, Answered(k)
      PROVE  /\ prompts' \in Seq(Questions)
             /\ k \in {"newFile", "breakPoint"} =>
                  Head(prompts) \in Confirms /\ Head(prompts).file \in Files
  <2>1. Head(prompts) \in Questions /\ prompts' \in Seq(Questions)
    BY <1>0, HeadTail DEF Answered, TypeInv
  <2> QED
    BY <1>0, <2>1 DEF Answered, Questions, Confirms, Reply
<1>1. ASSUME NEW a \in BOOLEAN, AnswerShare(a) PROVE Typed'
  <2>1. toSender' \in Seq(Replies)
    BY <1>1, PlainMessages, AppendType DEF AnswerShare, ToSender, TypeInv
  <2> QED
    BY <1>1, <1>0, <2>1 DEF AnswerShare, TypeInv, Unstarted
<1>2. ASSUME NEW a \in BOOLEAN, AnswerDuplicate(a) PROVE Typed'
  <2>1. Answered("newFile") /\ Head(prompts) \in Confirms /\ Head(prompts).file \in Files
    BY <1>2, <1>0 DEF AnswerDuplicate
  <2>2. [Head(prompts) EXCEPT !.accept = a] \in Replies
    BY <2>1 DEF Confirms, Replies
  <2>3. toSender' \in Seq(Replies)
    BY <1>2, <2>2, AppendType DEF AnswerDuplicate, ToSender, TypeInv
  <2>4. answers' \in [Files -> SUBSET BOOLEAN]
    BY <1>2, <2>1 DEF AnswerDuplicate, Note, TypeInv
  <2>5. recvFiles' \subseteq recvFiles
    BY <1>2 DEF AnswerDuplicate
  <2> QED
    BY <1>2, <1>0, <2>1, <2>3, <2>4, <2>5 DEF AnswerDuplicate, TypeInv, Unstarted
<1>3. ASSUME NEW a \in BOOLEAN, AnswerBreakPoint(a) PROVE Typed'
  <2> DEFINE f == Head(prompts).file
  <2>1. Answered("breakPoint") /\ Head(prompts) \in Confirms /\ f \in Files
        /\ Head(prompts).n \in Nat
    BY <1>3, <1>0 DEF AnswerBreakPoint, Confirms
  <2>2. Reply("breakPoint", f, a, IF a THEN Head(prompts).n ELSE 0) \in Replies
    BY <2>1, FileMessages DEF Replies
  <2>3. toSender' \in Seq(Replies)
    BY <1>3, <2>2, AppendType DEF AnswerBreakPoint, ToSender, TypeInv
  <2>4. answers' \in [Files -> SUBSET BOOLEAN]
    BY <1>3, <2>1 DEF AnswerBreakPoint, Note, TypeInv
  <2>5. /\ disk' \in [Files -> Seq(Chunk) \cup {NoFile}] /\ recvPos' \in [Files -> Nat]
        /\ \A g \in recvFiles : disk'[g] # NoFile
    <3>1. \/ UNCHANGED <<disk, recvPos>>
          \/ /\ disk' = [disk EXCEPT ![f] = <<>>]
             /\ recvPos' = [recvPos EXCEPT ![f] = 0]
      BY <1>3 DEF AnswerBreakPoint
    <3>2. f \in Files
      BY <2>1
    <3> HIDE DEF f
    <3>3. CASE UNCHANGED <<disk, recvPos>>
      BY <3>3 DEF TypeInv
    <3>4. CASE /\ disk' = [disk EXCEPT ![f] = <<>>]
               /\ recvPos' = [recvPos EXCEPT ![f] = 0]
      BY <3>2, <3>4, NewContent DEF TypeInv
    <3> QED
      BY <3>1, <3>3, <3>4
  <2> QED
    BY <1>3, <1>0, <2>1, <2>3, <2>4, <2>5 DEF AnswerBreakPoint, TypeInv, Unstarted
<1> QED
  BY <1>1, <1>2, <1>3 DEF User

\* Every step keeps the types.
LEMMA TypedNext == Typed /\ [Next]_vars => Typed'
<1> SUFFICES ASSUME Typed, [Next]_vars PROVE Typed'
  OBVIOUS
<1>1. CASE UNCHANGED vars
  BY <1>1 DEF vars, Typed, TypeInv, Unstarted
<1>2. CASE Next
  BY <1>2, TypedConnections, TypedLoop, TypedReceiver, TypedUser, TypedSendFiles, TypedTask
     DEF Next, SenderLoop
<1> QED
  BY <1>1, <1>2

\* Every variable keeps its type, through any losses and returns.
THEOREM Typing == Spec => []TypeInv
<1>1. Typed => TypeInv
  BY DEF Typed
<1> QED
  BY <1>1, TypedInit, TypedNext, PTL DEF Spec

-----------------------------------------------------------------------------
(* Consent.  Until the user has accepted the share, no send_files runs,    *)
(* and nothing that is under way starts one.                               *)

Openings == {m \in Requests : m.type \in {"SendRequest", "Done"}}
Refusals == {m \in Signals : m.kind = "share" => ~m.accept}

Untouched ==
  /\ runs = 0 /\ link = "up" /\ late = <<>>
  /\ toReceiver \in Seq(Openings) /\ toSender \in Seq(Refusals)
  /\ lateReplies \in Seq(Seq(Refusals))
  /\ prompts \in Seq({Reply("share", 0, FALSE, 0)})
  /\ \A f \in Files : disk[f] = NoFile

ConsentInv == accepted \/ Untouched

\* The messages before a share is accepted.
LEMMA OpeningMessages ==
  /\ Msg("SendRequest", 0, 0) \in Openings /\ Msg("Done", 0, 0) \in Openings
  /\ Reply("ready", 0, FALSE, 0) \in Refusals /\ Reply("done", 0, FALSE, 0) \in Refusals
  /\ Reply("share", 0, FALSE, 0) \in Refusals
  BY DEF Openings, Refusals, Requests, Signals, FileTypes, Msg, Reply

\* At the beginning there is none but the relay's Ready.
LEMMA ConsentInit == Init => ConsentInv
<1> SUFFICES ASSUME Init PROVE Untouched
  BY DEF ConsentInv
<1>1. /\ runs = 0 /\ link = "up" /\ toReceiver = <<>> /\ prompts = <<>>
      /\ late = <<>> /\ lateReplies = <<>>
      /\ toSender = <<Reply("ready", 0, FALSE, 0)>>
      /\ \A f \in Files : disk[f] = NoFile
  BY DEF Init
<1>2. \A m \in Refusals : <<m>> \in Seq(Refusals)
  OBVIOUS
<1>3. toSender \in Seq(Refusals)
  BY <1>1, <1>2, OpeningMessages, Zenon
<1>4. toReceiver \in Seq(Openings)
  BY <1>1
<1>5. \A S : <<>> \in Seq(S)
  OBVIOUS
<1> QED
  BY <1>1, <1>3, <1>4, <1>5, Zenon DEF Untouched

\* The user accepts the share once and for all.
LEMMA AcceptedStays == accepted /\ [Next]_vars => accepted'
<1> SUFFICES ASSUME accepted, [Next]_vars PROVE accepted'
  OBVIOUS
<1>1. CASE UNCHANGED vars
  BY <1>1 DEF vars
<1>2. CASE Connections
  BY <1>2 DEF Connections, SenderLost, SenderMisses, ReceiverLost, ReceiverMisses, LateRequest,
              LateReply, GiveUp
<1>3. CASE SenderLoop \/ ClientEnds
  BY <1>3 DEF SenderLoop, SenderBack, Joined, Ready, ShareAccepted, ShareRejected,
              ResumeState, EnqueueConfirm, DoneReplied, ClientEnds
<1>4. CASE ReceiverLoop
  BY <1>4 DEF ReceiverLoop, ReceiverBack, RecvSendRequest, RecvResumeRequest, RecvDone,
              RecvNewFile, RecvExistingFile, RecvBreakPoint, RecvFileData, RecvFileDone
<1>5. CASE User
  BY <1>5 DEF User, AnswerShare, AnswerDuplicate, AnswerBreakPoint
<1>6. ASSUME NEW r \in Runs, SendFiles(r) PROVE accepted'
  BY <1>6 DEF SendFiles, NextFile, SpawnTask, JoinTasks, Dispatch
<1>7. ASSUME NEW r \in Runs, NEW f \in Files, SendSingleFile(r, f) \/ TaskFails(r, f)
      PROVE  accepted'
  BY <1>7 DEF SendSingleFile, ResumeFile, RequestFile, FileKept, FileConfirmed,
              ConfirmTimeout, StreamCancelled, SendChunk, SendFileDone, TaskFails
<1> QED
  BY <1>1, <1>2, <1>3, <1>4, <1>5, <1>6, <1>7 DEF Next

\* As long as the user has not accepted, the sender's loop starts nothing, and
\* the receiver has no file to write to.
LEMMA ConsentNext == ~EarlyLoss /\ Typed /\ ConsentInv /\ [Next]_vars => ConsentInv'
<1> SUFFICES ASSUME ~EarlyLoss, Typed, Untouched, [Next]_vars, ~accepted, ~accepted'
             PROVE  Untouched'
  BY AcceptedStays DEF ConsentInv
<1>1. /\ runs = 0 /\ link = "up" /\ late = <<>>
      /\ \A r \in Runs : run[r].pc = "none" /\ ~(r <= runs)
      /\ \A r \in Runs, f \in Files : task[r][f] = "none"
  BY DEF Untouched, Typed, Unstarted, Runs
<1>2. /\ toSender # <<>> => /\ Head(toSender) \in Refusals
                            /\ Head(toSender).kind \in {"ready", "share", "done"}
                            /\ Head(toSender).kind = "share" => ~Head(toSender).accept
                            /\ Tail(toSender) \in Seq(Refusals)
      /\ toReceiver # <<>> => /\ Head(toReceiver).type \in {"SendRequest", "Done"}
                              /\ Tail(toReceiver) \in Seq(Openings)
      /\ prompts # <<>> => /\ Head(prompts).kind = "share"
                           /\ Tail(prompts) \in Seq({Reply("share", 0, FALSE, 0)})
  BY HeadTail DEF Untouched, Refusals, Signals, Openings, Reply
<1>3. /\ \A m \in Openings : Append(toReceiver, m) \in Seq(Openings)
      /\ \A m \in Refusals : Append(toSender, m) \in Seq(Refusals)
      /\ Append(prompts, Reply("share", 0, FALSE, 0)) \in Seq({Reply("share", 0, FALSE, 0)})
  BY AppendType DEF Untouched
<1>4. CASE UNCHANGED vars
  BY <1>4 DEF vars, Untouched
<1>5. CASE Connections
  <2>1. ~SenderLost /\ ~SenderMisses /\ ~GiveUp
    BY <1>1 DEF SenderLost, SenderMisses, GiveUp, Runs
  <2>4. \A i \in DOMAIN late : ~LateRequest(i)
    BY <1>1
  <2>5. ASSUME NEW i \in DOMAIN lateReplies, LateReply(i) PROVE Untouched'
    <3>1. /\ Head(lateReplies[i]) \in Refusals
          /\ [lateReplies EXCEPT ![i] = Tail(lateReplies[i])] \in Seq(Seq(Refusals))
      BY <2>5, HandedOn DEF LateReply, Untouched
    <3> QED
      BY <2>5, <3>1, <1>3 DEF LateReply, ToSender, Untouched
  <2>2. CASE ReceiverLost
    <3>1. toSender' \in Seq(Refusals)
      BY <2>2, PrefixType DEF ReceiverLost, Untouched
    <3> QED
      BY <2>2, <3>1 DEF ReceiverLost, Untouched
  <2>3. CASE ReceiverMisses
    BY <2>3, <1>2 DEF ReceiverMisses, Untouched
  <2> QED
    BY <1>5, <2>1, <2>2, <2>3, <2>4, <2>5 DEF Connections
<1>6. CASE SenderLoop
  <2>1. ~SenderBack /\ ~Joined /\ ~ShareAccepted /\ ~ResumeState /\ ~EnqueueConfirm
    BY <1>1, <1>2 DEF SenderBack, Joined, ShareAccepted, ResumeState, EnqueueConfirm, Arrived
  <2>2. CASE Ready
    BY <2>2, <1>2, <1>3, OpeningMessages DEF Ready, Arrived, Taken, ToReceiver, Untouched
  <2>3. CASE ShareRejected
    BY <2>3, <1>2, <1>3, OpeningMessages DEF ShareRejected, Arrived, Taken, ToReceiver, Untouched
  <2>4. CASE DoneReplied
    BY <2>4, <1>2 DEF DoneReplied, Arrived, Taken, Untouched
  <2> QED
    BY <1>6, <2>1, <2>2, <2>3, <2>4 DEF SenderLoop
<1>7. CASE ClientEnds
  BY <1>7 DEF ClientEnds, Untouched
<1>8. CASE ReceiverLoop
  <2>1. /\ ~RecvResumeRequest
        /\ \A f \in Files : /\ ~RecvNewFile(f) /\ ~RecvExistingFile(f) /\ ~RecvBreakPoint(f)
                            /\ ~RecvFileData(f) /\ ~RecvFileDone(f)
    BY <1>2 DEF RecvResumeRequest, RecvNewFile, RecvExistingFile, RecvBreakPoint, RecvFileData,
                RecvFileDone, ReceivedFile, Received
  <2>2. CASE ReceiverBack
    <3>1. PICK n \in 0..Len(toSender) :
            /\ toSender' = Append(SubSeq(toSender, 1, n), Reply("ready", 0, FALSE, 0))
            /\ lateReplies' = Append(lateReplies, SubSeq(toSender, n + 1, Len(toSender)))
      BY <2>2 DEF ReceiverBack
    <3>2. SubSeq(toSender, 1, n) \in Seq(Refusals)
      BY PrefixType DEF Untouched
    <3>3. toSender' \in Seq(Refusals) /\ lateReplies' \in Seq(Seq(Refusals))
      BY <3>1, <3>2, OpeningMessages, RestType, AppendType DEF Untouched
    <3> QED
      BY <2>2, <3>3 DEF ReceiverBack, Untouched
  <2>3. CASE RecvSendRequest
    BY <2>3, <1>2, <1>3 DEF RecvSendRequest, Received, Ask, Untouched
  <2>4. CASE RecvDone
    BY <2>4, <1>2, <1>3, OpeningMessages DEF RecvDone, Received, ToSender, Untouched
  <2> QED
    BY <1>8, <2>1, <2>2, <2>3, <2>4 DEF ReceiverLoop
<1>9. CASE User
  <2>1. PICK a \in BOOLEAN : AnswerShare(a)
    BY <1>9, <1>2 DEF User, AnswerDuplicate, AnswerBreakPoint, Answered
  <2>2. a = FALSE
    BY <2>1 DEF AnswerShare
  <2>3. AnswerShare(FALSE)
    BY <2>1, <2>2
  <2> QED
    BY <2>3, <1>2, <1>3, OpeningMessages DEF AnswerShare, Answered, ToSender, Untouched
<1>10. ASSUME NEW r \in Runs PROVE ~SendFiles(r)
  BY <1>1 DEF SendFiles, NextFile, SpawnTask, JoinTasks, Dispatch, InRun
<1>11. ASSUME NEW r \in Runs, NEW f \in Files PROVE ~SendSingleFile(r, f) /\ ~TaskFails(r, f)
  BY <1>1 DEF SendSingleFile, ResumeFile, RequestFile, FileKept, FileConfirmed,
              ConfirmTimeout, StreamCancelled, SendChunk, SendFileDone, TaskFails, Confirmed,
              InTask
<1> QED
  BY <1>4, <1>5, <1>6, <1>7, <1>8, <1>9, <1>10, <1>11 DEF Next

\* Nothing is written before the user has accepted the share, however often
\* either side loses its connection, if the sender does not lose its own before
\* it has started to send.
THEOREM NothingUnasked == ASSUME ~EarlyLoss PROVE Spec => []NothingBeforeConsent
<1>1. Typed /\ ConsentInv => NothingBeforeConsent
  BY DEF ConsentInv, Untouched, NothingBeforeConsent
<1>2. Init => Typed /\ ConsentInv
  BY TypedInit, ConsentInit
<1>3. Typed /\ ConsentInv /\ [Next]_vars => (Typed /\ ConsentInv)'
  BY TypedNext, ConsentNext
<1> QED
  BY <1>1, <1>2, <1>3, PTL DEF Spec

-----------------------------------------------------------------------------
(* One call of send_files for each connection of the sender.  What leads   *)
(* to one is passed on and never doubled: Ready, the request, the question *)
(* and its answer on the first connection, the resume request and its      *)
(* answer on a later one.                                                  *)

Rising == {m \in Replies : m.kind \in {"ready", "share", "resume"}}
Asking == {m \in Requests : m.type \in {"SendRequest", "ResumeRequest"}}
Sharing == {m \in Questions : m.kind = "share"}

Clear(q, S) == \A i \in DOMAIN q : q[i] \notin S
Single(q, S) == \A i, j \in DOMAIN q : q[i] \in S /\ q[j] \in S => i = j

\* There are no more of S in p than in q.
Fewer(q, p, S) == (Clear(q, S) => Clear(p, S)) /\ (Single(q, S) => Single(p, S))

\* Taking an element leaves no more of S, and none if it was the only one.
LEMMA TailMarks ==
  ASSUME NEW T, NEW q \in Seq(T), NEW S, q # <<>>
  PROVE  /\ Fewer(q, Tail(q), S)
         /\ Clear(q, S) => Head(q) \notin S
         /\ Single(q, S) /\ Head(q) \in S => Clear(Tail(q), S)
<1>1. /\ Head(q) = q[1] /\ 1 \in DOMAIN q
      /\ \A i \in DOMAIN Tail(q) : i + 1 \in DOMAIN q /\ Tail(q)[i] = q[i + 1] /\ i + 1 # 1
      /\ \A i, j \in DOMAIN Tail(q) : i + 1 = j + 1 => i = j
  OBVIOUS
<1> QED
  BY <1>1 DEF Clear, Single, Fewer

\* What arrives of a lost connection has none that was not there.
LEMMA PrefixMarks ==
  ASSUME NEW T, NEW q \in Seq(T), NEW S, NEW n \in 0..Len(q)
  PROVE  Clear(q, S) => Clear(SubSeq(q, 1, n), S)
  BY DEF Clear

\* A message of another kind adds none, and one added to none is the only one.
LEMMA AppendMarks ==
  ASSUME NEW T, NEW q \in Seq(T), NEW S, NEW m \in T
  PROVE  /\ m \notin S => Fewer(q, Append(q, m), S)
         /\ Clear(q, S) => Single(Append(q, m), S) /\ Single(q, S)
<1>1. \A i \in DOMAIN Append(q, m) :
        \/ i \in DOMAIN q /\ Append(q, m)[i] = q[i]
        \/ i = Len(q) + 1 /\ Append(q, m)[i] = m
  OBVIOUS
<1> QED
  BY <1>1 DEF Clear, Single, Fewer

\* No call is under way; at most one is.
Quiet == Clear(toSender, Rising) /\ Clear(toReceiver, Asking) /\ Clear(prompts, Sharing)
OneUnderWay ==
  /\ Single(toSender, Rising) /\ Single(toReceiver, Asking) /\ Single(prompts, Sharing)
  /\ Clear(toSender, Rising) \/ Clear(toReceiver, Asking)
  /\ Clear(toSender, Rising) \/ Clear(prompts, Sharing)
  /\ Clear(toReceiver, Asking) \/ Clear(prompts, Sharing)

\* send_files was called on the sender's connection.
Begun == \E r \in Runs : r <= runs /\ run[r].conn = conn

\* Calls are made on connections there have been, on each of them one.
OneCall ==
  /\ \A r \in Runs : r <= runs => run[r].conn <= conn
  /\ ReceiverStayed =>
       /\ \A r, s \in Runs : r <= runs /\ s <= runs /\ run[r].conn = run[s].conn => r = s
       /\ OneUnderWay
       /\ Quiet \/ (link = "up" /\ ~Begun)
       /\ link = "joined" => ~Begun

\* What the handlers of lost connections still hold leads to no call.
LateCalm ==
  ReceiverStayed => lateReplies = <<>> /\ \A i \in DOMAIN late : Clear(late[i], Asking)

\* At the beginning Ready is under way.
LEMMA OneCallInit == Init => OneCall
<1> SUFFICES ASSUME Init PROVE OneCall
  OBVIOUS
<1>1. /\ runs = 0 /\ link = "up" /\ toReceiver = <<>> /\ prompts = <<>>
      /\ Len(toSender) = 1 /\ DOMAIN toSender = {1}
  BY DEF Init
<1>2. \A r \in Runs : ~(r <= runs)
  BY <1>1 DEF Runs
<1>3. Clear(toReceiver, Asking) /\ Clear(prompts, Sharing)
  BY <1>1 DEF Clear
<1>4. Single(toReceiver, Asking) /\ Single(prompts, Sharing) /\ Single(toSender, Rising)
  BY <1>1 DEF Single
<1> QED
  BY <1>1, <1>2, <1>3, <1>4 DEF OneCall, OneUnderWay, Begun

\* A step that leaves the calls and the connections alone, and adds nothing that
\* leads to a call.
SameCalls == runs' = runs /\ \A r \in Runs : run'[r].conn = run[r].conn

LEMMA CalmStep ==
  ASSUME OneCall, SameCalls, link' = link, conn' = conn, rlink' = rlink,
         NEW a, NEW b, NEW c, a = toSender', b = toReceiver', c = prompts',
         Fewer(toSender, a, Rising), Fewer(toReceiver, b, Asking),
         Fewer(prompts, c, Sharing)
  PROVE  OneCall'
<1>1. Begun' <=> Begun
  BY DEF Begun, SameCalls
<1>2. Quiet => Quiet'
  BY DEF Quiet, Fewer
<1>3. OneUnderWay => OneUnderWay'
  BY DEF OneUnderWay, Fewer
<1> QED
  BY <1>1, <1>2, <1>3 DEF OneCall, SameCalls, ReceiverStayed

\* What a task or send_files posts is no request for a call.
LEMMA PostCalm ==
  ASSUME Typed, NEW r, NEW m \in Requests, m \notin Asking, Post(r, m)
  PROVE  Fewer(toReceiver, toReceiver', Asking)
<1>1. CASE toReceiver' = toReceiver
  BY <1>1 DEF Fewer
<1>2. CASE toReceiver' = Append(toReceiver, m)
  BY <1>2, AppendMarks DEF Typed, TypeInv
<1> QED
  BY <1>1, <1>2 DEF Post, ToReceiver

\* A call stays on its connection.
LEMMA SameConn ==
  ASSUME Typed, NEW r \in Runs,
         SendFiles(r) \/ \E f \in Files : SendSingleFile(r, f) \/ TaskFails(r, f)
  PROVE  \A s \in Runs : run'[s].conn = run[s].conn
<1>1. ASSUME NEW pc, Go(r, pc) PROVE \A s \in Runs : run'[s].conn = run[s].conn
  <2>1. run' = [run EXCEPT ![r] = [run[r] EXCEPT !.pc = pc]]
    BY <1>1 DEF Go, Typed, TypeInv
  <2>2. [run[r] EXCEPT !.pc = pc].conn = run[r].conn
    BY DEF Typed, TypeInv, Calls
  <2> QED
    BY <2>1, <2>2 DEF Typed, TypeInv
<1>2. CASE SpawnTask(r)
  <2>1. run' = [run EXCEPT ![r] = [run[r] EXCEPT !.pc = "loop", !.next = run[r].next + 1]]
    BY <1>2 DEF SpawnTask, Typed, TypeInv
  <2>2. [run[r] EXCEPT !.pc = "loop", !.next = run[r].next + 1].conn = run[r].conn
    BY CallCounts DEF Typed, TypeInv
  <2> QED
    BY <2>1, <2>2 DEF Typed, TypeInv
<1>3. UNCHANGED run \/ SpawnTask(r) \/ \E pc : Go(r, pc)
  BY DEF SendFiles, NextFile, JoinTasks, Dispatch, SendSingleFile, ResumeFile, RequestFile,
         FileKept, FileConfirmed, ConfirmTimeout, StreamCancelled, SendChunk, SendFileDone,
         TaskFails
<1> QED
  BY <1>1, <1>2, <1>3

\* Calls and tasks that go on call nothing.
LEMMA SendersCalm ==
  ASSUME Typed, OneCall, NEW r \in Runs,
         SendFiles(r) \/ \E f \in Files : SendSingleFile(r, f) \/ TaskFails(r, f)
  PROVE  OneCall'
<1>1. \A t, n, f : Msg(t, f, n).type = t
  BY DEF Msg
<1>2. /\ UNCHANGED <<runs, link, conn, rlink, toSender, prompts>>
  BY DEF SendFiles, NextFile, SpawnTask, JoinTasks, Dispatch, SendSingleFile, ResumeFile,
         RequestFile, FileKept, FileConfirmed, ConfirmTimeout, StreamCancelled, SendChunk,
         SendFileDone, TaskFails
<1>3. \A s \in Runs : run'[s].conn = run[s].conn
  BY SameConn
<1>4. Fewer(toReceiver, toReceiver', Asking)
  <2>1. CASE NextFile(r) \/ SpawnTask(r) \/ Dispatch(r)
    BY <2>1 DEF NextFile, SpawnTask, Dispatch, Fewer
  <2>2. CASE JoinTasks(r)
    <3>1. Msg("Done", 0, 0) \in Requests \ Asking
      BY <1>1, PlainMessages DEF Asking
    <3> QED
      BY <2>2, <3>1, PostCalm DEF JoinTasks, Fewer
  <2>3. ASSUME NEW f \in Files, SendSingleFile(r, f) \/ TaskFails(r, f)
        PROVE  Fewer(toReceiver, toReceiver', Asking)
    <3>1. \A t \in {"NewFileRequest", "BreakPoint", "FileDone"}, n \in Nat :
            Msg(t, f, n) \in Requests \ Asking
      BY <1>1, FileMessages DEF Asking
    <3>2. CASE ResumeFile(r, f)
      BY <3>1, <3>2, PostCalm DEF ResumeFile, Typed, TypeInv
    <3>3. CASE RequestFile(r, f)
      BY <3>1, <3>3, PostCalm DEF RequestFile
    <3>4. CASE FileConfirmed(r, f)
      <4>1. told[r][f].n \in Nat
        BY <3>4 DEF FileConfirmed, Confirmed, Typed, TypeInv, Confirms
      <4> QED
        BY <3>1, <3>4, <4>1, PostCalm DEF FileConfirmed, Fewer
    <3>5. CASE SendChunk(r, f)
      <4>1. pos[r][f] + 1 \in 1..Len(Source[f]) /\ pos[r][f] + 1 \in Nat
        BY <3>5, ReconnectAssumption DEF SendChunk, Typed, TypeInv
      <4>2. Msg("FileData", f, pos[r][f] + 1) \in Requests \ Asking
        BY <1>1, <4>1, FileMessages DEF Asking
      <4> QED
        BY <3>5, <4>2, PostCalm DEF SendChunk
    <3>6. CASE SendFileDone(r, f)
      BY <3>1, <3>6, PostCalm DEF SendFileDone
    <3> QED
      BY <2>3, <3>2, <3>3, <3>4, <3>5, <3>6
         DEF SendSingleFile, FileKept, ConfirmTimeout, StreamCancelled, TaskFails, Fewer
  <2> QED
    BY <2>1, <2>2, <2>3 DEF SendFiles
<1> QED
  BY <1>2, <1>3, <1>4, CalmStep DEF SameCalls, Fewer

\* Losing a connection and coming back.
LEMMA ConnectionsCall ==
  ASSUME ~EarlyLoss, Typed, OneCall, LateCalm,
         Connections \/ SenderBack \/ Joined \/ ReceiverBack
  PROVE  OneCall'
<1>1. CASE SenderLost
  <2>1. Begun
    <3>1. PICK r \in 1..runs : run[r].conn = conn
      BY <1>1 DEF SenderLost
    <3>2. r \in Runs /\ r <= runs
      BY ReconnectAssumption DEF Typed, TypeInv, Runs
    <3> QED
      BY <3>1, <3>2 DEF Begun
  <2>2. /\ link' = "lost" /\ UNCHANGED <<conn, rlink, runs, run, toSender, prompts>>
        /\ \E n \in 0..Len(toReceiver) : toReceiver' = SubSeq(toReceiver, 1, n)
    BY <1>1 DEF SenderLost
  <2>5. Clear(toReceiver, Asking) => Clear(toReceiver', Asking)
    BY <2>2, PrefixMarks DEF Typed, TypeInv
  <2>3. ReceiverStayed => Quiet'
    BY <2>1, <2>2, <2>5 DEF OneCall, Quiet
  <2>4. Quiet' => OneUnderWay'
    BY DEF Quiet, OneUnderWay, Clear, Single
  <2>6. (ReceiverStayed' <=> ReceiverStayed) /\ link' # "joined"
    BY <2>2 DEF ReceiverStayed
  <2>7. ReceiverStayed => \A t, s \in Runs :
          t <= runs /\ s <= runs /\ run[t].conn = run[s].conn => t = s
    BY DEF OneCall
  <2>8. \A t \in Runs : t <= runs => run[t].conn <= conn
    BY DEF OneCall
  <2> QED
    BY <2>2, <2>3, <2>4, <2>6, <2>7, <2>8 DEF OneCall
<1>2. CASE SenderMisses
  BY <1>2, TailMarks, CalmStep DEF SenderMisses, Typed, TypeInv, SameCalls, Fewer
<1>3. CASE ReceiverMisses
  BY <1>3, TailMarks, CalmStep DEF ReceiverMisses, Typed, TypeInv, SameCalls, Fewer
<1>4. CASE GiveUp
  BY <1>4, CalmStep DEF GiveUp, SameCalls, Fewer
<1>5. CASE ReceiverLost \/ ReceiverBack
  BY <1>5 DEF ReceiverLost, ReceiverBack, OneCall, ReceiverStayed
<1>6. CASE SenderBack
  <2>1. /\ conn' = conn + 1 /\ conn \in Nat /\ \A r \in Runs : run[r].conn \in Nat
        /\ link = "lost" /\ UNCHANGED <<rlink, runs, run, toSender, prompts>>
        /\ \E n \in 0..Len(toReceiver) : toReceiver' = SubSeq(toReceiver, 1, n)
    BY <1>6 DEF SenderBack, Typed, TypeInv, Calls
  <2>2. ~Begun' /\ \A r \in Runs : r <= runs => run[r].conn <= conn'
    BY <2>1 DEF OneCall, Begun
  <2>3. Clear(toReceiver, Asking) => Clear(toReceiver', Asking)
    BY <2>1, PrefixMarks DEF Typed, TypeInv
  <2>4. ReceiverStayed => Quiet'
    BY <2>1, <2>3 DEF OneCall, Quiet
  <2>5. Quiet' => OneUnderWay'
    BY DEF Quiet, OneUnderWay, Clear, Single
  <2> QED
    BY <2>1, <2>2, <2>4, <2>5 DEF OneCall, ReceiverStayed
<1>8. ASSUME NEW i \in DOMAIN late, LateRequest(i) PROVE OneCall'
  <2>1. CASE ReceiverStayed
    <3>1. Head(late[i]) \in Requests \ Asking
      BY <1>8, <2>1, HandedOn, TailMarks DEF LateRequest, LateCalm, Typed, TypeInv
    <3>2. Fewer(toReceiver, toReceiver', Asking)
      BY <1>8, <3>1, AppendMarks DEF LateRequest, ToReceiver, Typed, TypeInv
    <3> QED
      BY <1>8, <3>2, CalmStep DEF LateRequest, SameCalls, Fewer
  <2>2. CASE ~ReceiverStayed
    BY <1>8, <2>2 DEF LateRequest, OneCall, ReceiverStayed
  <2> QED
    BY <2>1, <2>2
<1>9. ASSUME NEW i \in DOMAIN lateReplies, LateReply(i) PROVE OneCall'
  <2>1. ~ReceiverStayed
    BY <1>9 DEF LateCalm
  <2> QED
    BY <1>9, <2>1 DEF LateReply, OneCall, ReceiverStayed
<1>7. CASE Joined
  <2>1. /\ link = "joined" /\ link' = "up"
        /\ UNCHANGED <<conn, rlink, runs, run, toSender, prompts>>
        /\ Clear(toReceiver, Asking) => Single(toReceiver', Asking)
    BY <1>7, PlainMessages, AppendMarks DEF Joined, ToReceiver, Typed, TypeInv
  <2>2. Begun' <=> Begun
    BY <2>1 DEF Begun
  <2> QED
    BY <2>1, <2>2 DEF OneCall, ReceiverStayed, Quiet, OneUnderWay
<1> QED
  BY <1>1, <1>2, <1>3, <1>4, <1>5, <1>6, <1>7, <1>8, <1>9 DEF Connections

\* The sender's loop passes Ready on, and calls send_files for the answer.
LEMMA LoopCalls ==
  ASSUME Typed, OneCall, \/ Ready \/ ShareAccepted \/ ShareRejected \/ ResumeState
                         \/ EnqueueConfirm \/ DoneReplied \/ ClientEnds
  PROVE  OneCall'
<1>1. ASSUME NEW k, Arrived(k), Taken
      PROVE  /\ Fewer(toSender, toSender', Rising)
             /\ k \in {"ready", "share", "resume"} /\ ReceiverStayed /\ OneCall =>
                  /\ Clear(toSender', Rising) /\ Clear(toReceiver, Asking)
                  /\ Clear(prompts, Sharing) /\ link = "up" /\ ~Begun
  <2>1. /\ toSender # <<>> /\ toSender \in Seq(Replies) /\ Head(toSender) \in Replies
        /\ Head(toSender).kind = k /\ toSender' = Tail(toSender)
    BY <1>1, ArrivedType DEF Taken, Typed, TypeInv
  <2>2. Fewer(toSender, toSender', Rising)
    BY <2>1, TailMarks
  <2>3. ASSUME k \in {"ready", "share", "resume"}, ReceiverStayed
        PROVE  /\ Clear(toSender', Rising) /\ Clear(toReceiver, Asking)
               /\ Clear(prompts, Sharing) /\ link = "up" /\ ~Begun
    <3>1. Head(toSender) \in Rising
      BY <2>1, <2>3 DEF Rising
    <3>2. ~Clear(toSender, Rising)
      BY <2>1, <3>1, TailMarks
    <3>3. Single(toSender, Rising) => Clear(toSender', Rising)
      BY <2>1, <3>1, TailMarks
    <3> QED
      BY <2>3, <3>2, <3>3 DEF OneCall, OneUnderWay, Quiet
  <2> QED
    BY <2>2, <2>3
<1>2. ASSUME NEW received, Start(received), UNCHANGED <<link, conn, rlink, toReceiver, prompts>>,
             Fewer(toSender, toSender', Rising),
             ReceiverStayed => /\ Clear(toSender', Rising) /\ Clear(toReceiver, Asking)
                               /\ Clear(prompts, Sharing) /\ link = "up" /\ ~Begun,
             received \in [Files -> Nat]
      PROVE  OneCall'
  <2>1. /\ runs' = runs + 1 /\ runs + 1 \in Runs /\ run'[runs + 1].conn = conn
        /\ \A t \in Runs \ {runs + 1} : run'[t] = run[t]
        /\ \A t \in Runs : t <= runs' => t <= runs \/ t = runs + 1
        /\ \A t \in Runs : t <= runs => t # runs + 1
        /\ conn \in Nat
    <3>1. /\ runs' = runs + 1 /\ runs + 1 \in Runs
          /\ run'[runs + 1] = [pc |-> "loop", conn |-> conn, next |-> 1]
          /\ \A t \in Runs \ {runs + 1} : run'[t] = run[t]
      BY <1>2, TypedStart
    <3>2. runs \in Nat /\ conn \in Nat
      BY ReconnectAssumption DEF Typed, TypeInv
    <3>3. \A t \in Runs : /\ t <= runs + 1 => t <= runs \/ t = runs + 1
                          /\ t <= runs => t # runs + 1
      BY <3>2, ReconnectAssumption DEF Runs
    <3> QED
      BY <3>1, <3>2, <3>3
  <2>2. \A t \in Runs : t <= runs' => run'[t].conn <= conn'
    BY <1>2, <2>1 DEF OneCall
  <2>3. ReceiverStayed => \A t, s \in Runs :
          t <= runs' /\ s <= runs' /\ run'[t].conn = run'[s].conn => t = s
    BY <1>2, <2>1 DEF OneCall, Begun
  <2>4. ReceiverStayed => Quiet'
    BY <1>2 DEF Quiet
  <2>5. Quiet' => OneUnderWay'
    BY DEF Quiet, OneUnderWay, Clear, Single
  <2>6. (ReceiverStayed' <=> ReceiverStayed) /\ (ReceiverStayed => link' # "joined")
    BY <1>2 DEF ReceiverStayed
  <2> QED
    BY <2>2, <2>3, <2>4, <2>5, <2>6 DEF OneCall
<1>3. CASE Ready
  <2>1. Msg("SendRequest", 0, 0) \in Requests
    BY PlainMessages
  <2>2. /\ UNCHANGED <<link, conn, rlink, runs, run, prompts>>
        /\ toReceiver' = Append(toReceiver, Msg("SendRequest", 0, 0))
        /\ Fewer(toSender, toSender', Rising)
        /\ ReceiverStayed => /\ Clear(toSender', Rising) /\ Clear(toReceiver, Asking)
                             /\ Clear(prompts, Sharing) /\ link = "up" /\ ~Begun
    BY <1>1, <1>3 DEF Ready, ToReceiver
  <2>3. Clear(toReceiver, Asking) => Single(toReceiver', Asking)
    BY <2>1, <2>2, AppendMarks DEF Typed, TypeInv
  <2>4. ReceiverStayed => OneUnderWay'
    BY <2>2, <2>3 DEF OneUnderWay, Clear, Single
  <2>5. (Begun' <=> Begun) /\ (ReceiverStayed' <=> ReceiverStayed)
    BY <2>2 DEF Begun, ReceiverStayed
  <2> QED
    BY <2>2, <2>4, <2>5 DEF OneCall
<1>4. CASE ShareAccepted
  <2>1. [f \in Files |-> 0] \in [Files -> Nat]
    OBVIOUS
  <2>2. /\ Start([f \in Files |-> 0]) /\ Arrived("share") /\ Taken
        /\ UNCHANGED <<link, conn, rlink, toReceiver, prompts>>
    BY <1>4 DEF ShareAccepted
  <2> QED
    BY <2>1, <2>2, <1>1, <1>2
<1>5. CASE ResumeState
  <2>1. /\ Start(Head(toSender).received) /\ Arrived("resume") /\ Taken
        /\ UNCHANGED <<link, conn, rlink, toReceiver, prompts>>
        /\ Head(toSender).received \in [Files -> Nat]
    BY <1>5, ArrivedType DEF ResumeState, Typed
  <2> QED
    BY <2>1, <1>1, <1>2
<1>6. CASE ShareRejected
  <2>1. Msg("Done", 0, 0) \in Requests \ Asking
    BY PlainMessages DEF Msg, Asking
  <2>2. Fewer(toReceiver, toReceiver', Asking)
    BY <1>6, <2>1, AppendMarks DEF ShareRejected, ToReceiver, Typed, TypeInv
  <2> QED
    BY <1>1, <1>6, <2>2, CalmStep DEF ShareRejected, SameCalls, Fewer
<1>7. CASE EnqueueConfirm \/ DoneReplied
  <2>1. Fewer(toSender, toSender', Rising)
    BY <1>1, <1>7 DEF EnqueueConfirm, DoneReplied
  <2> QED
    BY <1>7, <2>1, CalmStep DEF EnqueueConfirm, DoneReplied, SameCalls, Fewer
<1>8. CASE ClientEnds
  BY <1>8, CalmStep DEF ClientEnds, SameCalls, Fewer
<1> QED
  BY <1>3, <1>4, <1>5, <1>6, <1>7, <1>8

\* The receiver asks its user once for a request, and answers a resume request once.
LEMMA ReceiverCalls ==
  ASSUME Typed, OneCall, ReceiverLoop, ~ReceiverBack
  PROVE  OneCall'
<1>0. /\ UNCHANGED <<link, conn, rlink, runs, run>> /\ toReceiver # <<>>
      /\ toReceiver' = Tail(toReceiver) /\ toReceiver \in Seq(Requests)
      /\ toSender \in Seq(Replies) /\ prompts \in Seq(Questions)
      /\ Fewer(toReceiver, toReceiver', Asking) /\ Fewer(toSender, toSender, Rising)
      /\ Fewer(prompts, prompts, Sharing)
      /\ (Begun' <=> Begun) /\ (ReceiverStayed' <=> ReceiverStayed)
  <2>1. /\ UNCHANGED <<link, conn, rlink, runs, run>> /\ toReceiver # <<>>
        /\ toReceiver' = Tail(toReceiver)
    BY DEF ReceiverLoop, RecvSendRequest, RecvResumeRequest, RecvDone, RecvNewFile,
           RecvExistingFile, RecvBreakPoint, RecvFileData, RecvFileDone, ReceivedFile, Received
  <2> QED
    BY <2>1, TailMarks DEF Typed, TypeInv, Fewer, Begun, ReceiverStayed
<1>1. ASSUME Received("SendRequest") \/ Received("ResumeRequest"), ReceiverStayed
      PROVE  /\ Clear(toReceiver', Asking) /\ Clear(toSender, Rising)
             /\ Clear(prompts, Sharing) /\ link = "up" /\ ~Begun
  <2>1. Head(toReceiver) \in Asking
    BY <1>1, ReceivedType DEF Asking, Typed
  <2>2. ~Clear(toReceiver, Asking) /\ (Single(toReceiver, Asking) => Clear(toReceiver', Asking))
    BY <1>0, <2>1, TailMarks
  <2> QED
    BY <1>1, <2>2 DEF OneCall, OneUnderWay, Quiet
<1>2. CASE RecvSendRequest
  <2> DEFINE q == Reply("share", 0, FALSE, 0)
  <2>1. q \in Questions
    BY DEF Questions
  <2>2. /\ prompts' = Append(prompts, q) /\ toSender' = toSender /\ Received("SendRequest")
    BY <1>2 DEF RecvSendRequest, Ask
  <2> HIDE DEF q
  <2>3. Clear(prompts, Sharing) => Single(prompts', Sharing)
    BY <1>0, <2>1, <2>2, AppendMarks
  <2>4. ReceiverStayed => OneUnderWay'
    BY <1>1, <2>2, <2>3 DEF OneUnderWay, Clear, Single
  <2> QED
    BY <1>0, <1>1, <2>2, <2>4 DEF OneCall
<1>3. CASE RecvResumeRequest
  <2> DEFINE m == ResumeReply([f \in Files |-> IF f \in recvFiles THEN recvPos[f] ELSE 0])
  <2>1. [f \in Files |-> IF f \in recvFiles THEN recvPos[f] ELSE 0] \in [Files -> Nat]
    BY DEF Typed, TypeInv
  <2>2. m \in Replies
    BY <2>1 DEF ResumeReply, Replies, Resumes
  <2>3. toSender' = Append(toSender, m) /\ prompts' = prompts /\ Received("ResumeRequest")
    BY <1>3 DEF RecvResumeRequest, ToSender
  <2> HIDE DEF m
  <2>4. Clear(toSender, Rising) => Single(toSender', Rising)
    BY <1>0, <2>2, <2>3, AppendMarks
  <2>5. ReceiverStayed => OneUnderWay'
    BY <1>1, <2>3, <2>4 DEF OneUnderWay, Clear, Single
  <2> QED
    BY <1>0, <1>1, <2>3, <2>5 DEF OneCall
<1>4. CASE RecvDone
  <2>1. Reply("done", 0, FALSE, 0) \in Replies \ Rising
    <3>1. Reply("done", 0, FALSE, 0).kind = "done"
      BY DEF Reply
    <3> QED
      BY <3>1, PlainMessages DEF Rising
  <2>2. Fewer(toSender, toSender', Rising)
    BY <1>0, <1>4, <2>1, AppendMarks DEF RecvDone, ToSender
  <2> QED
    BY <1>0, <1>4, <2>2, CalmStep DEF RecvDone, SameCalls
<1>5. ASSUME NEW f \in Files, RecvNewFile(f) PROVE OneCall'
  <2>1. Reply("newFile", f, TRUE, 0) \in Replies \ Rising
    <3>1. Reply("newFile", f, TRUE, 0).kind = "newFile"
      BY DEF Reply
    <3> QED
      BY <3>1, FileMessages DEF Rising, Replies
  <2>2. Fewer(toSender, toSender', Rising)
    BY <1>0, <1>5, <2>1, AppendMarks DEF RecvNewFile, ToSender
  <2> QED
    BY <1>0, <1>5, <2>2, CalmStep DEF RecvNewFile, SameCalls
<1>6. ASSUME NEW f \in Files, RecvExistingFile(f) PROVE OneCall'
  <2>1. disk[f] \in Seq(Chunk)
    BY <1>6 DEF RecvExistingFile, Typed, TypeInv
  <2>2. PICK k \in {"newFile", "breakPoint"}, n \in Nat : Ask(k, f, n)
    BY <1>6, <2>1, SavedChunksType DEF RecvExistingFile
  <2>3. Reply(k, f, FALSE, n) \in Questions \ Sharing
    <3>1. Reply(k, f, FALSE, n).kind = k
      BY DEF Reply
    <3> QED
      BY <3>1, FileMessages DEF Sharing, Questions
  <2>4. Fewer(prompts, prompts', Sharing)
    BY <1>0, <2>2, <2>3, AppendMarks DEF Ask
  <2> QED
    BY <1>0, <1>6, <2>4, CalmStep DEF RecvExistingFile, SameCalls
<1>7. ASSUME NEW f \in Files, RecvBreakPoint(f) \/ RecvFileData(f) \/ RecvFileDone(f)
      PROVE  OneCall'
  BY <1>0, <1>7, CalmStep DEF RecvBreakPoint, RecvFileData, RecvFileDone, SameCalls
<1> QED
  BY <1>2, <1>3, <1>4, <1>5, <1>6, <1>7 DEF ReceiverLoop

\* The user answers the question about the share once.
LEMMA UserCalls ==
  ASSUME Typed, OneCall, User
  PROVE  OneCall'
<1>0. /\ UNCHANGED <<link, conn, rlink, runs, run, toReceiver>> /\ prompts # <<>>
      /\ prompts' = Tail(prompts) /\ prompts \in Seq(Questions) /\ toSender \in Seq(Replies)
      /\ Fewer(prompts, prompts', Sharing) /\ Fewer(toReceiver, toReceiver, Asking)
      /\ Head(prompts) \in Questions
      /\ (Begun' <=> Begun) /\ (ReceiverStayed' <=> ReceiverStayed)
  <2>1. /\ UNCHANGED <<link, conn, rlink, runs, run, toReceiver>> /\ prompts # <<>>
        /\ prompts' = Tail(prompts)
    BY DEF User, AnswerShare, AnswerDuplicate, AnswerBreakPoint, Answered
  <2> QED
    BY <2>1, TailMarks, HeadTail DEF Typed, TypeInv, Fewer, Begun, ReceiverStayed
<1>1. ASSUME NEW a \in BOOLEAN, AnswerShare(a) PROVE OneCall'
  <2>1. Head(prompts) \in Sharing
    BY <1>0, <1>1 DEF AnswerShare, Answered, Sharing
  <2>2. ReceiverStayed => /\ Clear(prompts', Sharing) /\ Clear(toReceiver, Asking)
                          /\ Clear(toSender, Rising) /\ link = "up" /\ ~Begun
    <3>1. ~Clear(prompts, Sharing) /\ (Single(prompts, Sharing) => Clear(prompts', Sharing))
      BY <1>0, <2>1, TailMarks
    <3> QED
      BY <3>1 DEF OneCall, OneUnderWay, Quiet
  <2>3. \E m \in Replies : toSender' = Append(toSender, m)
    BY <1>1, PlainMessages DEF AnswerShare, ToSender
  <2>4. Clear(toSender, Rising) => Single(toSender', Rising)
    BY <1>0, <2>3, AppendMarks
  <2>5. ReceiverStayed => OneUnderWay'
    BY <1>0, <2>2, <2>4 DEF OneUnderWay, Clear, Single
  <2> QED
    BY <1>0, <2>2, <2>5 DEF OneCall
<1>2. ASSUME NEW a \in BOOLEAN, AnswerDuplicate(a) \/ AnswerBreakPoint(a) PROVE OneCall'
  <2>1. Head(prompts).kind \in {"newFile", "breakPoint"}
    BY <1>2 DEF AnswerDuplicate, AnswerBreakPoint, Answered
  <2>2. Head(prompts) \in Confirms
    BY <1>0, <2>1 DEF Questions, Reply
  <2>3. \E m \in Confirms : toSender' = Append(toSender, m)
    <3>1. CASE AnswerDuplicate(a)
      BY <2>2, <3>1 DEF AnswerDuplicate, ToSender, Confirms
    <3>2. CASE AnswerBreakPoint(a)
      <4>1. Head(prompts).file \in Files /\ Head(prompts).n \in Nat
        BY <2>2 DEF Confirms
      <4> QED
        BY <3>2, <4>1, FileMessages DEF AnswerBreakPoint, ToSender
    <3> QED
      BY <1>2, <3>1, <3>2
  <2>4. \A m \in Confirms : m \in Replies \ Rising
    BY DEF Confirms, Replies, Rising
  <2>5. Fewer(toSender, toSender', Rising)
    BY <1>0, <2>3, <2>4, AppendMarks
  <2> QED
    BY <1>0, <2>5, CalmStep DEF SameCalls
<1> QED
  BY <1>1, <1>2 DEF User

\* So there is one call for each connection.
LEMMA OneCallNext == ~EarlyLoss /\ Typed /\ OneCall /\ LateCalm /\ [Next]_vars => OneCall'
<1> SUFFICES ASSUME ~EarlyLoss, Typed, OneCall, LateCalm, [Next]_vars PROVE OneCall'
  OBVIOUS
<1>1. CASE UNCHANGED vars
  BY <1>1, CalmStep DEF vars, SameCalls, Fewer
<1>2. CASE Connections \/ ReceiverBack
  BY <1>2, ConnectionsCall
<1>3. CASE SenderLoop \/ ClientEnds
  BY <1>3, ConnectionsCall, LoopCalls DEF SenderLoop
<1>4. CASE ReceiverLoop /\ ~ReceiverBack
  BY <1>4, ReceiverCalls
<1>5. CASE User
  BY <1>5, UserCalls
<1>6. CASE \E r \in Runs : \/ SendFiles(r)
                           \/ \E f \in Files : SendSingleFile(r, f) \/ TaskFails(r, f)
  BY <1>6, SendersCalm
<1> QED
  BY <1>1, <1>2, <1>3, <1>4, <1>5, <1>6 DEF Next

\* Only a sender that comes back, or a handler that hands a message on, changes what
\* such handlers hold.
LEMMA LateStays ==
  ASSUME [Next]_vars
  PROVE  /\ UNCHANGED late \/ SenderBack \/ \E i \in DOMAIN late : LateRequest(i)
         /\ ReceiverStayed' => ReceiverStayed
         /\ UNCHANGED lateReplies \/ ReceiverBack \/ \E i \in DOMAIN lateReplies : LateReply(i)
<1>1. CASE UNCHANGED vars
  BY <1>1 DEF vars, ReceiverStayed
<1>2. CASE SenderLost \/ SenderMisses \/ ReceiverLost \/ ReceiverMisses \/ GiveUp
  BY <1>2 DEF SenderLost, SenderMisses, ReceiverLost, ReceiverMisses, GiveUp, ReceiverStayed
<1>8. CASE \/ \E i \in DOMAIN late : LateRequest(i)
           \/ \E i \in DOMAIN lateReplies : LateReply(i)
  BY <1>8 DEF LateRequest, LateReply, ReceiverStayed
<1>3. CASE SenderLoop \/ ClientEnds
  BY <1>3 DEF SenderLoop, SenderBack, Joined, Ready, ShareAccepted, ShareRejected,
              ResumeState, EnqueueConfirm, DoneReplied, ClientEnds, ReceiverStayed
<1>4. CASE ReceiverLoop
  BY <1>4 DEF ReceiverLoop, ReceiverBack, RecvSendRequest, RecvResumeRequest, RecvDone,
              RecvNewFile, RecvExistingFile, RecvBreakPoint, RecvFileData, RecvFileDone,
              ReceiverStayed
<1>5. CASE User
  BY <1>5 DEF User, AnswerShare, AnswerDuplicate, AnswerBreakPoint, ReceiverStayed
<1>6. ASSUME NEW r \in Runs, SendFiles(r) PROVE UNCHANGED <<late, lateReplies, rlink>>
  BY <1>6 DEF SendFiles, NextFile, SpawnTask, JoinTasks, Dispatch
<1>7. ASSUME NEW r \in Runs, NEW f \in Files, SendSingleFile(r, f) \/ TaskFails(r, f)
      PROVE  UNCHANGED <<late, lateReplies, rlink>>
  BY <1>7 DEF SendSingleFile, ResumeFile, RequestFile, FileKept, FileConfirmed,
              ConfirmTimeout, StreamCancelled, SendChunk, SendFileDone, TaskFails
<1> QED
  BY <1>1, <1>2, <1>3, <1>4, <1>5, <1>6, <1>7, <1>8 DEF Next, Connections, ReceiverStayed

\* None of it leads to a call: a connection is lost after the call it led to.
LEMMA LateCalmNext == Typed /\ OneCall /\ LateCalm /\ [Next]_vars => LateCalm'
<1> SUFFICES ASSUME Typed, OneCall, LateCalm, [Next]_vars, ReceiverStayed'
             PROVE  lateReplies' = <<>> /\ \A i \in DOMAIN late' : Clear(late'[i], Asking)
  BY DEF LateCalm
<1>1. ReceiverStayed /\ lateReplies = <<>> /\ \A i \in DOMAIN late : Clear(late[i], Asking)
  BY LateStays DEF LateCalm
<1>2. lateReplies' = <<>>
  <2>1. ~ReceiverBack
    BY <1>1 DEF ReceiverBack, ReceiverStayed
  <2>2. ~\E i \in DOMAIN lateReplies : LateReply(i)
    <3>1. DOMAIN lateReplies = {}
      BY <1>1
    <3> QED
      BY <3>1, Zenon
  <2>3. UNCHANGED lateReplies
    BY <2>1, <2>2, LateStays
  <2> QED
    BY <1>1, <2>3
<1>3. CASE UNCHANGED late
  BY <1>1, <1>2, <1>3
<1>4. CASE SenderBack
  <2>1. PICK n \in 0..Len(toReceiver) :
          late' = Append(late, SubSeq(toReceiver, n + 1, Len(toReceiver)))
    BY <1>4 DEF SenderBack
  <2>2. Clear(toReceiver, Asking)
    BY <1>1, <1>4 DEF SenderBack, OneCall, Quiet
  <2>3. Clear(SubSeq(toReceiver, n + 1, Len(toReceiver)), Asking)
    <3> DEFINE rest == SubSeq(toReceiver, n + 1, Len(toReceiver))
    <3>1. toReceiver \in Seq(Requests)
      BY DEF Typed, TypeInv
    <3>2. \A i \in DOMAIN rest : i + n \in DOMAIN toReceiver /\ rest[i] = toReceiver[i + n]
      BY <3>1
    <3> QED
      BY <2>2, <3>2 DEF Clear
  <2>4. \A i \in DOMAIN late' :
          \/ i \in DOMAIN late /\ late'[i] = late[i]
          \/ late'[i] = SubSeq(toReceiver, n + 1, Len(toReceiver))
    BY <2>1 DEF Typed, TypeInv
  <2> QED
    BY <1>1, <1>2, <2>3, <2>4
<1>5. ASSUME NEW i \in DOMAIN late, LateRequest(i)
      PROVE  \A j \in DOMAIN late' : Clear(late'[j], Asking)
  <2>1. /\ late' = [late EXCEPT ![i] = Tail(late[i])] /\ late[i] # <<>>
        /\ late[i] \in Seq(Requests)
    BY <1>5 DEF LateRequest, Typed, TypeInv
  <2>2. Clear(Tail(late[i]), Asking)
    BY <1>1, <2>1, TailMarks DEF Fewer
  <2>3. DOMAIN late' = DOMAIN late /\ \A j \in DOMAIN late : late'[j] = late[j] \/ j = i
    BY <2>1
  <2>4. late'[i] = Tail(late[i])
    BY <2>1
  <2> QED
    BY <1>1, <2>2, <2>3, <2>4
<1> QED
  BY <1>2, <1>3, <1>4, <1>5, LateStays

\* As long as the receiver keeps its connection, and the sender loses none before it
\* has started to send on it, a file is never streamed by two calls of send_files
\* whose messages arrive, whatever became of earlier connections, their tasks
\* and their handlers at the relay.
THEOREM OneCallStreams == ASSUME ~EarlyLoss PROVE Spec => []OneStream
<1>1. Typed /\ OneCall => OneStream
  <2> SUFFICES ASSUME Typed, OneCall, ReceiverStayed, NEW r \in 1..runs, NEW s \in 1..runs,
                      ~Cancelled(r), ~Cancelled(s)
               PROVE  r = s
    BY DEF OneStream
  <2>1. r \in Runs /\ s \in Runs /\ r <= runs /\ s <= runs
    BY ReconnectAssumption DEF Typed, TypeInv, Runs
  <2> QED
    BY <2>1 DEF OneCall, Cancelled
<1>2. Init => Typed /\ OneCall /\ LateCalm
  BY TypedInit, OneCallInit DEF Init, LateCalm
<1>3. Typed /\ OneCall /\ LateCalm /\ [Next]_vars => (Typed /\ OneCall /\ LateCalm)'
  BY TypedNext, OneCallNext, LateCalmNext
<1> QED
  BY <1>1, <1>2, <1>3, PTL DEF Spec

-----------------------------------------------------------------------------
(* What the link to the receiver carries of a file f: of one call at a     *)
(* time a request, a BreakPoint, chunks in order and FileDone.             *)

IsRequest(m, f) == m.type = "NewFileRequest" /\ m.file = f
IsPoint(m, f) == m.type = "BreakPoint" /\ m.file = f
IsData(m, f) == m.type = "FileData" /\ m.file = f
IsEnd(m, f) == m.type = "FileDone" /\ m.file = f
About(m, f) == m.type \in FileTypes /\ m.file = f

\* The position b is the one the chunks in q start from, when the receiver's is p.
Begins(q, f, p, b) ==
  /\ \A i \in DOMAIN q : IsPoint(q[i], f) => q[i].n = b
  /\ \/ \E i \in DOMAIN q : IsPoint(q[i], f)
     \/ b = 0 /\ \E i \in DOMAIN q : IsRequest(q[i], f)
     \/ b = p /\ \A i \in DOMAIN q : ~IsRequest(q[i], f)

\* Nothing comes behind a BreakPoint but chunks and FileDone.
Ordered(q, f) ==
  \A i, j \in DOMAIN q : i < j /\ About(q[i], f) /\ ~IsRequest(q[i], f)
    => ~IsRequest(q[j], f) /\ ~IsPoint(q[j], f)

\* The chunk k is among the first i messages of q, or the chunks start behind it.
Upto(q, f, b, k, i) == k = b \/ \E j \in 1..i : IsData(q[j], f) /\ q[j].n = k

\* Each chunk follows the one before it, none comes twice, and FileDone follows
\* the last one.
Flow(q, f, b) ==
  /\ \A i \in DOMAIN q :
       /\ IsData(q[i], f) => Upto(q, f, b, q[i].n - 1, i - 1)
       /\ IsEnd(q[i], f) => Upto(q, f, b, Len(Source[f]), i - 1)
  /\ \A i, j \in DOMAIN q :
       IsData(q[i], f) /\ IsData(q[j], f) /\ q[i].n = q[j].n => i = j

\* A call whose messages arrive.
Live(r) == r <= runs /\ ~Cancelled(r)

\* How far the task of such a call has come with the file.
Sent(q, f, b, state, p) ==
  /\ state \in {"none", "start"} => \A i \in DOMAIN q : ~About(q[i], f)
  /\ state = "wait" => /\ b = 0
                       /\ \A i \in DOMAIN q : About(q[i], f) => IsRequest(q[i], f)
  /\ state = "stream" =>
       /\ p <= Len(Source[f]) /\ Upto(q, f, b, p, Len(q))
       /\ \A i \in DOMAIN q : /\ IsData(q[i], f) => q[i].n <= p
                              /\ ~IsEnd(q[i], f)

Carried(f) ==
  \E b \in Nat :
    /\ Begins(toReceiver, f, recvPos[f], b)
    /\ Ordered(toReceiver, f)
    /\ Flow(toReceiver, f, b)
    /\ \A r \in Runs : Live(r) => Sent(toReceiver, f, b, task[r][f], pos[r][f])

\* Until a call is made on a connection that came back, the messages of earlier
\* ones are before the request for it, but for those of files that became mixed.
Fresh ==
  link = "up" /\ ~Begun =>
    \A i \in DOMAIN toReceiver :
      toReceiver[i].type \in FileTypes /\ toReceiver[i].file \notin mixed =>
        \E j \in DOMAIN toReceiver : i < j /\ toReceiver[j] \in Asking

-----------------------------------------------------------------------------
(* What is on the receiver's disk, and what is known of it.                *)

\* Chunks up to n are there.
Reached(f, n) == n = 0 \/ (disk[f] # NoFile /\ n <= Len(disk[f]))

OnDisk(f) ==
  /\ disk[f] # NoFile =>
       /\ Len(disk[f]) <= Len(Source[f])
       /\ \A i \in 1..Len(disk[f]) : disk[f][i] = Source[f][i]
  /\ f \in recvFiles => Reached(f, recvPos[f])
  /\ f \in finished => disk[f] # NoFile /\ Len(disk[f]) = Len(Source[f])

\* Nothing is claimed of a file that the user refused to overwrite or to resume, or of
\* which the relay handed on a late message.
Spoilt(f) == Refused(f) \/ f \in mixed

\* Positions in questions, confirms, BreakPoints and resume states have been reached,
\* but for spoilt files.
Apt(m) == /\ m.kind = "newFile" => m.n = 0
          /\ Reached(m.file, m.n)
AptQuestions == {m \in Questions : m.kind # "share" => Spoilt(m.file) \/ Apt(m)}
AptConfirms ==
  {m \in Confirms : (m.accept \/ Refused(m.file)) /\ (Spoilt(m.file) \/ Apt(m))}
AptResumes == {m \in Resumes : \A f \in Files : Spoilt(f) \/ Reached(f, m.received[f])}
AptReplies == AptConfirms \cup Signals \cup AptResumes
AptRequests ==
  {m \in Requests : m.type = "BreakPoint" => Spoilt(m.file) \/ Reached(m.file, m.n)}

Known ==
  /\ toReceiver \in Seq(AptRequests) /\ toSender \in Seq(AptReplies)
  /\ confirmQ \in Seq(AptConfirms) /\ prompts \in Seq(AptQuestions)
  /\ \A r \in Runs, f \in Files :
       /\ Spoilt(f) \/ Reached(f, resume[r][f])
       /\ told[r][f] # None => told[r][f] \in AptConfirms /\ told[r][f].file = f

CopyInv ==
  ReceiverStayed =>
    /\ Known /\ Fresh
    /\ \A f \in Files : Spoilt(f) \/ (OnDisk(f) /\ (rstate = "run" => Carried(f)))

-----------------------------------------------------------------------------
(* Links, as sequences of messages.                                        *)

LinkOf(q, f, p, b) == Begins(q, f, p, b) /\ Ordered(q, f) /\ Flow(q, f, b)

\* What a message is about is in its type and file.
LEMMA MessageIs ==
  /\ \A t, f, n : Msg(t, f, n).type = t /\ Msg(t, f, n).file = f /\ Msg(t, f, n).n = n
  /\ \A m, f : /\ IsRequest(m, f) \/ IsPoint(m, f) \/ IsData(m, f) \/ IsEnd(m, f)
                    <=> About(m, f)
               /\ IsRequest(m, f) => ~IsPoint(m, f) /\ ~IsData(m, f) /\ ~IsEnd(m, f)
               /\ IsPoint(m, f) => ~IsData(m, f) /\ ~IsEnd(m, f)
               /\ IsData(m, f) => ~IsEnd(m, f)
  /\ \A m \in Requests : m.n \in Nat
<1>1. \A t, f, n : Msg(t, f, n).type = t /\ Msg(t, f, n).file = f /\ Msg(t, f, n).n = n
  BY DEF Msg
<1>2. \A m \in Requests : m.n \in Nat
  BY DEF Requests
<1> QED
  BY <1>1, <1>2 DEF IsRequest, IsPoint, IsData, IsEnd, About, FileTypes

\* Where the elements of a sequence are when one is appended.
LEMMA AppendParts ==
  ASSUME NEW q \in Seq(Requests), NEW m, NEW r, r = Append(q, m)
  PROVE  /\ Len(q) \in Nat /\ DOMAIN q = 1..Len(q)
         /\ Len(r) = Len(q) + 1 /\ DOMAIN r = 1..(Len(q) + 1)
         /\ \A i \in DOMAIN q : r[i] = q[i]
         /\ r[Len(q) + 1] = m
         /\ \A i \in DOMAIN r : i \in DOMAIN q \/ i = Len(q) + 1
  OBVIOUS

\* And when the first one is taken.
LEMMA TailParts ==
  ASSUME NEW q \in Seq(Requests), q # <<>>, NEW r, r = Tail(q)
  PROVE  /\ Len(q) \in Nat \ {0} /\ DOMAIN q = 1..Len(q)
         /\ Len(r) = Len(q) - 1 /\ DOMAIN r = 1..Len(r)
         /\ q[1] = Head(q) /\ 1 \in DOMAIN q
         /\ \A i \in DOMAIN r : i + 1 \in DOMAIN q /\ r[i] = q[i + 1]
         /\ \A i \in DOMAIN q : i = 1 \/ (i - 1 \in DOMAIN r /\ q[i] = r[i - 1])
  OBVIOUS

\* A chunk stays among the first messages when one is appended.
LEMMA UptoAppend ==
  ASSUME NEW q \in Seq(Requests), NEW m, NEW r, r = Append(q, m), NEW f, NEW b, NEW k,
         NEW i \in 0..Len(q), Upto(q, f, b, k, i)
  PROVE  Upto(r, f, b, k, i) /\ Upto(r, f, b, k, Len(r))
<1>1. CASE k = b
  BY <1>1 DEF Upto
<1>2. CASE k # b
  <2>1. PICK j \in 1..i : IsData(q[j], f) /\ q[j].n = k
    BY <1>2 DEF Upto
  <2>2. j \in DOMAIN q /\ r[j] = q[j] /\ j \in 1..Len(r)
    BY <2>1, AppendParts
  <2> QED
    BY <2>1, <2>2 DEF Upto
<1> QED
  BY <1>1, <1>2

\* A message about something else changes nothing of f.
LEMMA AppendOther ==
  ASSUME NEW q \in Seq(Requests), NEW m, NEW r, r = Append(q, m), NEW f, ~About(m, f),
         NEW p, NEW b, LinkOf(q, f, p, b)
  PROVE  /\ LinkOf(r, f, p, b)
         /\ \A s, k : Sent(q, f, b, s, k) => Sent(r, f, b, s, k)
<1>1. ~IsRequest(m, f) /\ ~IsPoint(m, f) /\ ~IsData(m, f) /\ ~IsEnd(m, f)
  BY MessageIs
<1>2. Begins(r, f, p, b)
  BY <1>1, AppendParts DEF LinkOf, Begins
<1>3. Ordered(r, f)
  <2> SUFFICES ASSUME NEW i \in DOMAIN r, NEW j \in DOMAIN r, i < j, About(r[i], f),
                      ~IsRequest(r[i], f), IsRequest(r[j], f) \/ IsPoint(r[j], f)
               PROVE  FALSE
    BY DEF Ordered
  <2>1. i \in DOMAIN q /\ j \in DOMAIN q /\ r[i] = q[i] /\ r[j] = q[j]
    BY <1>1, AppendParts
  <2> QED
    BY <2>1 DEF LinkOf, Ordered
<1>4. Flow(r, f, b)
  <2>1. ASSUME NEW i \in DOMAIN r, IsData(r[i], f) \/ IsEnd(r[i], f)
        PROVE  i \in DOMAIN q /\ r[i] = q[i] /\ i - 1 \in 0..Len(q)
    BY <1>1, <2>1, AppendParts
  <2>2. ASSUME NEW i \in DOMAIN r
        PROVE  /\ IsData(r[i], f) => Upto(r, f, b, r[i].n - 1, i - 1)
               /\ IsEnd(r[i], f) => Upto(r, f, b, Len(Source[f]), i - 1)
    BY <2>1, UptoAppend DEF LinkOf, Flow
  <2>3. \A i, j \in DOMAIN r :
          IsData(r[i], f) /\ IsData(r[j], f) /\ r[i].n = r[j].n => i = j
    BY <2>1 DEF LinkOf, Flow
  <2> QED
    BY <2>2, <2>3 DEF Flow
<1>5. ASSUME NEW s, NEW k, Sent(q, f, b, s, k) PROVE Sent(r, f, b, s, k)
  <2>1. Len(q) \in 0..Len(q)
    BY AppendParts
  <2>2. s = "stream" => Upto(r, f, b, k, Len(r))
    BY <2>1, <1>5, UptoAppend DEF Sent
  <2>3. \A i \in DOMAIN r : (i \in DOMAIN q /\ r[i] = q[i]) \/ r[i] = m
    BY AppendParts
  <2> QED
    BY <1>1, <1>5, <2>2, <2>3, ~About(m, f) DEF Sent
<1> QED
  BY <1>2, <1>3, <1>4, <1>5 DEF LinkOf

\* A request opens what the link carries of f.
LEMMA AppendRequest ==
  ASSUME NEW q \in Seq(Requests), NEW m, NEW r, r = Append(q, m), NEW f, IsRequest(m, f),
         \A i \in DOMAIN q : ~About(q[i], f), NEW p
  PROVE  LinkOf(r, f, p, 0) /\ \A k : Sent(r, f, 0, "wait", k)
<1>1. \A i \in DOMAIN r : About(r[i], f) => i = Len(q) + 1 /\ r[i] = m
  BY AppendParts
<1>2. Len(q) + 1 \in DOMAIN r /\ r[Len(q) + 1] = m
  BY AppendParts
<1>3. \A i \in DOMAIN r : ~IsPoint(r[i], f) /\ ~IsData(r[i], f) /\ ~IsEnd(r[i], f)
  BY <1>1, MessageIs
<1>4. Begins(r, f, p, 0)
  BY <1>2, <1>3 DEF Begins
<1>5. Ordered(r, f)
  BY <1>1 DEF Ordered
<1>6. Flow(r, f, 0)
  BY <1>3 DEF Flow
<1> QED
  BY <1>1, <1>4, <1>5, <1>6 DEF LinkOf, Sent

\* A BreakPoint sets where the chunks start.
LEMMA AppendPoint ==
  ASSUME NEW q \in Seq(Requests), NEW m, NEW r, r = Append(q, m), NEW f, IsPoint(m, f),
         \A i \in DOMAIN q : About(q[i], f) => IsRequest(q[i], f), NEW p,
         m.n <= Len(Source[f])
  PROVE  LinkOf(r, f, p, m.n) /\ Sent(r, f, m.n, "stream", m.n)
<1>1. \A i \in DOMAIN r : About(r[i], f) => IsRequest(r[i], f) \/ (i = Len(q) + 1 /\ r[i] = m)
  BY AppendParts
<1>2. Len(q) + 1 \in DOMAIN r /\ r[Len(q) + 1] = m
  BY AppendParts
<1>3. \A i \in DOMAIN r : /\ ~IsData(r[i], f) /\ ~IsEnd(r[i], f)
                          /\ IsPoint(r[i], f) => i = Len(q) + 1 /\ r[i] = m
  BY <1>1, MessageIs
<1>4. Begins(r, f, p, m.n)
  BY <1>2, <1>3 DEF Begins
<1>5. Ordered(r, f)
  <2>1. \A i, j \in DOMAIN r : i < j => i # Len(q) + 1
    BY AppendParts
  <2> QED
    BY <1>1, <2>1 DEF Ordered
<1>6. Flow(r, f, m.n) /\ Sent(r, f, m.n, "stream", m.n)
  BY <1>3 DEF Flow, Sent, Upto
<1> QED
  BY <1>4, <1>5, <1>6 DEF LinkOf

\* A chunk or FileDone leaves the requests and the BreakPoint where they are.
LEMMA AppendBody ==
  ASSUME NEW q \in Seq(Requests), NEW m, NEW r, r = Append(q, m), NEW f,
         IsData(m, f) \/ IsEnd(m, f), NEW p, NEW b, LinkOf(q, f, p, b)
  PROVE  Begins(r, f, p, b) /\ Ordered(r, f)
<1>1. ~IsRequest(m, f) /\ ~IsPoint(m, f)
  BY MessageIs
<1>2. Begins(r, f, p, b)
  BY <1>1, AppendParts DEF LinkOf, Begins
<1>3. Ordered(r, f)
  <2> SUFFICES ASSUME NEW i \in DOMAIN r, NEW j \in DOMAIN r, i < j, About(r[i], f),
                      ~IsRequest(r[i], f), IsRequest(r[j], f) \/ IsPoint(r[j], f)
               PROVE  FALSE
    BY DEF Ordered
  <2>1. i \in DOMAIN q /\ j \in DOMAIN q /\ r[i] = q[i] /\ r[j] = q[j]
    BY <1>1, AppendParts
  <2> QED
    BY <2>1 DEF LinkOf, Ordered
<1> QED
  BY <1>2, <1>3

\* The next chunk is one more.
LEMMA AppendData ==
  ASSUME NEW q \in Seq(Requests), NEW m, NEW r, r = Append(q, m), NEW f, IsData(m, f),
         NEW p, NEW b, NEW k \in Nat, LinkOf(q, f, p, b), Sent(q, f, b, "stream", k),
         m.n = k + 1, k + 1 <= Len(Source[f])
  PROVE  LinkOf(r, f, p, b) /\ Sent(r, f, b, "stream", k + 1)
<1>1. ~IsEnd(m, f)
  BY MessageIs
<1>2. \A i \in DOMAIN r : (i \in DOMAIN q /\ r[i] = q[i]) \/ (i = Len(q) + 1 /\ r[i] = m)
  BY AppendParts
<1>3. Len(q) + 1 \in DOMAIN r /\ r[Len(q) + 1] = m /\ Len(q) \in 0..Len(q)
      /\ Len(q) + 1 \in 1..Len(r) /\ (Len(q) + 1) - 1 = Len(q) /\ (k + 1) - 1 = k
  BY AppendParts
<1>4. Upto(q, f, b, k, Len(q))
  BY DEF Sent
<1>5. \A i \in DOMAIN q : /\ q[i].n \in Nat
                          /\ IsData(q[i], f) => q[i].n <= k
                          /\ ~IsEnd(q[i], f)
  BY MessageIs DEF Sent
<1>6. Flow(r, f, b)
  <2>1. ASSUME NEW i \in DOMAIN r, IsData(r[i], f)
        PROVE  Upto(r, f, b, r[i].n - 1, i - 1)
    <3>1. CASE i = Len(q) + 1 /\ r[i] = m
      BY <3>1, <1>3, <1>4, UptoAppend
    <3>2. CASE i \in DOMAIN q /\ r[i] = q[i]
      <4>1. Upto(q, f, b, q[i].n - 1, i - 1)
        BY <2>1, <3>2 DEF LinkOf, Flow
      <4>2. i - 1 \in 0..Len(q)
        BY <3>2
      <4> QED
        BY <3>2, <4>1, <4>2, UptoAppend
    <3> QED
      BY <1>2, <3>1, <3>2
  <2>2. \A i \in DOMAIN r : ~IsEnd(r[i], f)
    BY <1>1, <1>2, <1>5
  <2>3. \A i, j \in DOMAIN r :
          IsData(r[i], f) /\ IsData(r[j], f) /\ r[i].n = r[j].n => i = j
    <3>1. \A i, j \in DOMAIN q :
            IsData(q[i], f) /\ IsData(q[j], f) /\ q[i].n = q[j].n => i = j
      BY DEF LinkOf, Flow
    <3>2. \A i \in DOMAIN q : IsData(q[i], f) => q[i].n # m.n
      BY <1>5
    <3> QED
      BY <1>2, <3>1, <3>2
  <2> QED
    BY <2>1, <2>2, <2>3 DEF Flow
<1>7. Sent(r, f, b, "stream", k + 1)
  <2>1. Upto(r, f, b, k + 1, Len(r))
    BY <1>3 DEF Upto
  <2>2. \A i \in DOMAIN r : /\ IsData(r[i], f) => r[i].n <= k + 1
                            /\ ~IsEnd(r[i], f)
    BY <1>1, <1>2, <1>5
  <2> QED
    BY <2>1, <2>2 DEF Sent
<1> QED
  BY <1>6, <1>7, AppendBody DEF LinkOf

\* FileDone follows the last one.
LEMMA AppendEnd ==
  ASSUME NEW q \in Seq(Requests), NEW m, NEW r, r = Append(q, m), NEW f, IsEnd(m, f),
         NEW p, NEW b, LinkOf(q, f, p, b), Sent(q, f, b, "stream", Len(Source[f]))
  PROVE  LinkOf(r, f, p, b)
<1>1. ~IsData(m, f)
  BY MessageIs
<1>2. \A i \in DOMAIN r : (i \in DOMAIN q /\ r[i] = q[i]) \/ (i = Len(q) + 1 /\ r[i] = m)
  BY AppendParts
<1>3. Len(q) \in 0..Len(q) /\ (Len(q) + 1) - 1 = Len(q)
  BY AppendParts
<1>4. Upto(q, f, b, Len(Source[f]), Len(q))
  BY DEF Sent
<1>5. Flow(r, f, b)
  <2>1. ASSUME NEW i \in DOMAIN r, IsData(r[i], f)
        PROVE  i \in DOMAIN q /\ r[i] = q[i] /\ Upto(r, f, b, r[i].n - 1, i - 1)
    <3>1. i \in DOMAIN q /\ r[i] = q[i]
      BY <1>1, <1>2, <2>1
    <3>2. Upto(q, f, b, q[i].n - 1, i - 1)
      BY <2>1, <3>1 DEF LinkOf, Flow
    <3>3. i - 1 \in 0..Len(q)
      BY <3>1
    <3> QED
      BY <3>1, <3>2, <3>3, UptoAppend
  <2>2. ASSUME NEW i \in DOMAIN r, IsEnd(r[i], f)
        PROVE  Upto(r, f, b, Len(Source[f]), i - 1)
    <3>1. CASE i = Len(q) + 1
      BY <3>1, <1>3, <1>4, UptoAppend
    <3>2. CASE i \in DOMAIN q /\ r[i] = q[i]
      <4>1. Upto(q, f, b, Len(Source[f]), i - 1)
        BY <2>2, <3>2 DEF LinkOf, Flow
      <4>2. i - 1 \in 0..Len(q)
        BY <3>2
      <4> QED
        BY <4>1, <4>2, UptoAppend
    <3> QED
      BY <1>2, <3>1, <3>2
  <2> QED
    BY <2>1, <2>2 DEF LinkOf, Flow
<1> QED
  BY <1>5, AppendBody DEF LinkOf

\* A chunk that is not the first message stays among the first ones.
LEMMA UptoTail ==
  ASSUME NEW q \in Seq(Requests), q # <<>>, NEW r, r = Tail(q), NEW f, NEW b, NEW k,
         NEW i \in Nat, Upto(q, f, b, k, i), i <= Len(q),
         ~IsData(Head(q), f) \/ Head(q).n # k
  PROVE  Upto(r, f, b, k, i - 1)
<1>1. CASE k = b
  BY <1>1 DEF Upto
<1>2. CASE k # b
  <2>1. PICK j \in 1..i : IsData(q[j], f) /\ q[j].n = k
    BY <1>2 DEF Upto
  <2>2. j \in DOMAIN q /\ j # 1
    BY <2>1, TailParts
  <2>3. j - 1 \in DOMAIN r /\ q[j] = r[j - 1] /\ j - 1 \in 1..(i - 1)
    BY <2>1, <2>2, TailParts
  <2> QED
    BY <2>1, <2>3 DEF Upto
<1> QED
  BY <1>1, <1>2

\* A request or a BreakPoint that is not the first message stays.
LEMMA TailHas ==
  ASSUME NEW q \in Seq(Requests), q # <<>>, NEW r, r = Tail(q), NEW f
  PROVE  /\ (\E i \in DOMAIN q : IsPoint(q[i], f)) /\ ~IsPoint(q[1], f)
              => \E i \in DOMAIN r : IsPoint(r[i], f)
         /\ (\E i \in DOMAIN q : IsRequest(q[i], f)) /\ ~IsRequest(q[1], f)
              => \E i \in DOMAIN r : IsRequest(r[i], f)
<1>1. \A i \in DOMAIN q : i = 1 \/ (i - 1 \in DOMAIN r /\ q[i] = r[i - 1])
  BY TailParts
<1>2. ASSUME NEW i \in DOMAIN q, IsPoint(q[i], f), ~IsPoint(q[1], f)
      PROVE  \E j \in DOMAIN r : IsPoint(r[j], f)
  BY <1>1, <1>2
<1>3. ASSUME NEW i \in DOMAIN q, IsRequest(q[i], f), ~IsRequest(q[1], f)
      PROVE  \E j \in DOMAIN r : IsRequest(r[j], f)
  BY <1>1, <1>3
<1> QED
  BY <1>2, <1>3

\* Taking a message keeps the order of the others.
LEMMA TailOrdered ==
  ASSUME NEW q \in Seq(Requests), q # <<>>, NEW r, r = Tail(q), NEW f, Ordered(q, f)
  PROVE  Ordered(r, f)
<1> SUFFICES ASSUME NEW i \in DOMAIN r, NEW j \in DOMAIN r, i < j, About(r[i], f),
                    ~IsRequest(r[i], f)
             PROVE  ~IsRequest(r[j], f) /\ ~IsPoint(r[j], f)
  BY DEF Ordered
<1>1. /\ i + 1 \in DOMAIN q /\ r[i] = q[i + 1] /\ j + 1 \in DOMAIN q /\ r[j] = q[j + 1]
      /\ i + 1 < j + 1
  BY TailParts
<1> QED
  BY <1>1 DEF Ordered

\* Taking one that is no chunk of f leaves its chunks in their order.
LEMMA TailFlow ==
  ASSUME NEW q \in Seq(Requests), q # <<>>, NEW r, r = Tail(q), NEW f,
         ~IsData(Head(q), f), NEW b, Flow(q, f, b)
  PROVE  Flow(r, f, b)
<1>1. ASSUME NEW i \in DOMAIN r
      PROVE  /\ i + 1 \in DOMAIN q /\ r[i] = q[i + 1] /\ i \in Nat /\ i <= Len(q)
             /\ (i + 1) - 1 = i /\ i \in 1..Len(q)
  BY TailParts
<1>2. ASSUME NEW i \in DOMAIN r
      PROVE  /\ IsData(r[i], f) => Upto(r, f, b, r[i].n - 1, i - 1)
             /\ IsEnd(r[i], f) => Upto(r, f, b, Len(Source[f]), i - 1)
  <2>1. /\ IsData(r[i], f) => Upto(q, f, b, r[i].n - 1, i)
        /\ IsEnd(r[i], f) => Upto(q, f, b, Len(Source[f]), i)
    BY <1>1 DEF Flow
  <2> QED
    BY <1>1, <2>1, UptoTail
<1>3. \A i, j \in DOMAIN r :
        IsData(r[i], f) /\ IsData(r[j], f) /\ r[i].n = r[j].n => i = j
  <2> SUFFICES ASSUME NEW i \in DOMAIN r, NEW j \in DOMAIN r,
                      IsData(r[i], f), IsData(r[j], f), r[i].n = r[j].n
               PROVE  i = j
    OBVIOUS
  <2>1. i + 1 = j + 1
    BY <1>1 DEF Flow
  <2> QED
    BY <1>1, <2>1
<1> QED
  BY <1>2, <1>3 DEF Flow

\* So the task is as far as it was.
LEMMA TailSent ==
  ASSUME NEW q \in Seq(Requests), q # <<>>, NEW r, r = Tail(q), NEW f,
         ~IsData(Head(q), f), NEW b, NEW s, NEW k, Sent(q, f, b, s, k)
  PROVE  Sent(r, f, b, s, k)
<1>1. \A i \in DOMAIN r : i + 1 \in DOMAIN q /\ r[i] = q[i + 1]
  BY TailParts
<1>2. s = "stream" => Upto(r, f, b, k, Len(r))
  <2>1. Len(q) \in Nat /\ Len(q) <= Len(q) /\ Len(r) = Len(q) - 1
    BY TailParts
  <2> QED
    BY <2>1, UptoTail DEF Sent
<1> QED
  BY <1>1, <1>2 DEF Sent

\* The first message is about something else.
LEMMA TakeOther ==
  ASSUME NEW q \in Seq(Requests), q # <<>>, NEW r, r = Tail(q), NEW f, ~About(Head(q), f),
         NEW p, NEW b, LinkOf(q, f, p, b)
  PROVE  /\ LinkOf(r, f, p, b)
         /\ \A s, k : Sent(q, f, b, s, k) => Sent(r, f, b, s, k)
<1>1. ~IsRequest(q[1], f) /\ ~IsPoint(q[1], f) /\ ~IsData(Head(q), f)
  BY MessageIs, TailParts
<1>2. Begins(r, f, p, b)
  <2>1. /\ \A i \in DOMAIN r : IsPoint(r[i], f) => r[i].n = b
        /\ (\A i \in DOMAIN q : ~IsRequest(q[i], f)) => \A i \in DOMAIN r : ~IsRequest(r[i], f)
    BY TailParts DEF LinkOf, Begins
  <2> QED
    BY <1>1, <2>1, TailHas DEF LinkOf, Begins
<1> QED
  BY <1>1, <1>2, TailOrdered, TailFlow, TailSent DEF LinkOf

\* The receiver begins a file anew.
LEMMA TakeRequest ==
  ASSUME NEW q \in Seq(Requests), q # <<>>, NEW r, r = Tail(q), NEW f,
         IsRequest(Head(q), f), NEW p, NEW b, LinkOf(q, f, p, b)
  PROVE  /\ LinkOf(r, f, 0, b)
         /\ \A s, k : Sent(q, f, b, s, k) => Sent(r, f, b, s, k)
<1>1. IsRequest(q[1], f) /\ ~IsPoint(q[1], f) /\ ~IsData(Head(q), f) /\ 1 \in DOMAIN q
  BY MessageIs, TailParts
<1>2. Begins(r, f, 0, b)
  <2>1. \A i \in DOMAIN r : IsPoint(r[i], f) => r[i].n = b
    BY TailParts DEF LinkOf, Begins
  <2>2. \/ \E i \in DOMAIN r : IsPoint(r[i], f)
        \/ b = 0
    BY <1>1, TailHas DEF LinkOf, Begins
  <2> QED
    BY <2>1, <2>2 DEF Begins
<1> QED
  BY <1>1, <1>2, TailOrdered, TailFlow, TailSent DEF LinkOf

\* It goes on from a BreakPoint.
LEMMA TakePoint ==
  ASSUME NEW q \in Seq(Requests), q # <<>>, NEW r, r = Tail(q), NEW f,
         IsPoint(Head(q), f), NEW p, NEW b, LinkOf(q, f, p, b)
  PROVE  /\ b = Head(q).n /\ LinkOf(r, f, b, b)
         /\ \A s, k : Sent(q, f, b, s, k) => Sent(r, f, b, s, k)
<1>1. /\ IsPoint(q[1], f) /\ ~IsRequest(q[1], f) /\ About(q[1], f) /\ 1 \in DOMAIN q
      /\ ~IsData(Head(q), f) /\ q[1] = Head(q)
  BY MessageIs, TailParts
<1>2. b = Head(q).n
  BY <1>1 DEF LinkOf, Begins
<1>3. \A i \in DOMAIN r : ~IsRequest(r[i], f) /\ ~IsPoint(r[i], f)
  <2> SUFFICES ASSUME NEW i \in DOMAIN r PROVE ~IsRequest(r[i], f) /\ ~IsPoint(r[i], f)
    OBVIOUS
  <2>1. i + 1 \in DOMAIN q /\ 1 < i + 1 /\ r[i] = q[i + 1]
    BY TailParts
  <2> QED
    BY <1>1, <2>1 DEF LinkOf, Ordered
<1>4. Begins(r, f, b, b)
  BY <1>3 DEF Begins
<1> QED
  BY <1>1, <1>2, <1>4, TailOrdered, TailFlow, TailSent DEF LinkOf

\* A chunk or FileDone that comes first has no request and no BreakPoint behind it.
LEMMA TakeBody ==
  ASSUME NEW q \in Seq(Requests), q # <<>>, NEW r, r = Tail(q), NEW f,
         IsData(Head(q), f) \/ IsEnd(Head(q), f), NEW p, NEW b, LinkOf(q, f, p, b)
  PROVE  b = p /\ \A k : Begins(r, f, k, k)
<1>1. /\ ~IsPoint(q[1], f) /\ ~IsRequest(q[1], f) /\ About(q[1], f) /\ 1 \in DOMAIN q
  BY MessageIs, TailParts
<1>2. \A i \in DOMAIN q : ~IsRequest(q[i], f) /\ ~IsPoint(q[i], f)
  <2> SUFFICES ASSUME NEW i \in DOMAIN q, i # 1
               PROVE  ~IsRequest(q[i], f) /\ ~IsPoint(q[i], f)
    BY <1>1
  <2>1. 1 < i
    BY TailParts
  <2> QED
    BY <1>1, <2>1 DEF LinkOf, Ordered
<1>3. \A i \in DOMAIN r : ~IsRequest(r[i], f) /\ ~IsPoint(r[i], f)
  BY <1>2, TailParts
<1> QED
  BY <1>2, <1>3 DEF LinkOf, Begins

\* A chunk that comes first is the one the receiver is at.
LEMMA TakeData ==
  ASSUME NEW q \in Seq(Requests), q # <<>>, NEW r, r = Tail(q), NEW f,
         IsData(Head(q), f), NEW p \in Nat, NEW b \in Nat, LinkOf(q, f, p, b)
  PROVE  /\ b = p /\ Head(q).n = p + 1 /\ LinkOf(r, f, p + 1, p + 1)
         /\ \A s, k : Sent(q, f, b, s, k) => Sent(r, f, p + 1, s, k)
<1>1. /\ IsData(q[1], f) /\ About(q[1], f) /\ 1 \in DOMAIN q /\ q[1] = Head(q)
      /\ q[1] \in Requests /\ q[1].n \in Nat /\ ~IsRequest(q[1], f)
  BY MessageIs, TailParts
<1>2. b = p /\ \A k : Begins(r, f, k, k)
  BY TakeBody
<1>3. q[1].n = p + 1
  <2>1. Upto(q, f, b, q[1].n - 1, 1 - 1)
    BY <1>1 DEF LinkOf, Flow
  <2>2. q[1].n - 1 = b
    BY <2>1 DEF Upto
  <2> QED
    BY <1>1, <1>2, <2>2
<1>4. \A i \in DOMAIN q : i # 1 /\ IsData(q[i], f) => q[i].n # p + 1
  BY <1>1, <1>3 DEF LinkOf, Flow
<1>5. ASSUME NEW i \in Nat, i <= Len(q), NEW k, Upto(q, f, b, k, i), k # b
      PROVE  Upto(r, f, p + 1, k, i - 1)
  <2>1. CASE k = p + 1
    BY <2>1 DEF Upto
  <2>2. CASE k # p + 1
    <3>1. Upto(r, f, b, k, i - 1)
      BY <1>5, <2>2, <1>1, <1>3, UptoTail
    <3> QED
      BY <3>1, <1>5 DEF Upto
  <2> QED
    BY <2>1, <2>2
<1>6. Flow(r, f, p + 1)
  <2>1. ASSUME NEW i \in DOMAIN r
        PROVE  /\ i + 1 \in DOMAIN q /\ r[i] = q[i + 1] /\ i \in Nat /\ i <= Len(q)
               /\ (i + 1) - 1 = i /\ i > 0 /\ i + 1 # 1 /\ r[i] \in Requests
    BY TailParts
  <2>2. ASSUME NEW i \in DOMAIN r, IsData(r[i], f)
        PROVE  Upto(r, f, p + 1, r[i].n - 1, i - 1)
    <3>1. Upto(q, f, b, r[i].n - 1, i)
      BY <2>1, <2>2 DEF LinkOf, Flow
    <3>2. r[i].n # p + 1 /\ r[i].n \in Nat
      BY <2>1, <2>2, <1>4, MessageIs
    <3>3. r[i].n - 1 # b
      BY <3>2, <1>2
    <3> QED
      BY <3>1, <3>3, <2>1, <1>5
  <2>3. ASSUME NEW i \in DOMAIN r, IsEnd(r[i], f)
        PROVE  Upto(r, f, p + 1, Len(Source[f]), i - 1)
    <3>1. Upto(q, f, b, Len(Source[f]), i)
      BY <2>1, <2>3 DEF LinkOf, Flow
    <3>2. q[1].n <= Len(Source[f])
      BY <1>1 DEF IsData, Requests, FileTypes
    <3> QED
      BY <3>1, <3>2, <2>1, <1>2, <1>3, <1>5
  <2>4. \A i, j \in DOMAIN r :
          IsData(r[i], f) /\ IsData(r[j], f) /\ r[i].n = r[j].n => i = j
    <3> SUFFICES ASSUME NEW i \in DOMAIN r, NEW j \in DOMAIN r,
                        IsData(r[i], f), IsData(r[j], f), r[i].n = r[j].n
                 PROVE  i = j
      OBVIOUS
    <3>1. i + 1 = j + 1
      BY <2>1 DEF LinkOf, Flow
    <3> QED
      BY <2>1, <3>1
  <2> QED
    BY <2>2, <2>3, <2>4 DEF Flow
<1>7. ASSUME NEW s, NEW k, Sent(q, f, b, s, k) PROVE Sent(r, f, p + 1, s, k)
  <2>1. s \notin {"none", "start", "wait"}
    BY <1>1, <1>7 DEF Sent
  <2>2. CASE s = "stream"
    <3>1. q[1].n <= k /\ Upto(q, f, b, k, Len(q)) /\ k <= Len(Source[f])
      BY <1>1, <1>7, <2>2 DEF Sent
    <3>2. k # b
      BY <3>1, <1>2, <1>3
    <3>3. Len(q) \in Nat /\ Len(q) <= Len(q) /\ Len(r) = Len(q) - 1
      BY TailParts
    <3>4. Upto(r, f, p + 1, k, Len(r))
      BY <3>1, <3>2, <3>3, <1>5
    <3>5. \A i \in DOMAIN r : i + 1 \in DOMAIN q /\ r[i] = q[i + 1]
      BY TailParts
    <3> QED
      BY <2>2, <3>1, <3>4, <3>5, <1>7 DEF Sent
  <2>3. CASE s # "stream"
    BY <2>1, <2>3 DEF Sent
  <2> QED
    BY <2>2, <2>3
<1> QED
  BY <1>1, <1>2, <1>3, <1>6, <1>7, TailOrdered DEF LinkOf

\* What arrives of a lost connection is in order, too: if it is less than what was
\* sent of f, it may start elsewhere, but then there are no chunks.
LEMMA PrefixLink ==
  ASSUME NEW q \in Seq(Requests), NEW n \in 0..Len(q), NEW r, r = SubSeq(q, 1, n), NEW f,
         NEW p \in Nat, NEW b \in Nat, LinkOf(q, f, p, b)
  PROVE  \E c \in Nat : LinkOf(r, f, p, c)
<1>1. /\ Len(q) \in Nat /\ n \in Nat /\ DOMAIN q = 1..Len(q) /\ DOMAIN r = 1..n
      /\ \A i \in DOMAIN r : i \in DOMAIN q /\ r[i] = q[i]
  OBVIOUS
<1>2. Ordered(r, f)
  BY <1>1 DEF LinkOf, Ordered
<1>3. ASSUME NEW k \in DOMAIN r, IsData(r[k], f) \/ IsEnd(r[k], f)
      PROVE  LinkOf(r, f, p, b)
  <2>1. k \in DOMAIN q /\ About(q[k], f) /\ ~IsRequest(q[k], f) /\ ~IsPoint(q[k], f)
    BY <1>1, <1>3, MessageIs
  <2>2. \A i \in DOMAIN q : IsRequest(q[i], f) \/ IsPoint(q[i], f) =>
          i \in DOMAIN r /\ r[i] = q[i]
    <3> SUFFICES ASSUME NEW i \in DOMAIN q, IsRequest(q[i], f) \/ IsPoint(q[i], f)
                 PROVE  i \in DOMAIN r /\ r[i] = q[i]
      OBVIOUS
    <3>1. ~(k < i)
      BY <2>1 DEF LinkOf, Ordered
    <3> QED
      BY <3>1, <1>1
  <2>3. Begins(r, f, p, b)
    BY <1>1, <2>2 DEF LinkOf, Begins
  <2>4. \A i \in DOMAIN r : \A c : Upto(q, f, b, c, i - 1) => Upto(r, f, b, c, i - 1)
    BY <1>1 DEF Upto
  <2>5. Flow(r, f, b)
    BY <1>1, <2>4 DEF LinkOf, Flow
  <2> QED
    BY <1>2, <2>3, <2>5 DEF LinkOf
<1>4. ASSUME \A k \in DOMAIN r : ~IsData(r[k], f) /\ ~IsEnd(r[k], f)
      PROVE  \E c \in Nat : LinkOf(r, f, p, c)
  <2>1. \A c : Flow(r, f, c)
    BY <1>4 DEF Flow
  <2>2. \E c \in Nat : Begins(r, f, p, c)
    <3>1. \A i \in DOMAIN r : IsPoint(r[i], f) => r[i].n = b
      BY <1>1 DEF LinkOf, Begins
    <3>2. CASE \E i \in DOMAIN r : IsPoint(r[i], f)
      <4>1. Begins(r, f, p, b)
        BY <3>1, <3>2 DEF Begins
      <4> QED
        BY <4>1
    <3>3. CASE \A i \in DOMAIN r : ~IsPoint(r[i], f)
      <4>1. Begins(r, f, p, 0) \/ Begins(r, f, p, p)
        BY <3>3 DEF Begins
      <4> QED
        BY <4>1
    <3> QED
      BY <3>2, <3>3
  <2> QED
    BY <1>2, <2>1, <2>2 DEF LinkOf
<1> QED
  BY <1>3, <1>4

-----------------------------------------------------------------------------
(* What is known of the disk, as it grows.                                 *)

\* No step takes back what is on the disk, but of a spoilt file, or an answer.
Grows ==
  \A f \in Files :
    /\ Refused(f) => Refused(f)'
    /\ \/ Spoilt(f)'
       \/ /\ ~Spoilt(f)
          /\ disk[f] # NoFile => /\ disk'[f] # NoFile
                                 /\ Len(disk[f]) <= Len(disk'[f])

\* So what was apt stays apt.
LEMMA AptStays ==
  ASSUME Typed, Typed', Grows
  PROVE  /\ AptConfirms \subseteq AptConfirms' /\ AptQuestions \subseteq AptQuestions'
         /\ AptReplies \subseteq AptReplies' /\ AptRequests \subseteq AptRequests'
         /\ \A f \in Files, n \in Nat :
              Spoilt(f) \/ Reached(f, n) => (Spoilt(f) \/ Reached(f, n))'
<1>1. ASSUME NEW f \in Files, NEW n \in Nat, Spoilt(f) \/ Reached(f, n)
      PROVE  (Spoilt(f) \/ Reached(f, n))'
  <2>1. CASE Spoilt(f)'
    BY <2>1
  <2>2. CASE /\ ~Spoilt(f)
             /\ disk[f] # NoFile => disk'[f] # NoFile /\ Len(disk[f]) <= Len(disk'[f])
    <3>1. n = 0 \/ (disk[f] # NoFile /\ n <= Len(disk[f]))
      BY <1>1, <2>2 DEF Reached
    <3>2. disk[f] # NoFile => Len(disk[f]) \in Nat
      BY DEF Typed, TypeInv
    <3>3. disk'[f] # NoFile => Len(disk'[f]) \in Nat
      BY DEF Typed, TypeInv
    <3> QED
      BY <2>2, <3>1, <3>2, <3>3 DEF Reached
  <2> QED
    BY <2>1, <2>2 DEF Grows
<1>2. AptConfirms \subseteq AptConfirms'
  <2> SUFFICES ASSUME NEW m \in AptConfirms PROVE m \in AptConfirms'
    OBVIOUS
  <2>1. m \in Confirms /\ m.file \in Files /\ m.n \in Nat
    BY DEF AptConfirms, Confirms
  <2>2. (Spoilt(m.file) => Spoilt(m.file)') /\ (Refused(m.file) => Refused(m.file)')
    BY <2>1 DEF Grows
  <2> QED
    BY <2>1, <2>2, <1>1 DEF AptConfirms, Apt
<1>3. AptQuestions \subseteq AptQuestions'
  <2> SUFFICES ASSUME NEW m \in AptQuestions PROVE m \in AptQuestions'
    OBVIOUS
  <2>1. m \in Questions /\ (m.kind # "share" => m.file \in Files /\ m.n \in Nat)
    BY DEF AptQuestions, Questions, Confirms, Reply
  <2>2. m.kind # "share" => (Spoilt(m.file) => Spoilt(m.file)')
    BY <2>1 DEF Grows
  <2> QED
    BY <2>1, <2>2, <1>1 DEF AptQuestions, Apt
<1>4. AptResumes \subseteq AptResumes'
  <2> SUFFICES ASSUME NEW m \in AptResumes PROVE m \in AptResumes'
    OBVIOUS
  <2>1. m \in Resumes /\ \A f \in Files : m.received[f] \in Nat
    BY DEF AptResumes, Resumes
  <2> QED
    BY <2>1, <1>1 DEF AptResumes
<1>5. AptRequests \subseteq AptRequests'
  <2> SUFFICES ASSUME NEW m \in AptRequests PROVE m \in AptRequests'
    OBVIOUS
  <2>1. m \in Requests /\ m.n \in Nat /\ (m.type = "BreakPoint" => m.file \in Files)
    BY DEF AptRequests, Requests, FileTypes
  <2> QED
    BY <2>1, <1>1 DEF AptRequests
<1> QED
  BY <1>1, <1>2, <1>3, <1>4, <1>5 DEF AptReplies

\* What a step can do to a queue of messages from S.
Later(q, r, S) ==
  \/ r = q \/ r = <<>>
  \/ q # <<>> /\ r = Tail(q)
  \/ \E m \in S : r = Append(q, m)
  \/ \E n \in 0..Len(q) : r = SubSeq(q, 1, n)

LEMMA LaterIn ==
  ASSUME NEW S, NEW T, S \subseteq T, NEW q \in Seq(S), NEW r, Later(q, r, T)
  PROVE  r \in Seq(T)
<1>1. q \in Seq(T) /\ <<>> \in Seq(T)
  OBVIOUS
<1> QED
  BY <1>1, HeadTail, AppendType, PrefixType DEF Later

\* Messages without a position are apt.
LEMMA PlainApt ==
  /\ \A m \in Requests : m.type # "BreakPoint" => m \in AptRequests /\ m \in AptRequests'
  /\ Signals \subseteq AptReplies /\ Signals \subseteq AptReplies'
  BY DEF AptRequests, AptReplies

\* A step that says nothing about what is not there.
Tells ==
  /\ Later(toReceiver, toReceiver', AptRequests')
  /\ Later(toSender, toSender', AptReplies')
  /\ Later(confirmQ, confirmQ', AptConfirms')
  /\ Later(prompts, prompts', AptQuestions')
  /\ \A r \in Runs, f \in Files :
       /\ resume'[r][f] = resume[r][f] \/ (Spoilt(f) \/ Reached(f, resume[r][f]))'
       /\ \/ told'[r][f] \in {told[r][f], None}
          \/ told'[r][f] \in AptConfirms' /\ told'[r][f].file = f

LEMMA KnownStep ==
  ASSUME Typed, Typed', Known, Grows, Tells
  PROVE  Known'
<1>1. /\ toReceiver' \in Seq(AptRequests') /\ toSender' \in Seq(AptReplies')
      /\ confirmQ' \in Seq(AptConfirms') /\ prompts' \in Seq(AptQuestions')
  BY AptStays, LaterIn DEF Known, Tells
<1>2. ASSUME NEW r \in Runs, NEW f \in Files
      PROVE  /\ (Spoilt(f) \/ Reached(f, resume[r][f]))'
             /\ told'[r][f] # None => told'[r][f] \in AptConfirms' /\ told'[r][f].file = f
  <2>1. resume[r][f] \in Nat
    BY DEF Typed, TypeInv
  <2>2. (Spoilt(f) \/ Reached(f, resume[r][f]))'
    <3>1. CASE resume'[r][f] = resume[r][f]
      <4>1. \A n \in Nat : Spoilt(f) \/ Reached(f, n) => (Spoilt(f) \/ Reached(f, n))'
        BY AptStays
      <4>2. Spoilt(f) \/ Reached(f, resume[r][f])
        BY DEF Known
      <4> QED
        BY <3>1, <4>1, <4>2, <2>1 DEF Reached
    <3>2. CASE (Spoilt(f) \/ Reached(f, resume[r][f]))'
      BY <3>2
    <3> QED
      BY <3>1, <3>2 DEF Tells
  <2> QED
    BY <2>2, AptStays DEF Known, Tells
<1> QED
  BY <1>1, <1>2 DEF Known

\* A step that does nothing to what the link carries of f.
Still(f) ==
  /\ recvPos'[f] = recvPos[f]
  /\ \/ toReceiver' = toReceiver
     \/ \E m \in Requests : ~About(m, f) /\ toReceiver' = Append(toReceiver, m)
     \/ toReceiver # <<>> /\ ~About(Head(toReceiver), f) /\ toReceiver' = Tail(toReceiver)
  /\ \A r \in Runs :
       Live(r)' => Live(r) /\ task'[r][f] = task[r][f] /\ pos'[r][f] = pos[r][f]

LEMMA CarriedStill ==
  ASSUME Typed, NEW f \in Files, Carried(f), Still(f)
  PROVE  Carried(f)'
<1>1. PICK b \in Nat :
        /\ LinkOf(toReceiver, f, recvPos[f], b)
        /\ \A r \in Runs : Live(r) => Sent(toReceiver, f, b, task[r][f], pos[r][f])
  BY DEF Carried, LinkOf
<1>2. toReceiver \in Seq(Requests)
  BY DEF Typed, TypeInv
<1>3. /\ LinkOf(toReceiver', f, recvPos[f], b)
      /\ \A s, k : Sent(toReceiver, f, b, s, k) => Sent(toReceiver', f, b, s, k)
  BY <1>1, <1>2, AppendOther, TakeOther DEF Still
<1>4. \A r \in Runs : Live(r)' => Sent(toReceiver', f, b, task'[r][f], pos'[r][f])
  BY <1>1, <1>3 DEF Still
<1>5. LinkOf(toReceiver', f, recvPos'[f], b)
  BY <1>3 DEF Still
<1> QED
  BY <1>4, <1>5 DEF Carried, LinkOf

\* A step that sends nothing about a file, but for a late message.
LEMMA FreshStep ==
  ASSUME Typed, Fresh, mixed \subseteq mixed',
         link' = "up" /\ ~Begun' =>
           /\ link = "up" /\ ~Begun
           /\ \/ toReceiver' = toReceiver
              \/ \E m \in Requests :
                   /\ m.type \notin FileTypes \/ m.file \in mixed'
                   /\ toReceiver' = Append(toReceiver, m)
              \/ toReceiver # <<>> /\ toReceiver' = Tail(toReceiver)
  PROVE  Fresh'
<1> SUFFICES ASSUME link' = "up", ~Begun', NEW i \in DOMAIN toReceiver',
                    toReceiver'[i].type \in FileTypes, toReceiver'[i].file \notin mixed'
             PROVE  \E j \in DOMAIN toReceiver' : i < j /\ toReceiver'[j] \in Asking
  BY DEF Fresh
<1>1. toReceiver \in Seq(Requests)
  BY DEF Typed, TypeInv
<1>2. \A k \in DOMAIN toReceiver :
        toReceiver[k].type \in FileTypes /\ toReceiver[k].file \notin mixed' =>
          \E j \in DOMAIN toReceiver : k < j /\ toReceiver[j] \in Asking
  BY DEF Fresh
<1>3. CASE toReceiver' = toReceiver
  BY <1>2, <1>3
<1>4. ASSUME NEW m \in Requests, m.type \notin FileTypes \/ m.file \in mixed',
             toReceiver' = Append(toReceiver, m)
      PROVE  \E j \in DOMAIN toReceiver' : i < j /\ toReceiver'[j] \in Asking
  <2>1. /\ \A k \in DOMAIN toReceiver : k \in DOMAIN toReceiver' /\ toReceiver'[k] = toReceiver[k]
        /\ i \in DOMAIN toReceiver \/ toReceiver'[i] = m
    BY <1>1, <1>4, AppendParts
  <2>2. PICK j \in DOMAIN toReceiver : i < j /\ toReceiver[j] \in Asking
    BY <1>2, <1>4, <2>1
  <2> QED
    BY <2>1, <2>2
<1>5. CASE toReceiver # <<>> /\ toReceiver' = Tail(toReceiver)
  <2>1. /\ i + 1 \in DOMAIN toReceiver /\ toReceiver'[i] = toReceiver[i + 1] /\ i \in Nat \ {0}
        /\ \A k \in DOMAIN toReceiver :
             k = 1 \/ (k - 1 \in DOMAIN toReceiver' /\ toReceiver[k] = toReceiver'[k - 1])
        /\ DOMAIN toReceiver = 1..Len(toReceiver)
    BY <1>1, <1>5, TailParts
  <2>2. PICK j \in DOMAIN toReceiver : i + 1 < j /\ toReceiver[j] \in Asking
    BY <1>2, <2>1
  <2>3. j - 1 \in DOMAIN toReceiver' /\ i < j - 1 /\ toReceiver'[j - 1] = toReceiver[j]
    BY <2>1, <2>2
  <2> QED
    BY <2>2, <2>3
<1> QED
  BY <1>3, <1>4, <1>5

\* A step of the sender, or of a connection, keeps what the receiver has.
LEMMA SenderKeeps ==
  ASSUME Typed, Typed', CopyInv, ReceiverStayed, Tells, Fresh', rlink' = rlink,
         mixed \subseteq mixed',
         UNCHANGED <<answers, recvFiles, recvPos, disk, finished, rstate>>,
         \A f \in Files : ~Spoilt(f) /\ ~Spoilt(f)' /\ rstate = "run" => Carried(f)'
  PROVE  CopyInv'
<1>1. \A f \in Files : Spoilt(f) => Spoilt(f)'
  BY DEF Spoilt, Refused
<1>2. Grows
  <2>1. \A f \in Files : disk[f] # NoFile => Len(disk[f]) \in Nat
    BY DEF Typed, TypeInv
  <2>2. \A f \in Files : Refused(f) => Refused(f)'
    BY DEF Refused
  <2> QED
    BY <1>1, <2>1, <2>2 DEF Grows
<1>3. Known'
  BY <1>2, KnownStep DEF CopyInv
<1>4. \A f \in Files : ~Spoilt(f) => OnDisk(f)'
  BY DEF CopyInv, OnDisk, Reached
<1> QED
  BY <1>1, <1>3, <1>4 DEF CopyInv

\* Losing the sender's connection and coming back: what was sent may be cut short,
\* and no call is live until the next one.
LEMMA ConnectionsCopy ==
  ASSUME ~EarlyLoss, Typed, Typed', OneCall, LateCalm, CopyInv,
         Connections \/ SenderBack \/ Joined \/ ReceiverBack
  PROVE  CopyInv'
<1> SUFFICES ASSUME ReceiverStayed' PROVE CopyInv'
  BY DEF CopyInv
<1> USE DEF ReceiverStayed
<1>1. CASE ReceiverLost \/ ReceiverBack \/ ReceiverMisses
  BY <1>1 DEF ReceiverLost, ReceiverBack, ReceiverMisses
<1>2. CASE \E i \in DOMAIN lateReplies : LateReply(i)
  <2>1. rlink' = rlink
    BY <1>2 DEF LateReply
  <2>2. DOMAIN lateReplies = {}
    BY <2>1 DEF LateCalm
  <2> QED
    BY <1>2, <2>2, Zenon
<1>3. CASE SenderLost \/ SenderBack
  <2>1. PICK n \in 0..Len(toReceiver) : toReceiver' = SubSeq(toReceiver, 1, n)
    BY <1>3 DEF SenderLost, SenderBack
  <2>2. /\ rlink' = rlink /\ mixed' = mixed /\ UNCHANGED receiverVars
        /\ toSender' = toSender /\ (confirmQ' = confirmQ \/ confirmQ' = <<>>)
        /\ UNCHANGED runVars /\ link' # "up"
    BY <1>3 DEF SenderLost, SenderBack
  <2>3. ReceiverStayed /\ Known
    BY <2>2 DEF CopyInv
  <2>4. Tells
    BY <2>1, <2>2 DEF Tells, Later
  <2>5. Fresh'
    BY <2>2 DEF Fresh
  <2>6. \A r \in Runs : ~Live(r)'
    <3>1. \A r \in Runs : r <= runs => run[r].conn <= conn /\ run[r].conn \in Nat
      BY DEF OneCall, Typed, TypeInv, Calls
    <3>2. conn \in Nat
      BY DEF Typed, TypeInv
    <3>3. CASE SenderLost
      BY <3>3 DEF SenderLost, Live, Cancelled
    <3>4. CASE SenderBack
      BY <3>1, <3>2, <3>4 DEF SenderBack, Live, Cancelled
    <3> QED
      BY <1>3, <3>3, <3>4
  <2>7. ASSUME NEW f \in Files, ~Spoilt(f), rstate = "run" PROVE Carried(f)'
    <3>1. PICK b \in Nat : LinkOf(toReceiver, f, recvPos[f], b)
      BY <2>3, <2>7 DEF CopyInv, Carried, LinkOf
    <3>2. toReceiver \in Seq(Requests) /\ recvPos[f] \in Nat
      BY DEF Typed, TypeInv
    <3>3. PICK c \in Nat : LinkOf(toReceiver', f, recvPos[f], c)
      BY <2>1, <3>1, <3>2, PrefixLink
    <3> QED
      BY <2>2, <2>6, <3>3 DEF Carried, LinkOf
  <2> QED
    BY <2>2, <2>3, <2>4, <2>5, <2>7, SenderKeeps
<1>4. CASE SenderMisses \/ GiveUp
  <2>1. Tells /\ toReceiver' = toReceiver /\ UNCHANGED <<link, conn>>
    BY <1>4 DEF SenderMisses, GiveUp, Tells, Later
  <2>2. UNCHANGED <<runs, run, task, pos, recvPos>>
    BY <1>4 DEF SenderMisses, GiveUp
  <2>3. \A f \in Files : Still(f)
    BY <2>1, <2>2 DEF Still, Live, Cancelled
  <2>4. Fresh'
    BY <1>4, <2>1, <2>2, FreshStep DEF CopyInv, Begun, SenderMisses, GiveUp
  <2> QED
    BY <1>4, <2>1, <2>3, <2>4, SenderKeeps, CarriedStill DEF CopyInv, SenderMisses, GiveUp
<1>5. ASSUME NEW i \in DOMAIN late, LateRequest(i)
      PROVE  CopyInv'
  <2>1. PICK m \in Requests : /\ toReceiver' = Append(toReceiver, m)
                              /\ mixed' = mixed \cup {m.file} /\ rlink' = rlink
    BY <1>5, HeadTail DEF LateRequest, ToReceiver, Typed, TypeInv
  <2>2. UNCHANGED <<link, conn, toSender, senderVars, receiverVars>>
    BY <1>5 DEF LateRequest
  <2>3. m \in AptRequests'
    BY <2>1 DEF AptRequests, Spoilt
  <2>4. Tells
    BY <2>1, <2>2, <2>3 DEF Tells, Later
  <2>5. ReceiverStayed /\ Known /\ Fresh /\ mixed \subseteq mixed'
    BY <2>1 DEF CopyInv
  <2>6. Fresh'
    BY <2>1, <2>2, <2>5, FreshStep DEF Begun
  <2>7. ASSUME NEW f \in Files, ~Spoilt(f), ~Spoilt(f)', rstate = "run" PROVE Carried(f)'
    <3>1. ~About(m, f)
      BY <2>1, <2>7 DEF About, Spoilt
    <3>2. Still(f)
      BY <2>1, <2>2, <3>1 DEF Still, Live, Cancelled
    <3> QED
      BY <2>5, <2>7, <3>2, CarriedStill DEF CopyInv
  <2> QED
    BY <2>1, <2>2, <2>4, <2>5, <2>6, <2>7, SenderKeeps
<1>6. CASE Joined
  <2>1. Msg("ResumeRequest", 0, 0) \in Requests /\ Msg("ResumeRequest", 0, 0).type = "ResumeRequest"
    BY PlainMessages, MessageIs
  <2>2. toReceiver' = Append(toReceiver, Msg("ResumeRequest", 0, 0))
    BY <1>6 DEF Joined, ToReceiver
  <2>3. Tells
    BY <1>6, <2>1, <2>2, PlainApt DEF Joined, Tells, Later
  <2>4. \A r \in Runs : ~Live(r)'
    BY <1>6 DEF Joined, OneCall, Begun, Live, Cancelled
  <2>5. \A f \in Files : Still(f)
    BY <1>6, <2>1, <2>2, <2>4 DEF Joined, Still, About, FileTypes
  <2>6. Fresh'
    <3>1. toReceiver \in Seq(Requests)
      BY DEF Typed, TypeInv
    <3>2. Len(toReceiver) + 1 \in DOMAIN toReceiver'
          /\ toReceiver'[Len(toReceiver) + 1] = Msg("ResumeRequest", 0, 0)
          /\ \A i \in DOMAIN toReceiver' : i = Len(toReceiver) + 1 \/ i < Len(toReceiver) + 1
      BY <2>2, <3>1, AppendParts
    <3>3. toReceiver'[Len(toReceiver) + 1] \in Asking
      BY <2>1, <3>2 DEF Asking
    <3> QED
      BY <2>1, <3>2, <3>3 DEF Fresh, FileTypes
  <2> QED
    BY <1>6, <2>3, <2>5, <2>6, SenderKeeps, CarriedStill DEF CopyInv, Joined
<1> QED
  BY <1>1, <1>2, <1>3, <1>4, <1>5, <1>6 DEF Connections

\* What leads to a call is alone: nothing is on its way to the receiver any more
\* that was sent before.
LEMMA CallArrives ==
  ASSUME Typed, OneCall, ReceiverStayed, NEW k \in {"ready", "share", "resume"}, Arrived(k)
  PROVE  Clear(toReceiver, Asking) /\ link = "up" /\ ~Begun
<1>1. toSender # <<>> /\ toSender \in Seq(Replies) /\ Head(toSender) \in Rising
  BY ArrivedType DEF Rising, Typed, TypeInv
<1>2. ~Clear(toSender, Rising)
  BY <1>1, TailMarks
<1> QED
  BY <1>2 DEF OneCall, OneUnderWay, Quiet

\* What arrives at the sender is apt.
LEMMA AptArrives ==
  ASSUME Typed, Known, NEW k, Arrived(k)
  PROVE  /\ toSender # <<>>
         /\ k \in {"newFile", "breakPoint"} => Head(toSender) \in AptConfirms
         /\ k = "resume" => Head(toSender) \in AptResumes
<1>1. toSender # <<>> /\ Head(toSender) \in AptReplies /\ Head(toSender).kind = k
  BY HeadTail DEF Arrived, Known
<1>2. \A m \in AptConfirms : m.kind \in {"newFile", "breakPoint"}
  BY DEF AptConfirms, Confirms
<1>3. \A m \in AptResumes : m.kind = "resume"
  BY DEF AptResumes, Resumes
<1>4. \A m \in Signals : m.kind \in {"ready", "share", "done"}
  BY DEF Signals
<1> QED
  BY <1>1, <1>2, <1>3, <1>4 DEF AptReplies

\* A call starts with nothing on the link, from what the receiver has.
LEMMA StartCopy ==
  ASSUME Typed, Typed', CopyInv, OneCall, ReceiverStayed,
         NEW k \in {"share", "resume"}, Arrived(k), Taken,
         NEW received \in [Files -> Nat], Start(received),
         \A f \in Files : Spoilt(f) \/ Reached(f, received[f]),
         UNCHANGED <<connVars, toReceiver, receiverVars>>
  PROVE  CopyInv'
<1>1. /\ Clear(toReceiver, Asking) /\ link = "up" /\ ~Begun
      /\ runs' = runs + 1 /\ runs + 1 \in Runs
      /\ run'[runs + 1] = [pc |-> "loop", conn |-> conn, next |-> 1]
      /\ \A r \in Runs \ {runs + 1} : run'[r] = run[r]
  BY CallArrives, TypedStart
<1>2. /\ \A f \in Files : Spoilt(f)' <=> Spoilt(f)
      /\ \A f \in Files : \A n : Reached(f, n) => (n = 0 \/ (/\ disk'[f] # NoFile
                                                             /\ n <= Len(disk'[f])))
  BY DEF Spoilt, Refused, Reached
<1>3. Tells
  <2>1. ASSUME NEW r \in Runs, NEW f \in Files
        PROVE  resume'[r][f] = resume[r][f] \/ (Spoilt(f) \/ Reached(f, resume[r][f]))'
    <3>1. CASE r = runs + 1
      <4>1. resume'[r] = received
        BY <3>1, <1>1 DEF Start, Typed, TypeInv
      <4>2. Spoilt(f) \/ Reached(f, received[f])
        OBVIOUS
      <4> QED
        BY <4>1, <4>2, <1>2 DEF Reached
    <3>2. CASE r # runs + 1
      BY <3>2, <1>1 DEF Start, Typed, TypeInv
    <3> QED
      BY <3>1, <3>2
  <2>2. told' = told /\ confirmQ' = confirmQ
    BY DEF Start
  <2>3. toSender # <<>> /\ toSender' = Tail(toSender)
    BY DEF Arrived, Taken
  <2> QED
    BY <2>1, <2>2, <2>3 DEF Tells, Later
<1>4. Begun'
  <2>1. runs + 1 <= runs'
    BY <1>1, ReconnectAssumption DEF Runs
  <2> QED
    BY <1>1, <2>1 DEF Begun
<1>5. Fresh'
  BY <1>4 DEF Fresh
<1>6. ASSUME NEW f \in Files, ~Spoilt(f), rstate = "run" PROVE Carried(f)'
  <2>1. PICK b \in Nat : LinkOf(toReceiver, f, recvPos[f], b)
    BY <1>6 DEF CopyInv, Carried, LinkOf
  <2>2. \A i \in DOMAIN toReceiver : ~About(toReceiver[i], f)
    BY <1>1, <1>6 DEF CopyInv, Fresh, Clear, About, Spoilt
  <2>3. ASSUME NEW r \in Runs, Live(r)' PROVE Sent(toReceiver', f, b, task'[r][f], pos'[r][f])
    <3>1. r = runs + 1
      <4> SUFFICES ASSUME r # runs + 1 PROVE FALSE
        OBVIOUS
      <4>1. r <= runs' /\ run'[r].conn = conn /\ run'[r] = run[r]
        BY <1>1, <2>3 DEF Live, Cancelled
      <4>2. r <= runs
        BY <4>1, <1>1, StartedCall
      <4> QED
        BY <1>1, <4>1, <4>2 DEF Begun
    <3>2. r > runs
      BY <3>1, <1>1, StartedCall
    <3>3. task'[r][f] = "none"
      BY <3>2 DEF Start, Typed, Unstarted
    <3> QED
      BY <2>2, <3>3 DEF Sent
  <2> QED
    BY <2>1, <2>3 DEF Carried, LinkOf
<1> QED
  BY <1>3, <1>5, <1>6, SenderKeeps DEF Start

\* The sender's loop.
LEMMA LoopCopy ==
  ASSUME Typed, Typed', OneCall, CopyInv,
         \/ Ready \/ ShareAccepted \/ ShareRejected \/ ResumeState
         \/ EnqueueConfirm \/ DoneReplied \/ ClientEnds
  PROVE  CopyInv'
<1> SUFFICES ASSUME ReceiverStayed' PROVE CopyInv'
  BY DEF CopyInv
<1>1. ReceiverStayed /\ rlink' = rlink /\ Known /\ Fresh
  BY DEF ReceiverStayed, Ready, ShareAccepted, ShareRejected, ResumeState, EnqueueConfirm,
         DoneReplied, ClientEnds, CopyInv
<1>2. CASE ShareAccepted
  <2>1. [f \in Files |-> 0] \in [Files -> Nat] /\ \A f \in Files : Reached(f, 0)
    BY DEF Reached
  <2>2. /\ Arrived("share") /\ Taken /\ Start([f \in Files |-> 0])
        /\ UNCHANGED <<connVars, toReceiver, receiverVars>>
    BY <1>2 DEF ShareAccepted
  <2> QED
    BY <1>1, <2>1, <2>2, StartCopy
<1>3. CASE ResumeState
  <2>1. /\ Arrived("resume") /\ Taken /\ Start(Head(toSender).received)
        /\ UNCHANGED <<connVars, toReceiver, receiverVars>>
    BY <1>3 DEF ResumeState
  <2>2. Head(toSender) \in AptResumes
    BY <1>1, <2>1, AptArrives
  <2>3. /\ Head(toSender).received \in [Files -> Nat]
        /\ \A f \in Files : Spoilt(f) \/ Reached(f, Head(toSender).received[f])
    BY <2>2 DEF AptResumes, Resumes
  <2> QED
    BY <1>1, <2>1, <2>3, StartCopy
<1>4. ASSUME UNCHANGED <<connVars, runVars, receiverVars>>,
             \/ toReceiver' = toReceiver
             \/ \E m \in Requests : m.type \notin FileTypes /\ toReceiver' = Append(toReceiver, m),
             Later(toSender, toSender', {}), Later(confirmQ, confirmQ', AptConfirms')
      PROVE  CopyInv'
  <2>1. Tells
    <3>1. Later(toReceiver, toReceiver', AptRequests')
      BY <1>4, PlainApt DEF Later, FileTypes
    <3> QED
      BY <1>4, <3>1 DEF Tells, Later
  <2>2. \A f \in Files : Still(f)
    BY <1>4 DEF Still, Live, Cancelled, About
  <2>3. (Begun' <=> Begun) /\ link' = link
    BY <1>4 DEF Begun
  <2>4. Fresh'
    BY <1>1, <1>4, <2>3, FreshStep
  <2> QED
    BY <1>1, <1>4, <2>1, <2>2, <2>4, SenderKeeps, CarriedStill DEF CopyInv
<1>5. \A k : Arrived(k) /\ Taken => Later(toSender, toSender', {})
  BY DEF Arrived, Taken, Later
<1>6. CASE Ready \/ ShareRejected \/ DoneReplied \/ ClientEnds
  <2>1. Later(toSender, toSender', {}) /\ Later(confirmQ, confirmQ', AptConfirms')
    BY <1>5, <1>6 DEF Ready, ShareRejected, DoneReplied, ClientEnds, Later
  <2>2. UNCHANGED <<connVars, runVars, receiverVars>>
    BY <1>6 DEF Ready, ShareRejected, DoneReplied, ClientEnds
  <2>3. \/ toReceiver' = toReceiver
        \/ \E m \in Requests : m.type \notin FileTypes /\ toReceiver' = Append(toReceiver, m)
    <3>1. \A t \in {"SendRequest", "Done"} : Msg(t, 0, 0) \in Requests
                                             /\ Msg(t, 0, 0).type \notin FileTypes
      BY PlainMessages, MessageIs DEF FileTypes
    <3> QED
      BY <1>6, <3>1 DEF Ready, ShareRejected, DoneReplied, ClientEnds, ToReceiver
  <2> QED
    BY <1>4, <2>1, <2>2, <2>3
<1>7. CASE EnqueueConfirm
  <2>1. Head(toSender) \in AptConfirms /\ Later(toSender, toSender', {})
    BY <1>1, <1>5, <1>7, AptArrives DEF EnqueueConfirm
  <2>2. /\ UNCHANGED <<connVars, runVars, receiverVars, toReceiver>>
        /\ confirmQ' = Append(confirmQ, Head(toSender))
    BY <1>7 DEF EnqueueConfirm
  <2>3. Head(toSender) \in AptConfirms'
    BY <2>1, <2>2 DEF AptConfirms, Apt, Reached, Spoilt, Refused
  <2>4. Later(confirmQ, confirmQ', AptConfirms')
    BY <2>2, <2>3 DEF Later
  <2> QED
    BY <1>4, <2>1, <2>2, <2>4
<1> QED
  BY <1>2, <1>3, <1>6, <1>7

-----------------------------------------------------------------------------
(* send_files and its tasks.                                               *)

\* The tasks that were started are those of the files before the next one.
Spawned == \A r \in Runs, f \in Files : task[r][f] = "none" <=> run[r].next <= f

LEMMA SpawnedInit == Init => Spawned
  BY ReconnectAssumption DEF Init, Spawned, Files

LEMMA SpawnedNext == Typed /\ Spawned /\ [Next]_vars => Spawned'
<1> SUFFICES ASSUME Typed, Spawned, [Next]_vars PROVE Spawned'
  OBVIOUS
<1>1. ASSUME task' = task, \A r \in Runs : run'[r].next = run[r].next PROVE Spawned'
  BY <1>1 DEF Spawned
<1>2. ASSUME NEW received \in [Files -> Nat], Start(received) PROVE Spawned'
  <2>1. /\ run'[runs + 1].next = 1 /\ task' = task
        /\ \A r \in Runs \ {runs + 1} : run'[r] = run[r]
    BY <1>2, TypedStart DEF Start
  <2>2. runs \in Nat
    BY ReconnectAssumption DEF Typed, TypeInv
  <2>3. \A f \in Files : f >= 1 /\ (runs + 1 \in Runs => task[runs + 1][f] = "none")
    BY <2>2 DEF Typed, Unstarted, Files
  <2>4. \A r \in Runs : r # runs + 1 => run'[r].next = run[r].next
    BY <2>1
  <2>5. \A r \in Runs, f \in Files : r = runs + 1 => (task'[r][f] = "none" <=> run'[r].next <= f)
    BY <2>1, <2>3
  <2> QED
    BY <2>1, <2>4, <2>5 DEF Spawned
<1>3. ASSUME NEW r \in Runs, NEW pc, Go(r, pc) PROVE \A s \in Runs : run'[s].next = run[s].next
  <2>1. run' = [run EXCEPT ![r] = [run[r] EXCEPT !.pc = pc]]
    BY <1>3 DEF Go, Typed, TypeInv
  <2>2. [run[r] EXCEPT !.pc = pc].next = run[r].next
    BY DEF Typed, TypeInv, Calls
  <2> QED
    BY <2>1, <2>2 DEF Typed, TypeInv
<1>4. ASSUME NEW r \in Runs, SpawnTask(r) PROVE Spawned'
  <2>1. run' = [run EXCEPT ![r] = [run[r] EXCEPT !.pc = "loop", !.next = run[r].next + 1]]
    BY <1>4 DEF SpawnTask, Typed, TypeInv
  <2>2. [run[r] EXCEPT !.pc = "loop", !.next = run[r].next + 1].next = run[r].next + 1
        /\ run[r].next \in Files
    BY <1>4 DEF SpawnTask, InRun, Typed, TypeInv, Calls
  <2>3. /\ run'[r].next = run[r].next + 1 /\ \A s \in Runs \ {r} : run'[s] = run[s]
    BY <2>1, <2>2 DEF Typed, TypeInv
  <2>4. /\ task'[r][run[r].next] = "start"
        /\ \A s \in Runs, g \in Files : s # r \/ g # run[r].next => task'[s][g] = task[s][g]
    BY <1>4, <2>2 DEF SpawnTask, Typed, TypeInv
  <2>5. \A g \in Files : (run[r].next + 1 <= g) <=> (run[r].next <= g /\ g # run[r].next)
    BY <2>2 DEF Files
  <2> QED
    BY <2>2, <2>3, <2>4, <2>5 DEF Spawned
<1>5. ASSUME NEW r \in Runs, NEW f \in Files, SendSingleFile(r, f) \/ TaskFails(r, f)
      PROVE  Spawned'
  <2>1. /\ task[r][f] # "none" /\ run' = run
        /\ task' = task \/ \E pc \in {"start", "wait", "stream", "ok", "failed"} : Turn(r, f, pc)
    BY <1>5 DEF SendSingleFile, ResumeFile, RequestFile, FileKept, FileConfirmed, Confirmed,
                ConfirmTimeout, StreamCancelled, SendChunk, SendFileDone, TaskFails, InTask
  <2>2. /\ task'[r][f] # "none"
        /\ \A s \in Runs, g \in Files : s # r \/ g # f => task'[s][g] = task[s][g]
    BY <2>1, TurnType
  <2> QED
    BY <2>1, <2>2 DEF Spawned
<1>6. CASE UNCHANGED vars
  BY <1>1, <1>6 DEF vars
<1>7. CASE Connections \/ ClientEnds \/ ReceiverLoop \/ User
  BY <1>1, <1>7
     DEF Connections, SenderLost, SenderMisses, ReceiverLost, ReceiverMisses, LateRequest,
         LateReply, GiveUp, ClientEnds,
         ReceiverLoop, ReceiverBack, RecvSendRequest, RecvResumeRequest, RecvDone,
         RecvNewFile, RecvExistingFile, RecvBreakPoint, RecvFileData, RecvFileDone,
         User, AnswerShare, AnswerDuplicate, AnswerBreakPoint
<1>8. CASE SenderLoop
  <2>1. CASE ShareAccepted
    BY <1>2, <2>1 DEF ShareAccepted
  <2>2. CASE ResumeState
    <3>1. Head(toSender).received \in [Files -> Nat]
      BY <2>2, ArrivedType DEF ResumeState, Typed
    <3> QED
      BY <1>2, <2>2, <3>1 DEF ResumeState
  <2> QED
    BY <1>1, <1>8, <2>1, <2>2
       DEF SenderLoop, SenderBack, Joined, Ready, ShareRejected, EnqueueConfirm, DoneReplied
<1>9. ASSUME NEW r \in Runs, SendFiles(r) PROVE Spawned'
  BY <1>1, <1>3, <1>4, <1>9 DEF SendFiles, NextFile, JoinTasks, Dispatch
<1> QED
  BY <1>5, <1>6, <1>7, <1>8, <1>9 DEF Next

\* Only one call is live.
LEMMA OneLive ==
  ASSUME OneCall, ReceiverStayed, NEW r \in Runs, NEW s \in Runs, Live(r), Live(s)
  PROVE  r = s
  BY DEF OneCall, Live, Cancelled

\* What a live call did about a file leaves it in order.
LEMMA CarriedNow ==
  ASSUME OneCall, ReceiverStayed, NEW r \in Runs, NEW f \in Files, Live(r),
         \A s \in Runs : Live(s)' => Live(s), recvPos' = recvPos,
         NEW b \in Nat, LinkOf(toReceiver', f, recvPos[f], b),
         Sent(toReceiver', f, b, task'[r][f], pos'[r][f])
  PROVE  Carried(f)'
<1>1. \A s \in Runs : Live(s)' => s = r
  BY OneLive
<1> QED
  BY <1>1 DEF Carried, LinkOf

\* A call goes on with its files.
LEMMA SendFilesCopy ==
  ASSUME Typed, Typed', OneCall, Spawned, CopyInv, NEW r \in Runs, SendFiles(r)
  PROVE  CopyInv'
<1> SUFFICES ASSUME ReceiverStayed' PROVE CopyInv'
  BY DEF CopyInv
<1>1. /\ UNCHANGED <<connVars, receiverVars, toSender, runs, resume, pos>>
      /\ ReceiverStayed /\ Known /\ Fresh
  BY DEF ReceiverStayed, SendFiles, NextFile, SpawnTask, JoinTasks, Dispatch, CopyInv
<1>2. \A s \in Runs : run'[s].conn = run[s].conn
  BY SameConn
<1>3. /\ \A s \in Runs : Live(s)' <=> Live(s)
      /\ Begun' <=> Begun
  BY <1>1, <1>2 DEF Live, Cancelled, Begun
<1>4. \/ toReceiver' = toReceiver
      \/ \E m \in Requests : m.type \notin FileTypes /\ toReceiver' = Append(toReceiver, m)
  <2>1. Msg("Done", 0, 0) \in Requests /\ Msg("Done", 0, 0).type \notin FileTypes
    BY PlainMessages, MessageIs DEF FileTypes
  <2> QED
    BY <2>1 DEF SendFiles, NextFile, SpawnTask, JoinTasks, Dispatch, Post, ToReceiver
<1>5. Fresh'
  BY <1>1, <1>3, <1>4, FreshStep
<1>6. Later(toReceiver, toReceiver', AptRequests')
  BY <1>4, PlainApt DEF Later, FileTypes
<1>7. /\ Later(confirmQ, confirmQ', AptConfirms')
      /\ \A s \in Runs, f \in Files :
           \/ told'[s][f] \in {told[s][f], None}
           \/ told'[s][f] \in AptConfirms' /\ told'[s][f].file = f
  <2>1. CASE Dispatch(r)
    <3>1. confirmQ # <<>> /\ Head(confirmQ) \in AptConfirms /\ confirmQ' = Tail(confirmQ)
      BY <1>1, <2>1, HeadTail DEF Dispatch, Known
    <3>2. Head(confirmQ) \in AptConfirms'
      BY <1>1, <3>1 DEF AptConfirms, Apt, Reached, Spoilt, Refused
    <3>3. Head(confirmQ).file \in Files
      BY <3>1 DEF AptConfirms, Confirms
    <3>4. \/ told' = told
          \/ told' = [told EXCEPT ![r][Head(confirmQ).file] = Head(confirmQ)]
      BY <2>1 DEF Dispatch
    <3>5. \A s \in Runs, f \in Files :
            \/ told'[s][f] = told[s][f]
            \/ told'[s][f] = Head(confirmQ) /\ Head(confirmQ).file = f
      <4>1. ASSUME NEW c, NEW g \in Files, told' = [told EXCEPT ![r][g] = c],
                   NEW s \in Runs, NEW f \in Files
            PROVE  told'[s][f] = told[s][f] \/ (told'[s][f] = c /\ g = f)
        BY <4>1 DEF Typed, TypeInv
      <4>2. CASE told' = told
        BY <4>2
      <4>3. CASE told' = [told EXCEPT ![r][Head(confirmQ).file] = Head(confirmQ)]
        <5> DEFINE c == Head(confirmQ)
        <5>1. told' = [told EXCEPT ![r][c.file] = c] /\ c.file \in Files
          BY <3>3, <4>3
        <5> HIDE DEF c
        <5>2. \A s \in Runs, f \in Files :
                told'[s][f] = told[s][f] \/ (told'[s][f] = c /\ c.file = f)
          BY <4>1, <5>1
        <5> QED
          BY <5>2 DEF c
      <4> QED
        BY <3>4, <4>2, <4>3
    <3> QED
      BY <3>1, <3>2, <3>5 DEF Later
  <2>2. CASE ~Dispatch(r)
    BY <2>2 DEF SendFiles, NextFile, SpawnTask, JoinTasks, Later
  <2> QED
    BY <2>1, <2>2
<1>8. Tells
  BY <1>1, <1>6, <1>7 DEF Tells, Later
<1>9. ASSUME NEW f \in Files, Carried(f) PROVE Carried(f)'
  <2>1. CASE \A s \in Runs : task'[s][f] = task[s][f]
    <3>1. Still(f)
      BY <1>1, <1>3, <1>4, <2>1 DEF Still, About
    <3> QED
      BY <1>9, <3>1, CarriedStill
  <2>2. CASE ~\A s \in Runs : task'[s][f] = task[s][f]
    <3>1. SpawnTask(r)
      BY <2>2 DEF SendFiles, NextFile, JoinTasks, Dispatch
    <3>2. /\ run[r].next \in Files /\ toReceiver' = toReceiver
          /\ Turn(r, run[r].next, "start")
      BY <3>1 DEF SpawnTask, InRun, Turn, Typed, TypeInv, Calls
    <3>3. /\ f = run[r].next /\ task'[r][f] = "start"
          /\ \A s \in Runs : s # r => task'[s][f] = task[s][f]
      BY <2>2, <3>2, TurnType
    <3>4. task[r][f] = "none"
      BY <3>3 DEF Spawned, Files
    <3>5. PICK b \in Nat :
            /\ LinkOf(toReceiver, f, recvPos[f], b)
            /\ \A s \in Runs : Live(s) => Sent(toReceiver, f, b, task[s][f], pos[s][f])
      BY <1>9 DEF Carried, LinkOf
    <3>6. ASSUME NEW s \in Runs, Live(s)
          PROVE  Sent(toReceiver, f, b, task'[s][f], pos[s][f])
      <4>1. CASE s = r
        <5>1. Sent(toReceiver, f, b, "none", pos[r][f])
          BY <3>4, <3>5, <3>6, <4>1
        <5> QED
          BY <3>3, <4>1, <5>1 DEF Sent
      <4>2. CASE s # r
        BY <3>3, <3>5, <3>6, <4>2
      <4> QED
        BY <4>1, <4>2
    <3> QED
      BY <1>1, <1>3, <3>2, <3>5, <3>6 DEF Carried, LinkOf
  <2> QED
    BY <2>1, <2>2
<1> QED
  BY <1>1, <1>5, <1>8, <1>9, SenderKeeps DEF CopyInv

\* A task posts on the connection of its call, if that is live.
LEMMA PostLive ==
  ASSUME Typed, NEW r \in Runs, NEW f \in Files, task[r][f] # "none", NEW m, Post(r, m)
  PROVE  /\ Live(r) => toReceiver' = Append(toReceiver, m)
         /\ ~Live(r) => toReceiver' = toReceiver
  BY StartedCall DEF Post, ToReceiver, Live

\* A step of a task keeps everything about other files and other calls.
LEMMA TaskKeeps ==
  ASSUME Typed, Typed', CopyInv, ReceiverStayed, NEW r \in Runs, NEW f \in Files,
         UNCHANGED <<connVars, runs, run, resume, confirmQ, toSender, receiverVars>>,
         \A s \in Runs, g \in Files :
           /\ s # r \/ g # f => task'[s][g] = task[s][g] /\ pos'[s][g] = pos[s][g]
           /\ told'[s][g] \in {told[s][g], None},
         \/ toReceiver' = toReceiver
         \/ Live(r) /\ \E m \in AptRequests : About(m, f) /\ toReceiver' = Append(toReceiver, m),
         Live(r) /\ ~Spoilt(f) /\ rstate = "run" => Carried(f)'
  PROVE  CopyInv'
<1>1. /\ \A s \in Runs : Live(s)' <=> Live(s)
      /\ Begun' <=> Begun
  BY DEF Live, Cancelled, Begun
<1>2. Live(r) => Begun
  BY DEF Live, Cancelled, Begun
<1>3. Fresh'
  BY <1>1, <1>2, FreshStep DEF CopyInv
<1>4. AptRequests \subseteq AptRequests'
  BY DEF AptRequests, Spoilt, Refused, Reached
<1>5. Tells
  BY <1>4 DEF Tells, Later
<1>6. ASSUME NEW g \in Files, ~Spoilt(g), rstate = "run" PROVE Carried(g)'
  <2>1. CASE g = f /\ Live(r)
    BY <1>6, <2>1
  <2>2. CASE ~(g = f /\ Live(r))
    <3>1. Still(g)
      <4>1. \A m : About(m, f) /\ g # f => ~About(m, g)
        BY DEF About
      <4>2. \A m \in AptRequests : m \in Requests
        BY DEF AptRequests
      <4>3. \A s \in Runs : Live(s)' =>
              Live(s) /\ task'[s][g] = task[s][g] /\ pos'[s][g] = pos[s][g]
        BY <1>1, <2>2
      <4>4. recvPos'[g] = recvPos[g]
        OBVIOUS
      <4>5. \/ toReceiver' = toReceiver
            \/ \E m \in Requests : ~About(m, g) /\ toReceiver' = Append(toReceiver, m)
        BY <4>1, <4>2, <2>2
      <4> QED
        BY <4>3, <4>4, <4>5 DEF Still
    <3> QED
      BY <1>6, <3>1, CarriedStill DEF CopyInv
  <2> QED
    BY <2>1, <2>2
<1> QED
  BY <1>3, <1>5, <1>6, SenderKeeps

\* What was reached is within the sender's file.
LEMMA ReachedWithin ==
  ASSUME Typed, NEW f \in Files, OnDisk(f), NEW n \in Nat, Reached(f, n)
  PROVE  n <= Len(Source[f])
<1>1. Len(Source[f]) \in Nat
  BY ReconnectAssumption
<1>2. disk[f] # NoFile => Len(disk[f]) \in Nat
  BY DEF Typed, TypeInv
<1> QED
  BY <1>1, <1>2 DEF OnDisk, Reached

\* Taking a confirm, or none, leaves the others where they are.
LEMMA ToldKeeps ==
  ASSUME Typed, NEW r \in Runs, NEW f \in Files,
         told' = told \/ told' = [told EXCEPT ![r][f] = None]
  PROVE  \A s \in Runs, g \in Files : told'[s][g] \in {told[s][g], None}
<1>1. ASSUME NEW c, told' = [told EXCEPT ![r][f] = c], NEW s \in Runs, NEW g \in Files
      PROVE  told'[s][g] = told[s][g] \/ told'[s][g] = c
  BY <1>1 DEF Typed, TypeInv
<1> QED
  BY <1>1

\* A task of a call, whether or not that is live.
LEMMA TaskCopy ==
  ASSUME Typed, Typed', OneCall, CopyInv, NEW r \in Runs, NEW f \in Files,
         SendSingleFile(r, f) \/ TaskFails(r, f)
  PROVE  CopyInv'
<1> SUFFICES ASSUME ReceiverStayed' PROVE CopyInv'
  BY DEF CopyInv
<1>1. /\ UNCHANGED <<connVars, runs, run, resume, confirmQ, toSender, receiverVars>>
      /\ task[r][f] # "none" /\ ReceiverStayed /\ Known
      /\ toReceiver \in Seq(Requests) /\ pos[r][f] \in Nat /\ recvPos[f] \in Nat
      /\ pos \in [Runs -> [Files -> Nat]] /\ Len(Source[f]) \in Nat
  <2>1. /\ UNCHANGED <<connVars, runs, run, resume, confirmQ, toSender, receiverVars>>
        /\ task[r][f] # "none" /\ ReceiverStayed
    BY DEF SendSingleFile, ResumeFile, RequestFile, FileKept, FileConfirmed, ConfirmTimeout,
           StreamCancelled, SendChunk, SendFileDone, TaskFails, Confirmed, InTask, ReceiverStayed
  <2> QED
    BY <2>1, ReconnectAssumption DEF CopyInv, Typed, TypeInv
<1>2. \A s \in Runs : Live(s)' => Live(s)
  BY <1>1 DEF Live, Cancelled
<1>3. ASSUME Live(r), ~Spoilt(f), rstate = "run"
      PROVE  /\ OnDisk(f)
             /\ \E b \in Nat : /\ LinkOf(toReceiver, f, recvPos[f], b)
                               /\ Sent(toReceiver, f, b, task[r][f], pos[r][f])
  BY <1>1, <1>3 DEF CopyInv, Carried, LinkOf
<1>4. ASSUME NEW b \in Nat, Live(r), LinkOf(toReceiver', f, recvPos[f], b),
             Sent(toReceiver', f, b, task'[r][f], pos'[r][f])
      PROVE  Carried(f)'
  BY <1>1, <1>2, <1>4, CarriedNow
<1>5. CASE FileKept(r, f) \/ ConfirmTimeout(r, f) \/ StreamCancelled(r, f) \/ TaskFails(r, f)
  <2>1. /\ toReceiver' = toReceiver /\ pos' = pos
        /\ Turn(r, f, "ok") \/ Turn(r, f, "failed")
        /\ told' = told \/ told' = [told EXCEPT ![r][f] = None]
    BY <1>5 DEF FileKept, ConfirmTimeout, StreamCancelled, TaskFails, Confirmed
  <2>2. /\ task'[r][f] \in {"ok", "failed"}
        /\ \A s \in Runs, g \in Files : s # r \/ g # f => task'[s][g] = task[s][g]
    BY <2>1, TurnType
  <2>3. \A s \in Runs, g \in Files : told'[s][g] \in {told[s][g], None}
    BY <2>1, ToldKeeps
  <2>4. ASSUME Live(r), ~Spoilt(f), rstate = "run" PROVE Carried(f)'
    <3>1. PICK b \in Nat : LinkOf(toReceiver, f, recvPos[f], b)
      BY <1>3, <2>4
    <3>2. Sent(toReceiver', f, b, task'[r][f], pos'[r][f])
      BY <2>2 DEF Sent
    <3> QED
      BY <1>4, <2>1, <2>4, <3>1, <3>2
  <2> QED
    BY <1>1, <2>1, <2>2, <2>3, <2>4, TaskKeeps
<1>6. CASE RequestFile(r, f)
  <2> DEFINE m == Msg("NewFileRequest", f, 0)
  <2>1. m \in AptRequests /\ IsRequest(m, f) /\ About(m, f)
    <3>1. m \in Requests /\ m.type = "NewFileRequest" /\ m.file = f
      BY FileMessages, MessageIs
    <3> QED
      BY <3>1, PlainApt DEF IsRequest, About, FileTypes
  <2>2. /\ Post(r, m) /\ Turn(r, f, "wait") /\ pos' = pos /\ told' = told
        /\ task[r][f] = "start"
    BY <1>6 DEF RequestFile, InTask
  <2> HIDE DEF m
  <2>3. /\ task'[r][f] = "wait"
        /\ \A s \in Runs, g \in Files : s # r \/ g # f => task'[s][g] = task[s][g]
    BY <2>2, TurnType
  <2>4. /\ Live(r) => toReceiver' = Append(toReceiver, m)
        /\ ~Live(r) => toReceiver' = toReceiver
    BY <1>1, <2>2, PostLive
  <2>5. ASSUME Live(r), ~Spoilt(f), rstate = "run" PROVE Carried(f)'
    <3>1. \A i \in DOMAIN toReceiver : ~About(toReceiver[i], f)
      BY <1>3, <2>2, <2>5 DEF Sent
    <3>2. LinkOf(toReceiver', f, recvPos[f], 0) /\ Sent(toReceiver', f, 0, "wait", pos'[r][f])
      BY <1>1, <2>1, <2>4, <2>5, <3>1, AppendRequest
    <3>3. 0 \in Nat
      OBVIOUS
    <3> QED
      BY <1>4, <2>3, <2>5, <3>2, <3>3
  <2> QED
    BY <1>1, <2>1, <2>2, <2>3, <2>4, <2>5, TaskKeeps
<1>7. ASSUME NEW n \in Nat, Post(r, Msg("BreakPoint", f, n)), Turn(r, f, "stream"),
             pos' = [pos EXCEPT ![r][f] = n], Spoilt(f) \/ Reached(f, n),
             \A s \in Runs, g \in Files : told'[s][g] \in {told[s][g], None},
             task[r][f] \in {"start", "wait"}
      PROVE  CopyInv'
  <2> DEFINE m == Msg("BreakPoint", f, n)
  <2>1. m \in AptRequests /\ IsPoint(m, f) /\ About(m, f) /\ m.n = n
    <3>1. m \in Requests /\ m.type = "BreakPoint" /\ m.file = f /\ m.n = n
      BY FileMessages, MessageIs
    <3> QED
      BY <1>7, <3>1 DEF AptRequests, IsPoint, About, FileTypes
  <2>2. Post(r, m)
    BY <1>7
  <2> HIDE DEF m
  <2>3. /\ task'[r][f] = "stream" /\ pos'[r][f] = n
        /\ \A s \in Runs, g \in Files :
             s # r \/ g # f => task'[s][g] = task[s][g] /\ pos'[s][g] = pos[s][g]
    BY <1>1, <1>7, TurnType
  <2>4. /\ Live(r) => toReceiver' = Append(toReceiver, m)
        /\ ~Live(r) => toReceiver' = toReceiver
    BY <1>1, <2>2, PostLive
  <2>5. ASSUME Live(r), ~Spoilt(f), rstate = "run" PROVE Carried(f)'
    <3>1. \A i \in DOMAIN toReceiver : About(toReceiver[i], f) => IsRequest(toReceiver[i], f)
      BY <1>3, <1>7, <2>5 DEF Sent
    <3>2. n <= Len(Source[f])
      BY <1>3, <1>7, <2>5, ReachedWithin
    <3>3. LinkOf(toReceiver', f, recvPos[f], n) /\ Sent(toReceiver', f, n, "stream", n)
      BY <1>1, <2>1, <2>4, <2>5, <3>1, <3>2, AppendPoint
    <3> QED
      BY <1>4, <2>3, <2>5, <3>3
  <2>6. \/ toReceiver' = toReceiver
        \/ Live(r) /\ \E k \in AptRequests : About(k, f) /\ toReceiver' = Append(toReceiver, k)
    BY <2>1, <2>4
  <2>7. \A s \in Runs, g \in Files :
          /\ s # r \/ g # f => task'[s][g] = task[s][g] /\ pos'[s][g] = pos[s][g]
          /\ told'[s][g] \in {told[s][g], None}
    BY <1>7, <2>3
  <2> QED
    BY <1>1, <2>5, <2>6, <2>7, TaskKeeps
<1>8. CASE ResumeFile(r, f)
  <2>1. /\ resume[r][f] \in Nat /\ (Spoilt(f) \/ Reached(f, resume[r][f]))
        /\ told' = told /\ task[r][f] = "start"
    BY <1>1, <1>8 DEF ResumeFile, InTask, Known, Typed, TypeInv
  <2> QED
    BY <1>7, <1>8, <2>1 DEF ResumeFile
<1>9. CASE FileConfirmed(r, f)
  <2>1. /\ told[r][f] \in AptConfirms /\ told[r][f].file = f /\ told[r][f].n \in Nat
        /\ told[r][f] \in Confirms
    BY <1>1, <1>9 DEF FileConfirmed, Confirmed, Known, AptConfirms, Confirms
  <2>2. \A s \in Runs, g \in Files : told'[s][g] \in {told[s][g], None}
    BY <1>9, ToldKeeps DEF FileConfirmed, Confirmed
  <2>3. CASE told[r][f].kind = "breakPoint" /\ told[r][f].accept
    <3>1. Spoilt(f) \/ Reached(f, told[r][f].n)
      BY <2>1 DEF AptConfirms, Apt
    <3> QED
      BY <1>7, <1>9, <2>1, <2>2, <2>3, <3>1 DEF FileConfirmed, Confirmed, InTask
  <2>4. CASE ~(told[r][f].kind = "breakPoint" /\ told[r][f].accept)
    <3>1. /\ toReceiver' = toReceiver /\ pos' = [pos EXCEPT ![r][f] = told[r][f].n]
          /\ Turn(r, f, "stream") /\ task[r][f] = "wait"
      BY <1>9, <2>4 DEF FileConfirmed, Confirmed, InTask
    <3>2. /\ task'[r][f] = "stream" /\ pos'[r][f] = told[r][f].n
          /\ \A s \in Runs, g \in Files :
               s # r \/ g # f => task'[s][g] = task[s][g] /\ pos'[s][g] = pos[s][g]
      BY <1>1, <2>1, <3>1, TurnType
    <3>3. ASSUME Live(r), ~Spoilt(f), rstate = "run" PROVE Carried(f)'
      <4>1. told[r][f].n = 0
        BY <2>1, <2>4, <3>3 DEF AptConfirms, Apt, Confirms, Spoilt
      <4>2. PICK b \in Nat : /\ LinkOf(toReceiver, f, recvPos[f], b)
                             /\ Sent(toReceiver, f, b, "wait", pos[r][f])
        BY <1>3, <3>1, <3>3
      <4>3. /\ b = 0
            /\ \A i \in DOMAIN toReceiver :
                 ~IsData(toReceiver[i], f) /\ ~IsEnd(toReceiver[i], f)
        BY <4>2, MessageIs DEF Sent
      <4>4. Sent(toReceiver, f, b, "stream", 0)
        BY <1>1, <4>3 DEF Sent, Upto
      <4> QED
        BY <1>4, <3>1, <3>2, <3>3, <4>1, <4>2, <4>4
    <3> QED
      BY <1>1, <2>2, <3>1, <3>2, <3>3, TaskKeeps
  <2> QED
    BY <2>3, <2>4
<1>10. CASE SendChunk(r, f)
  <2> DEFINE m == Msg("FileData", f, pos[r][f] + 1)
  <2>1. m \in AptRequests /\ IsData(m, f) /\ About(m, f) /\ m.n = pos[r][f] + 1
        /\ pos[r][f] + 1 <= Len(Source[f])
    <3>1. pos[r][f] + 1 \in 1..Len(Source[f]) /\ pos[r][f] + 1 \in Nat
      BY <1>1, <1>10 DEF SendChunk
    <3>2. m \in Requests /\ m.type = "FileData" /\ m.file = f /\ m.n = pos[r][f] + 1
      BY <3>1, FileMessages, MessageIs
    <3> QED
      BY <3>1, <3>2, PlainApt DEF IsData, About, FileTypes
  <2>2. /\ Post(r, m) /\ pos' = [pos EXCEPT ![r][f] = pos[r][f] + 1] /\ told' = told
        /\ task' = task /\ task[r][f] = "stream"
    BY <1>1, <1>10 DEF SendChunk, InTask
  <2> HIDE DEF m
  <2>3. /\ pos'[r][f] = pos[r][f] + 1
        /\ \A s \in Runs, g \in Files : s # r \/ g # f => pos'[s][g] = pos[s][g]
    BY <1>1, <2>2
  <2>4. /\ Live(r) => toReceiver' = Append(toReceiver, m)
        /\ ~Live(r) => toReceiver' = toReceiver
    BY <1>1, <2>2, PostLive
  <2>5. ASSUME Live(r), ~Spoilt(f), rstate = "run" PROVE Carried(f)'
    <3>1. PICK b \in Nat : /\ LinkOf(toReceiver, f, recvPos[f], b)
                           /\ Sent(toReceiver, f, b, "stream", pos[r][f])
      BY <1>3, <2>2, <2>5
    <3>2. /\ LinkOf(toReceiver', f, recvPos[f], b)
          /\ Sent(toReceiver', f, b, "stream", pos[r][f] + 1)
      BY <1>1, <2>1, <2>4, <2>5, <3>1, AppendData
    <3> QED
      BY <1>4, <2>2, <2>3, <2>5, <3>2
  <2>6. \/ toReceiver' = toReceiver
        \/ Live(r) /\ \E k \in AptRequests : About(k, f) /\ toReceiver' = Append(toReceiver, k)
    BY <2>1, <2>4
  <2>7. \A s \in Runs, g \in Files :
          /\ s # r \/ g # f => task'[s][g] = task[s][g] /\ pos'[s][g] = pos[s][g]
          /\ told'[s][g] \in {told[s][g], None}
    BY <2>2, <2>3
  <2> QED
    BY <1>1, <2>5, <2>6, <2>7, TaskKeeps
<1>11. CASE SendFileDone(r, f)
  <2> DEFINE m == Msg("FileDone", f, 0)
  <2>1. m \in AptRequests /\ IsEnd(m, f) /\ About(m, f)
    <3>1. m \in Requests /\ m.type = "FileDone" /\ m.file = f
      BY FileMessages, MessageIs
    <3> QED
      BY <3>1, PlainApt DEF IsEnd, About, FileTypes
  <2>2. /\ Post(r, m) /\ Turn(r, f, "ok") /\ pos' = pos /\ told' = told
        /\ task[r][f] = "stream" /\ pos[r][f] >= Len(Source[f])
    BY <1>11 DEF SendFileDone, InTask
  <2> HIDE DEF m
  <2>3. /\ task'[r][f] = "ok"
        /\ \A s \in Runs, g \in Files : s # r \/ g # f => task'[s][g] = task[s][g]
    BY <2>2, TurnType
  <2>4. /\ Live(r) => toReceiver' = Append(toReceiver, m)
        /\ ~Live(r) => toReceiver' = toReceiver
    BY <1>1, <2>2, PostLive
  <2>5. ASSUME Live(r), ~Spoilt(f), rstate = "run" PROVE Carried(f)'
    <3>1. PICK b \in Nat : /\ LinkOf(toReceiver, f, recvPos[f], b)
                           /\ Sent(toReceiver, f, b, "stream", pos[r][f])
      BY <1>3, <2>2, <2>5
    <3>2. pos[r][f] = Len(Source[f])
      BY <1>1, <2>2, <3>1 DEF Sent
    <3>3. LinkOf(toReceiver', f, recvPos[f], b)
      BY <1>1, <2>1, <2>4, <2>5, <3>1, <3>2, AppendEnd
    <3>4. Sent(toReceiver', f, b, "ok", pos'[r][f])
      BY DEF Sent
    <3> QED
      BY <1>4, <2>3, <2>5, <3>3, <3>4
  <2> QED
    BY <1>1, <2>1, <2>2, <2>3, <2>4, <2>5, TaskKeeps
<1> QED
  BY <1>5, <1>6, <1>8, <1>9, <1>10, <1>11 DEF SendSingleFile

-----------------------------------------------------------------------------
(* The receiver.                                                           *)

\* FileDone comes when the receiver is at the end of the file.
LEMMA TakeEnd ==
  ASSUME NEW q \in Seq(Requests), q # <<>>, NEW r, r = Tail(q), NEW f,
         IsEnd(Head(q), f), NEW p, NEW b, LinkOf(q, f, p, b)
  PROVE  /\ b = p /\ p = Len(Source[f]) /\ LinkOf(r, f, p, b)
         /\ \A s, k : Sent(q, f, b, s, k) => Sent(r, f, b, s, k)
<1>1. IsEnd(q[1], f) /\ ~IsData(Head(q), f) /\ 1 \in DOMAIN q
  BY MessageIs, TailParts
<1>2. b = p /\ Begins(r, f, p, p)
  BY TakeBody
<1>3. Len(Source[f]) = b
  <2>1. Upto(q, f, b, Len(Source[f]), 1 - 1)
    BY <1>1 DEF LinkOf, Flow
  <2> QED
    BY <2>1 DEF Upto
<1> QED
  BY <1>1, <1>2, <1>3, TailOrdered, TailFlow, TailSent DEF LinkOf

\* A step of the receiver or its user that is about the file f, if about any.
LEMMA ReceiverKeeps ==
  ASSUME Typed, Typed', CopyInv, ReceiverStayed, NEW f, UNCHANGED <<connVars, senderVars>>,
         \/ toReceiver' = toReceiver
         \/ /\ toReceiver # <<>> /\ toReceiver' = Tail(toReceiver)
            /\ \A g \in Files : About(Head(toReceiver), g) => g = f,
         Later(toSender, toSender', AptReplies'), Later(prompts, prompts', AptQuestions'),
         rstate' = "run" => rstate = "run",
         \A g \in Files \ {f} :
           /\ recvPos'[g] = recvPos[g] /\ disk'[g] = disk[g] /\ answers'[g] = answers[g]
           /\ g \in recvFiles' <=> g \in recvFiles
           /\ g \in finished' <=> g \in finished,
         f \in Files => answers[f] \subseteq answers'[f],
         f \in Files =>
           \/ Spoilt(f)'
           \/ /\ ~Spoilt(f)
              /\ disk[f] # NoFile => disk'[f] # NoFile /\ Len(disk[f]) <= Len(disk'[f])
              /\ OnDisk(f)' /\ (rstate' = "run" => Carried(f)')
  PROVE  CopyInv'
<1>1. Known /\ Fresh
  BY DEF CopyInv
<1>2. Grows
  <2>1. \A g \in Files : disk[g] # NoFile => Len(disk[g]) \in Nat
    BY DEF Typed, TypeInv
  <2>4. \A g \in Files : Refused(g) => Refused(g)'
    BY DEF Refused
  <2> SUFFICES ASSUME NEW g \in Files
               PROVE  \/ Spoilt(g)'
                      \/ /\ ~Spoilt(g)
                         /\ disk[g] # NoFile => disk'[g] # NoFile /\ Len(disk[g]) <= Len(disk'[g])
    BY <2>4 DEF Grows
  <2>2. CASE g = f
    BY <2>2
  <2>3. CASE g # f
    <3>1. disk'[g] = disk[g] /\ answers'[g] = answers[g]
      BY <2>3
    <3>2. Spoilt(g)' <=> Spoilt(g)
      BY <3>1 DEF Spoilt, Refused
    <3> QED
      BY <2>1, <3>1, <3>2
  <2> QED
    BY <2>2, <2>3
<1>3. Known'
  <2>1. Later(toReceiver, toReceiver', AptRequests')
    BY DEF Later
  <2>2. Tells
    BY <2>1 DEF Tells, Later
  <2> QED
    BY <1>1, <1>2, <2>2, KnownStep
<1>4. Fresh'
  <2>1. Begun' <=> Begun
    BY DEF Begun
  <2> QED
    BY <1>1, <2>1, FreshStep
<1>5. ASSUME NEW g \in Files \ {f}, ~Spoilt(g)'
      PROVE  OnDisk(g)' /\ (rstate' = "run" => Carried(g)')
  <2>1. ~Spoilt(g)
    BY <1>5 DEF Spoilt, Refused
  <2>2. OnDisk(g)'
    BY <2>1 DEF CopyInv, OnDisk, Reached
  <2>3. Still(g)
    BY DEF Still, Live, Cancelled
  <2> QED
    BY <2>1, <2>2, <2>3, CarriedStill DEF CopyInv
<1> QED
  BY <1>3, <1>4, <1>5 DEF CopyInv

\* What the receiver takes leaves the rest of what it is about in order.
LEMMA CarriedTaken ==
  ASSUME NEW f \in Files, UNCHANGED <<connVars, senderVars>>, NEW b \in Nat, NEW c \in Nat,
         LinkOf(toReceiver', f, recvPos'[f], c),
         \A r \in Runs : Live(r) => Sent(toReceiver, f, b, task[r][f], pos[r][f]),
         \A s, k : Sent(toReceiver, f, b, s, k) => Sent(toReceiver', f, c, s, k)
  PROVE  Carried(f)'
<1>1. \A r \in Runs : Live(r)' <=> Live(r)
  BY DEF Live, Cancelled
<1> QED
  BY <1>1 DEF Carried, LinkOf

\* The saved chunks are not more than there are.
LEMMA SavedChunksBound ==
  ASSUME NEW s \in Seq(Chunk)
  PROVE  SavedChunks(s) \in 0..Len(s)
<1> DEFINE S == {i \in 1..Len(s) : \E j \in i..Len(s) : s[j] # Zero}
<1>0. Len(s) \in Nat
  OBVIOUS
<1>1. IsFiniteSet(1..Len(s)) /\ Cardinality(1..Len(s)) = Len(s)
  BY <1>0, FS_Interval
<1>2. IsFiniteSet(S) /\ Cardinality(S) <= Cardinality(1..Len(s))
  BY <1>1, FS_Subset
<1> QED
  BY <1>0, <1>1, <1>2, FS_CardinalityType DEF SavedChunks

\* Writing the next chunk over or behind the ones that are there.
LEMMA WriteAtPrefix ==
  ASSUME NEW s \in Seq(Chunk), NEW t \in Seq(Chunk), NEW p \in Nat, p < Len(t),
         Len(s) <= Len(t), p <= Len(s), \A i \in 1..Len(s) : s[i] = t[i],
         NEW w, w = WriteAt(s, p, t[p + 1])
  PROVE  /\ w \in Seq(Chunk) /\ Len(s) <= Len(w) /\ p + 1 <= Len(w) /\ Len(w) <= Len(t)
         /\ \A i \in 1..Len(w) : w[i] = t[i]
<1> DEFINE n == IF p < Len(s) THEN Len(s) ELSE p + 1
           e(i) == IF i = p + 1 THEN t[p + 1] ELSE IF i <= Len(s) THEN s[i] ELSE Zero
<1>1. n \in Nat /\ Len(s) <= n /\ p + 1 <= n /\ n <= Len(t)
  OBVIOUS
<1>2. \A i \in 1..n : e(i) = t[i] /\ e(i) \in Chunk
  OBVIOUS
<1>3. w = [i \in 1..n |-> e(i)]
  BY DEF WriteAt
<1> HIDE DEF n, e
<1>4. w \in Seq(Chunk)
  <2>1. \A i \in 1..n : w[i] \in Chunk
    BY <1>2, <1>3
  <2> QED
    BY <1>1, <1>3, <2>1
<1>5. Len(w) = n /\ \A i \in 1..n : w[i] = t[i]
  BY <1>1, <1>2, <1>3, <1>4
<1> QED
  BY <1>1, <1>4, <1>5

\* The receiver's loop.
LEMMA ReceiverCopy ==
  ASSUME Typed, Typed', CopyInv, ReceiverLoop, ~ReceiverBack
  PROVE  CopyInv'
<1> SUFFICES ASSUME ReceiverStayed PROVE CopyInv'
  BY DEF CopyInv, ReceiverStayed, ReceiverLoop, RecvSendRequest, RecvResumeRequest, RecvDone,
         RecvNewFile, RecvExistingFile, RecvBreakPoint, RecvFileData, RecvFileDone
<1> DEFINE h == Head(toReceiver)
<1>1. /\ UNCHANGED <<connVars, senderVars, answers>> /\ rstate = "run"
      /\ toReceiver # <<>> /\ toReceiver' = Tail(toReceiver)
  BY DEF ReceiverLoop, RecvSendRequest, RecvResumeRequest, RecvDone, RecvNewFile,
         RecvExistingFile, RecvBreakPoint, RecvFileData, RecvFileDone, ReceivedFile, Received,
         ReceiverOn
<1>2. toReceiver \in Seq(Requests) /\ h \in AptRequests /\ Known
  BY <1>1, HeadTail DEF CopyInv, Known, Typed, TypeInv
<1>3. \A f \in Files : \A g : About(h, g) /\ About(h, f) => g = f
  BY DEF About
<1> HIDE DEF h
<1>4. CASE RecvSendRequest \/ RecvResumeRequest \/ RecvDone
  <2>1. \A g \in Files : ~About(h, g)
    BY <1>4 DEF RecvSendRequest, RecvResumeRequest, RecvDone, Received, About, FileTypes, h
  <2>2. UNCHANGED <<recvFiles, recvPos, disk, finished, rstate>>
    BY <1>4 DEF RecvSendRequest, RecvResumeRequest, RecvDone
  <2>3. Later(toSender, toSender', AptReplies') /\ Later(prompts, prompts', AptQuestions')
    <3>1. CASE RecvSendRequest
      <4>1. Reply("share", 0, FALSE, 0) \in AptQuestions'
        BY DEF AptQuestions, Questions, Reply
      <4> QED
        BY <3>1, <4>1 DEF RecvSendRequest, Ask, Later
    <3>2. CASE RecvResumeRequest
      <4> DEFINE had == [f \in Files |-> IF f \in recvFiles THEN recvPos[f] ELSE 0]
      <4>1. had \in [Files -> Nat]
        BY DEF Typed, TypeInv
      <4>2. \A f \in Files : (Spoilt(f) \/ Reached(f, had[f]))'
        BY <1>1, <2>2 DEF CopyInv, OnDisk, Reached, Spoilt, Refused
      <4>3. toSender' = Append(toSender, ResumeReply(had))
        BY <3>2 DEF RecvResumeRequest, ToSender
      <4>4. prompts' = prompts
        BY <3>2 DEF RecvResumeRequest
      <4>5. had' = had
        BY <2>2
      <4> HIDE DEF had
      <4>6. ResumeReply(had) \in AptResumes'
        BY <4>1, <4>2, <4>5 DEF ResumeReply, AptResumes, Resumes
      <4> QED
        BY <4>3, <4>4, <4>6 DEF Later, AptReplies
    <3>3. CASE RecvDone
      <4>1. Reply("done", 0, FALSE, 0) \in AptReplies'
        BY PlainApt DEF Signals, Reply
      <4> QED
        BY <3>3, <4>1 DEF RecvDone, ToSender, Later
    <3> QED
      BY <1>4, <3>1, <3>2, <3>3
  <2>4. 0 \notin Files
    BY DEF Files
  <2> QED
    BY <1>1, <2>1, <2>2, <2>3, <2>4, ReceiverKeeps DEF h
<1>5. ASSUME NEW f \in Files, About(h, f),
             Later(toSender, toSender', AptReplies'), Later(prompts, prompts', AptQuestions'),
             \A g \in Files \ {f} :
               /\ recvPos'[g] = recvPos[g] /\ disk'[g] = disk[g]
               /\ g \in recvFiles' <=> g \in recvFiles
               /\ g \in finished' <=> g \in finished,
             ~Spoilt(f) =>
               /\ disk[f] # NoFile => disk'[f] # NoFile /\ Len(disk[f]) <= Len(disk'[f])
               /\ OnDisk(f)' /\ (rstate' = "run" => Carried(f)')
      PROVE  CopyInv'
  <2>1. Spoilt(f)' <=> Spoilt(f)
    BY <1>1 DEF Spoilt, Refused
  <2>2. \A g \in Files : About(Head(toReceiver), g) => g = f
    BY <1>3, <1>5 DEF h
  <2> QED
    BY <1>1, <1>5, <2>1, <2>2, ReceiverKeeps
<1>6. ASSUME NEW f \in Files, ~Spoilt(f)
      PROVE  /\ OnDisk(f) /\ recvPos[f] \in Nat
             /\ \E b \in Nat :
                  /\ LinkOf(toReceiver, f, recvPos[f], b)
                  /\ \A r \in Runs : Live(r) => Sent(toReceiver, f, b, task[r][f], pos[r][f])
  BY <1>1, <1>6 DEF CopyInv, Carried, LinkOf, Typed, TypeInv
<1>7. ASSUME NEW f \in Files
      PROVE  disk[f] # NoFile => Len(disk[f]) \in Nat /\ disk[f] \in Seq(Chunk)
  BY DEF Typed, TypeInv
<1>8. ASSUME NEW f \in Files, RecvNewFile(f) PROVE CopyInv'
  <2>1. /\ IsRequest(h, f) /\ About(h, f) /\ disk[f] = NoFile
        /\ disk' = [disk EXCEPT ![f] = <<>>] /\ recvPos' = [recvPos EXCEPT ![f] = 0]
        /\ recvFiles' = recvFiles \cup {f} /\ finished' = finished /\ prompts' = prompts
        /\ toSender' = Append(toSender, Reply("newFile", f, TRUE, 0))
    BY <1>8 DEF RecvNewFile, ReceivedFile, Received, Open, ToSender, IsRequest, About, FileTypes, h
  <2>2. /\ disk'[f] = <<>> /\ recvPos'[f] = 0
        /\ \A g \in Files \ {f} : recvPos'[g] = recvPos[g] /\ disk'[g] = disk[g]
    BY <2>1 DEF Typed, TypeInv
  <2>3. Reply("newFile", f, TRUE, 0) \in AptConfirms'
    <3>1. /\ Reply("newFile", f, TRUE, 0) \in Confirms
          /\ Reply("newFile", f, TRUE, 0).accept /\ Reply("newFile", f, TRUE, 0).n = 0
      BY FileMessages DEF Reply
    <3> QED
      BY <3>1 DEF AptConfirms, Apt, Reached
  <2>4. ASSUME ~Spoilt(f) PROVE OnDisk(f)' /\ (rstate' = "run" => Carried(f)')
    <3>1. PICK b \in Nat :
            /\ LinkOf(toReceiver, f, recvPos[f], b)
            /\ \A r \in Runs : Live(r) => Sent(toReceiver, f, b, task[r][f], pos[r][f])
      BY <1>6, <2>4
    <3>2. /\ LinkOf(toReceiver', f, 0, b)
          /\ \A s, k : Sent(toReceiver, f, b, s, k) => Sent(toReceiver', f, b, s, k)
      BY <1>1, <1>2, <2>1, <3>1, TakeRequest DEF h
    <3>3. Carried(f)'
      BY <1>1, <2>2, <3>1, <3>2, CarriedTaken
    <3>4. f \notin finished
      BY <1>6, <2>1, <2>4 DEF OnDisk
    <3>5. <<>> # NoFile /\ Len(<<>>) = 0 /\ 1..0 = {} /\ 0 <= Len(Source[f])
      BY NewContent, ReconnectAssumption
    <3> QED
      BY <2>1, <2>2, <3>3, <3>4, <3>5 DEF OnDisk, Reached
  <2> QED
    BY <1>5, <2>1, <2>2, <2>3, <2>4 DEF Later, AptReplies
<1>9. ASSUME NEW f \in Files, RecvExistingFile(f) PROVE CopyInv'
  <2>1. /\ IsRequest(h, f) /\ About(h, f) /\ disk[f] # NoFile
        /\ disk' = disk /\ recvPos' = [recvPos EXCEPT ![f] = 0]
        /\ recvFiles' = recvFiles \cup {f} /\ finished' = finished /\ toSender' = toSender
    BY <1>9 DEF RecvExistingFile, ReceivedFile, Received, Open, IsRequest, About, FileTypes, h
  <2>2. /\ recvPos'[f] = 0
        /\ \A g \in Files \ {f} : recvPos'[g] = recvPos[g]
    BY <2>1 DEF Typed, TypeInv
  <2>3. \E m \in AptQuestions' : prompts' = Append(prompts, m)
    <3>1. PICK k \in {"newFile", "breakPoint"}, n \in 0..Len(disk[f]) :
            Ask(k, f, n) /\ (k = "newFile" => n = 0)
      <4>1. SavedChunks(disk[f]) \in 0..Len(disk[f]) /\ 0 \in 0..Len(disk[f])
        BY <1>7, <2>1, SavedChunksBound
      <4> QED
        BY <1>9, <4>1 DEF RecvExistingFile
    <3>2. /\ Reply(k, f, FALSE, n) \in Questions /\ Reply(k, f, FALSE, n).file = f
          /\ Reply(k, f, FALSE, n).n = n /\ Reply(k, f, FALSE, n).kind = k
      <4>1. /\ Reply(k, f, FALSE, n).file = f
            /\ Reply(k, f, FALSE, n).n = n /\ Reply(k, f, FALSE, n).kind = k
        BY DEF Reply
      <4>2. n \in Nat
        BY <1>7, <2>1
      <4> QED
        BY <4>1, <4>2, FileMessages DEF Questions
    <3>3. Reached(f, n)'
      BY <2>1, <3>1 DEF Reached
    <3>4. Reply(k, f, FALSE, n) \in AptQuestions'
      BY <3>1, <3>2, <3>3 DEF AptQuestions, Apt
    <3> QED
      BY <3>1, <3>4 DEF Ask
  <2>4. ASSUME ~Spoilt(f) PROVE OnDisk(f)' /\ (rstate' = "run" => Carried(f)')
    <3>1. PICK b \in Nat :
            /\ LinkOf(toReceiver, f, recvPos[f], b)
            /\ \A r \in Runs : Live(r) => Sent(toReceiver, f, b, task[r][f], pos[r][f])
      BY <1>6, <2>4
    <3>2. /\ LinkOf(toReceiver', f, 0, b)
          /\ \A s, k : Sent(toReceiver, f, b, s, k) => Sent(toReceiver', f, b, s, k)
      BY <1>1, <1>2, <2>1, <3>1, TakeRequest DEF h
    <3>3. Carried(f)'
      BY <1>1, <2>2, <3>1, <3>2, CarriedTaken
    <3> QED
      BY <1>6, <2>1, <2>2, <2>4, <3>3 DEF OnDisk, Reached
  <2>5. disk[f] # NoFile => disk'[f] # NoFile /\ Len(disk[f]) <= Len(disk'[f])
    BY <1>7, <2>1
  <2> QED
    BY <1>5, <2>1, <2>2, <2>3, <2>4, <2>5 DEF Later
<1>10. ASSUME NEW f \in Files, RecvBreakPoint(f) PROVE CopyInv'
  <2>1. /\ IsPoint(h, f) /\ About(h, f) /\ Lookup(f)
        /\ disk' = disk /\ recvPos' = [recvPos EXCEPT ![f] = h.n]
        /\ recvFiles' = recvFiles /\ finished' = finished /\ toSender' = toSender
        /\ prompts' = prompts
    BY <1>10 DEF RecvBreakPoint, ReceivedFile, Received, IsPoint, About, FileTypes, h
  <2>2. /\ recvPos'[f] = h.n
        /\ \A g \in Files \ {f} : recvPos'[g] = recvPos[g]
    BY <2>1 DEF Typed, TypeInv
  <2>3. ASSUME ~Spoilt(f) PROVE OnDisk(f)' /\ (rstate' = "run" => Carried(f)')
    <3>1. PICK b \in Nat :
            /\ LinkOf(toReceiver, f, recvPos[f], b)
            /\ \A r \in Runs : Live(r) => Sent(toReceiver, f, b, task[r][f], pos[r][f])
      BY <1>6, <2>3
    <3>2. /\ b = h.n /\ LinkOf(toReceiver', f, b, b)
          /\ \A s, k : Sent(toReceiver, f, b, s, k) => Sent(toReceiver', f, b, s, k)
      BY <1>1, <1>2, <2>1, <3>1, TakePoint DEF h
    <3>3. Carried(f)'
      BY <1>1, <2>2, <3>1, <3>2, CarriedTaken
    <3>4. Reached(f, h.n)
      BY <1>2, <2>1, <2>3 DEF AptRequests, IsPoint
    <3> QED
      BY <1>6, <2>1, <2>2, <2>3, <3>3, <3>4 DEF OnDisk, Reached
  <2>4. disk[f] # NoFile => disk'[f] # NoFile /\ Len(disk[f]) <= Len(disk'[f])
    BY <1>7, <2>1
  <2> QED
    BY <1>5, <2>1, <2>2, <2>3, <2>4 DEF Later
<1>11. ASSUME NEW f \in Files, RecvFileData(f) PROVE CopyInv'
  <2>1. /\ IsData(h, f) /\ About(h, f) /\ Lookup(f)
        /\ recvFiles' = recvFiles /\ finished' = finished /\ toSender' = toSender
        /\ prompts' = prompts
    BY <1>11 DEF RecvFileData, ReceivedFile, Received, IsData, About, FileTypes, h
  <2>2. CASE f \notin recvFiles
    <3>1. UNCHANGED <<disk, recvPos>> /\ rstate' # "run"
      BY <1>11, <2>1, <2>2 DEF RecvFileData, Lookup
    <3>2. disk[f] # NoFile => disk'[f] # NoFile /\ Len(disk[f]) <= Len(disk'[f])
      BY <1>7, <3>1
    <3>3. ~Spoilt(f) => OnDisk(f)'
      BY <1>6, <2>1, <3>1 DEF OnDisk, Reached
    <3> QED
      BY <1>5, <2>1, <3>1, <3>2, <3>3 DEF Later
  <2>3. CASE f \in recvFiles
    <3>1. /\ disk' = [disk EXCEPT ![f] = WriteAt(disk[f], recvPos[f], Source[f][h.n])]
          /\ recvPos' = [recvPos EXCEPT ![f] = recvPos[f] + 1]
      BY <1>11, <2>3 DEF RecvFileData, h
    <3>2. /\ disk'[f] = WriteAt(disk[f], recvPos[f], Source[f][h.n])
          /\ recvPos'[f] = recvPos[f] + 1 /\ disk[f] \in Seq(Chunk) /\ disk[f] # NoFile
          /\ \A g \in Files \ {f} : recvPos'[g] = recvPos[g] /\ disk'[g] = disk[g]
      <4>1. \A w : disk' = [disk EXCEPT ![f] = w] =>
                     disk'[f] = w /\ \A g \in Files \ {f} : disk'[g] = disk[g]
        BY DEF Typed, TypeInv
      <4> QED
        BY <2>3, <3>1, <4>1 DEF Typed, TypeInv
    <3>3. ASSUME ~Spoilt(f)
          PROVE  /\ Len(disk[f]) <= Len(disk'[f]) /\ disk'[f] # NoFile
                 /\ OnDisk(f)' /\ Carried(f)'
      <4>1. PICK b \in Nat :
              /\ LinkOf(toReceiver, f, recvPos[f], b)
              /\ \A r \in Runs : Live(r) => Sent(toReceiver, f, b, task[r][f], pos[r][f])
        BY <1>6, <3>3
      <4>2. /\ h.n = recvPos[f] + 1 /\ LinkOf(toReceiver', f, recvPos[f] + 1, recvPos[f] + 1)
            /\ \A s, k : Sent(toReceiver, f, b, s, k) => Sent(toReceiver', f, recvPos[f] + 1, s, k)
        BY <1>1, <1>2, <1>6, <2>1, <3>3, <4>1, TakeData DEF h
      <4>3. recvPos[f] + 1 \in Nat
        BY <1>6, <3>3
      <4>4. Carried(f)'
        BY <1>1, <3>2, <4>1, <4>2, <4>3, CarriedTaken
      <4>5. /\ Source[f] \in Seq(Chunk) /\ Len(Source[f]) \in Nat /\ Len(disk[f]) \in Nat
            /\ recvPos[f] \in Nat
        BY <1>6, <3>2, <3>3, ReconnectAssumption
      <4>6. /\ recvPos[f] <= Len(disk[f]) /\ Len(disk[f]) <= Len(Source[f])
            /\ \A i \in 1..Len(disk[f]) : disk[f][i] = Source[f][i]
            /\ f \in finished => Len(disk[f]) = Len(Source[f])
        BY <1>6, <2>3, <3>2, <3>3, <4>5 DEF OnDisk, Reached
      <4>7. recvPos[f] < Len(Source[f])
        <5>1. h.n \in 1..Len(Source[f])
          BY <1>2, <2>1 DEF AptRequests, Requests, IsData, FileTypes
        <5> QED
          BY <4>2, <4>5, <5>1
      <4>8. /\ disk'[f] \in Seq(Chunk) /\ Len(disk[f]) <= Len(disk'[f])
            /\ recvPos[f] + 1 <= Len(disk'[f]) /\ Len(disk'[f]) <= Len(Source[f])
            /\ \A i \in 1..Len(disk'[f]) : disk'[f][i] = Source[f][i]
        <5> DEFINE s == disk[f]  t == Source[f]  p == recvPos[f]  w == disk'[f]
        <5>1. /\ s \in Seq(Chunk) /\ t \in Seq(Chunk) /\ p \in Nat /\ p < Len(t)
              /\ Len(s) <= Len(t) /\ p <= Len(s) /\ \A i \in 1..Len(s) : s[i] = t[i]
              /\ w = WriteAt(s, p, t[p + 1])
          BY <3>2, <4>2, <4>5, <4>6, <4>7
        <5> HIDE DEF s, t, p, w
        <5>2. /\ w \in Seq(Chunk) /\ Len(s) <= Len(w) /\ p + 1 <= Len(w) /\ Len(w) <= Len(t)
              /\ \A i \in 1..Len(w) : w[i] = t[i]
          BY <5>1, WriteAtPrefix
        <5> QED
          BY <5>2 DEF s, t, p, w
      <4>9. disk'[f] # NoFile /\ Len(disk'[f]) \in Nat
        BY <4>8, NewContent
      <4>10. OnDisk(f)'
        BY <2>1, <3>2, <4>5, <4>6, <4>8, <4>9 DEF OnDisk, Reached
      <4> QED
        BY <4>4, <4>8, <4>9, <4>10
    <3> QED
      BY <1>5, <2>1, <3>2, <3>3 DEF Later
  <2> QED
    BY <2>2, <2>3
<1>12. ASSUME NEW f \in Files, RecvFileDone(f) PROVE CopyInv'
  <2>1. /\ IsEnd(h, f) /\ About(h, f) /\ Lookup(f)
        /\ recvFiles' = recvFiles \ {f} /\ finished' = finished \cup (recvFiles \cap {f})
        /\ UNCHANGED <<toSender, prompts, disk, recvPos>>
    BY <1>12 DEF RecvFileDone, ReceivedFile, Received, IsEnd, About, FileTypes, h
  <2>2. ASSUME ~Spoilt(f) PROVE OnDisk(f)' /\ Carried(f)'
    <3>1. PICK b \in Nat :
            /\ LinkOf(toReceiver, f, recvPos[f], b)
            /\ \A r \in Runs : Live(r) => Sent(toReceiver, f, b, task[r][f], pos[r][f])
      BY <1>6, <2>2
    <3>2. /\ recvPos[f] = Len(Source[f]) /\ LinkOf(toReceiver', f, recvPos[f], b)
          /\ \A s, k : Sent(toReceiver, f, b, s, k) => Sent(toReceiver', f, b, s, k)
      BY <1>1, <1>2, <2>1, <3>1, TakeEnd DEF h
    <3>3. Carried(f)'
      BY <1>1, <2>1, <3>1, <3>2, CarriedTaken
    <3>4. f \in recvFiles => disk[f] # NoFile /\ Len(disk[f]) = Len(Source[f])
      <4>1. f \in recvFiles => disk[f] # NoFile
        BY DEF Typed, TypeInv
      <4> QED
        BY <1>6, <1>7, <2>2, <3>2, <4>1 DEF OnDisk, Reached
    <3> QED
      BY <1>6, <2>1, <2>2, <3>3, <3>4 DEF OnDisk, Reached
  <2>3. disk[f] # NoFile => disk'[f] # NoFile /\ Len(disk[f]) <= Len(disk'[f])
    BY <1>7, <2>1
  <2> QED
    BY <1>5, <2>1, <2>2, <2>3 DEF Later
<1> QED
  BY <1>4, <1>8, <1>9, <1>10, <1>11, <1>12 DEF ReceiverLoop

\* The user's answers: a file is either refused or left alone.
LEMMA UserCopy ==
  ASSUME Typed, Typed', CopyInv, User
  PROVE  CopyInv'
<1> SUFFICES ASSUME ReceiverStayed PROVE CopyInv'
  BY DEF CopyInv, ReceiverStayed, User, AnswerShare, AnswerDuplicate, AnswerBreakPoint
<1> DEFINE h == Head(prompts)
<1>1. /\ UNCHANGED <<connVars, senderVars, toReceiver, finished, rstate>>
      /\ prompts # <<>> /\ prompts' = Tail(prompts)
  BY DEF User, AnswerShare, AnswerDuplicate, AnswerBreakPoint, Answered
<1>2. h \in AptQuestions /\ Later(prompts, prompts', AptQuestions')
  BY <1>1, HeadTail DEF CopyInv, Known, Later
<1>3. \A f \in Files : disk[f] # NoFile => Len(disk[f]) \in Nat
  BY DEF Typed, TypeInv
<1> HIDE DEF h
<1>4. ASSUME NEW a \in BOOLEAN, AnswerShare(a) PROVE CopyInv'
  <2>1. /\ UNCHANGED <<answers, recvFiles, recvPos, disk>>
        /\ toSender' = Append(toSender, Reply("share", 0, a, 0))
    BY <1>4 DEF AnswerShare, ToSender
  <2>2. Reply("share", 0, a, 0) \in AptReplies'
    <3>1. Reply("share", 0, a, 0) \in Signals
      BY DEF Signals, Reply
    <3> QED
      BY <3>1, PlainApt
  <2>3. 0 \notin Files
    BY DEF Files
  <2> QED
    BY <1>1, <1>2, <2>1, <2>2, <2>3, ReceiverKeeps DEF Later
<1>5. ASSUME NEW a \in BOOLEAN, AnswerDuplicate(a) \/ AnswerBreakPoint(a) PROVE CopyInv'
  <2>1. PICK f \in Files : /\ f = h.file
                           /\ h.kind \in {"newFile", "breakPoint"} /\ h \in Confirms
                           /\ h.n \in Nat /\ (Spoilt(f) \/ Apt(h))
    <3>1. h.kind \in {"newFile", "breakPoint"}
      BY <1>5 DEF AnswerDuplicate, AnswerBreakPoint, Answered, h
    <3> QED
      BY <1>2, <3>1 DEF AptQuestions, Questions, Reply, Confirms
  <2>2. answers' = [answers EXCEPT ![f] = answers[f] \cup {a}]
    BY <1>5, <2>1 DEF AnswerDuplicate, AnswerBreakPoint, Note, h
  <2>3. /\ answers'[f] = answers[f] \cup {a}
        /\ \A g \in Files \ {f} : answers'[g] = answers[g]
    BY <2>1, <2>2 DEF Typed, TypeInv
  <2>4. PICK m \in Confirms :
          /\ toSender' = Append(toSender, m) /\ m.file = f
          /\ a => m.accept /\ m.n = h.n /\ m.kind = h.kind
    <3>1. CASE AnswerDuplicate(a)
      <4> DEFINE m == [h EXCEPT !.accept = a]
      <4>1. m \in Confirms /\ m.file = h.file /\ m.n = h.n /\ m.kind = h.kind /\ m.accept = a
        BY <2>1 DEF Confirms
      <4>2. toSender' = Append(toSender, m)
        BY <3>1 DEF AnswerDuplicate, ToSender, h
      <4> HIDE DEF m
      <4> QED
        BY <2>1, <4>1, <4>2
    <3>2. CASE AnswerBreakPoint(a)
      <4> DEFINE m == Reply("breakPoint", f, a, IF a THEN h.n ELSE 0)
      <4>1. m \in Confirms
        <5>1. (IF a THEN h.n ELSE 0) \in Nat
          BY <2>1
        <5> QED
          BY <5>1, FileMessages
      <4>2. m.file = f /\ (a => m.accept /\ m.n = h.n /\ m.kind = "breakPoint")
        BY DEF Reply
      <4>3. toSender' = Append(toSender, m) /\ h.kind = "breakPoint"
        BY <2>1, <3>2 DEF AnswerBreakPoint, Answered, ToSender, h
      <4> HIDE DEF m
      <4> QED
        BY <4>1, <4>2, <4>3
    <3> QED
      BY <1>5, <3>1, <3>2
  <2>5. CASE ~a
    <3>1. Spoilt(f)' /\ Refused(f)'
      BY <2>3, <2>5 DEF Spoilt, Refused
    <3>2. Later(toSender, toSender', AptReplies')
      BY <2>4, <3>1 DEF Later, AptReplies, AptConfirms
    <3>3. \A g \in Files \ {f} : /\ recvPos'[g] = recvPos[g] /\ disk'[g] = disk[g]
                                 /\ g \in recvFiles' <=> g \in recvFiles
      BY <1>5, <2>1 DEF AnswerDuplicate, AnswerBreakPoint, Typed, TypeInv, h
    <3> QED
      BY <1>1, <1>2, <2>3, <3>1, <3>2, <3>3, ReceiverKeeps
  <2>6. CASE a
    <3>1. UNCHANGED <<recvFiles, disk, recvPos>>
      BY <1>5, <2>6 DEF AnswerDuplicate, AnswerBreakPoint
    <3>2. (Spoilt(f)' <=> Spoilt(f)) /\ (Refused(f)' <=> Refused(f))
      <4>1. mixed' = mixed
        BY <1>5 DEF AnswerDuplicate, AnswerBreakPoint
      <4>2. FALSE \in answers'[f] <=> FALSE \in answers[f]
        BY <2>3, <2>6
      <4> QED
        BY <4>1, <4>2 DEF Spoilt, Refused
    <3>3. m \in AptConfirms'
      <4>1. CASE Spoilt(f)
        BY <2>4, <2>6, <3>2, <4>1 DEF AptConfirms
      <4>2. CASE Apt(h)
        <5>1. (m.kind = "newFile" => m.n = 0) /\ Reached(f, m.n) /\ m.accept
          BY <2>1, <2>4, <2>6, <4>2 DEF Apt
        <5>2. Reached(f, m.n)'
          BY <3>1, <5>1 DEF Reached
        <5> QED
          BY <2>4, <5>1, <5>2 DEF AptConfirms, Apt
      <4> QED
        BY <2>1, <4>1, <4>2
    <3>4. ~Spoilt(f) => OnDisk(f)' /\ (rstate' = "run" => Carried(f)')
      <4>1. ASSUME ~Spoilt(f) PROVE OnDisk(f)'
        BY <1>1, <2>1, <3>1, <4>1 DEF CopyInv, OnDisk, Reached
      <4>2. ASSUME ~Spoilt(f), rstate' = "run" PROVE Carried(f)'
        <5>1. Carried(f) /\ Still(f)
          BY <1>1, <2>1, <3>1, <4>2 DEF CopyInv, Still, Live, Cancelled
        <5> QED
          BY <2>1, <5>1, CarriedStill
      <4> QED
        BY <4>1, <4>2
    <3> QED
      BY <1>1, <1>2, <1>3, <2>1, <2>3, <2>4, <3>1, <3>2, <3>3, <3>4, ReceiverKeeps
         DEF Later, AptReplies
  <2> QED
    BY <2>5, <2>6
<1> QED
  BY <1>4, <1>5 DEF User

\* At the beginning nothing is there, and nothing on the links.
LEMMA CopyInit == Init => CopyInv
<1> SUFFICES ASSUME Init PROVE CopyInv
  OBVIOUS
<1>1. /\ toReceiver = <<>> /\ confirmQ = <<>> /\ prompts = <<>>
      /\ toSender = <<Reply("ready", 0, FALSE, 0)>>
      /\ runs = 0 /\ recvFiles = {} /\ finished = {}
  BY DEF Init
<1>2. toSender \in Seq(AptReplies)
  <2>1. Reply("ready", 0, FALSE, 0) \in AptReplies
    <3>1. Reply("ready", 0, FALSE, 0) \in Signals
      BY DEF Signals, Reply
    <3> QED
      BY <3>1, PlainApt
  <2>2. \A m \in AptReplies : <<m>> \in Seq(AptReplies)
    OBVIOUS
  <2> QED
    BY <1>1, <2>1, <2>2, Zenon
<1>3. \A S : <<>> \in Seq(S)
  OBVIOUS
<1>4. Known
  <2>1. \A r \in Runs, f \in Files : resume[r][f] = 0 /\ told[r][f] = None
    BY DEF Init
  <2> QED
    BY <1>1, <1>2, <1>3, <2>1 DEF Known, Reached
<1>5. Fresh
  BY <1>1 DEF Fresh
<1>6. ASSUME NEW f \in Files PROVE OnDisk(f)
  BY <1>1 DEF OnDisk, Init
<1>7. ASSUME NEW f \in Files PROVE Carried(f)
  <2>1. recvPos[f] = 0 /\ DOMAIN <<>> = {} /\ 0 \in Nat
    BY DEF Init
  <2>2. Begins(<<>>, f, 0, 0) /\ Ordered(<<>>, f) /\ Flow(<<>>, f, 0)
    BY <2>1 DEF Begins, Ordered, Flow
  <2>3. \A r \in Runs : ~Live(r)
    BY <1>1 DEF Live, Runs
  <2> QED
    BY <1>1, <2>1, <2>2, <2>3 DEF Carried
<1> QED
  BY <1>4, <1>5, <1>6, <1>7 DEF CopyInv

\* Every step keeps the contents.
LEMMA CopyNext ==
  ~EarlyLoss /\ Typed /\ OneCall /\ LateCalm /\ Spawned /\ CopyInv /\ [Next]_vars => CopyInv'
<1> SUFFICES ASSUME ~EarlyLoss, Typed, OneCall, LateCalm, Spawned, CopyInv, [Next]_vars
             PROVE  CopyInv'
  OBVIOUS
<1>0. Typed'
  BY TypedNext
<1>1. CASE UNCHANGED vars
  <2>1. Tells /\ \A f \in Files : Still(f)
    BY <1>1 DEF vars, Tells, Later, Still, Live, Cancelled
  <2>2. Begun' <=> Begun
    BY <1>1 DEF vars, Begun
  <2>3. (ReceiverStayed' <=> ReceiverStayed) /\ (Fresh => Fresh')
    BY <1>1, <2>2 DEF vars, ReceiverStayed, Fresh
  <2>4. UNCHANGED <<rlink, mixed, answers, recvFiles, recvPos, disk, finished, rstate>>
    BY <1>1 DEF vars
  <2>5. CASE ReceiverStayed
    BY <1>0, <2>1, <2>3, <2>4, <2>5, SenderKeeps, CarriedStill DEF CopyInv
  <2> QED
    BY <2>3, <2>5 DEF CopyInv
<1>2. CASE Connections \/ ReceiverBack
  BY <1>0, <1>2, ConnectionsCopy
<1>3. CASE SenderLoop \/ ClientEnds
  BY <1>0, <1>3, ConnectionsCopy, LoopCopy DEF SenderLoop
<1>4. CASE ReceiverLoop /\ ~ReceiverBack
  BY <1>0, <1>4, ReceiverCopy
<1>5. CASE User
  BY <1>0, <1>5, UserCopy
<1>6. ASSUME NEW r \in Runs, SendFiles(r) PROVE CopyInv'
  BY <1>0, <1>6, SendFilesCopy
<1>7. ASSUME NEW r \in Runs, NEW f \in Files, SendSingleFile(r, f) \/ TaskFails(r, f) PROVE CopyInv'
  BY <1>0, <1>7, TaskCopy
<1> QED
  BY <1>1, <1>2, <1>3, <1>4, <1>5, <1>6, <1>7 DEF Next

\* What holds of every reachable state.
Copying == Typed /\ OneCall /\ LateCalm /\ Spawned /\ CopyInv

LEMMA CopyingAlways == ASSUME ~EarlyLoss PROVE Spec => []Copying
<1>1. Init => Copying
  BY TypedInit, OneCallInit, SpawnedInit, CopyInit DEF Copying, LateCalm, Init
<1>2. Copying /\ [Next]_vars => Copying'
  BY TypedNext, OneCallNext, LateCalmNext, SpawnedNext, CopyNext DEF Copying
<1> QED
  BY <1>1, <1>2, PTL DEF Spec

\* As long as the receiver keeps its connection, and the sender loses none before it
\* has started to send on it, the progress of an open file is progress: so much of it
\* is the sender's, however often it was begun, cancelled and resumed, and whatever the
\* relay hands on late of other files (RecvFile in receiver.rs).  A file
\* of which a late message did arrive is left out: MCReconnect_sender shows it spoilt.
THEOREM OpenIsPrefix == ASSUME ~EarlyLoss PROVE Spec => []ReceivedIsPrefix
<1>1. Copying => ReceivedIsPrefix
  <2> SUFFICES ASSUME Copying, ReceiverStayed, NEW f \in recvFiles \ mixed, ~Refused(f)
               PROVE  /\ recvPos[f] <= Len(Source[f]) /\ recvPos[f] <= Len(disk[f])
                      /\ SubSeq(disk[f], 1, recvPos[f]) = SubSeq(Source[f], 1, recvPos[f])
    BY DEF ReceivedIsPrefix
  <2>1. /\ f \in Files /\ OnDisk(f) /\ recvPos[f] \in Nat
        /\ disk[f] \in Seq(Chunk) /\ disk[f] # NoFile /\ Source[f] \in Seq(Chunk)
    BY ReconnectAssumption DEF Copying, Typed, TypeInv, CopyInv, Spoilt
  <2>2. /\ recvPos[f] <= Len(disk[f]) /\ Len(disk[f]) <= Len(Source[f])
        /\ \A i \in 1..Len(disk[f]) : disk[f][i] = Source[f][i]
    BY <2>1 DEF OnDisk, Reached
  <2> QED
    BY <2>1, <2>2
<1> QED
  BY <1>1, CopyingAlways, PTL

\* Under the same conditions, that a late message of the file itself leaves it out
\* included, a file that was reported finished is the sender's file, and stays so when
\* a later call has it transferred again.
THEOREM FinishedStays == ASSUME ~EarlyLoss PROVE Spec => []FinishedStaysSource
<1>1. Copying => FinishedStaysSource
  <2> SUFFICES ASSUME Copying, ReceiverStayed, NEW f \in finished \ mixed, ~Refused(f)
               PROVE  disk[f] = Source[f]
    BY DEF FinishedStaysSource
  <2>1. /\ f \in Files /\ OnDisk(f) /\ disk[f] # NoFile /\ disk[f] \in Seq(Chunk)
        /\ Source[f] \in Seq(Chunk)
    BY ReconnectAssumption DEF Copying, Typed, TypeInv, CopyInv, OnDisk, Spoilt
  <2>2. Len(disk[f]) = Len(Source[f]) /\ \A i \in 1..Len(disk[f]) : disk[f][i] = Source[f][i]
    BY <2>1 DEF OnDisk
  <2> QED
    BY <2>1, <2>2, SeqEqual
<1> QED
  BY <1>1, CopyingAlways, PTL

-----------------------------------------------------------------------------
(* The end: Done comes behind the FileDone of every file.                  *)

Settled(f) == f \in finished \/ Refused(f)

\* FileDone is among the first i messages of q.
Ends(q, f, i) == \E j \in 1..i : IsEnd(q[j], f)

\* The user did not accept the share, and is not asked again.
Rejected == ~accepted /\ client = "ended" /\ Quiet

\* Once the share is accepted, nothing asks about it or rejects it any more.
Refusing == {m \in Replies : m.kind = "ready" \/ (m.kind = "share" /\ ~m.accept)}
Inviting == {m \in Requests : m.type = "SendRequest"}
Decided ==
  ReceiverStayed /\ accepted =>
    Clear(toSender, Refusing) /\ Clear(toReceiver, Inviting) /\ Clear(prompts, Sharing)

\* Files that a live call has done with, and files before a Done, are settled or
\* will be by a FileDone; those of a share whose Done was received are settled.
Over == (\E i \in DOMAIN toSender : toSender[i].kind = "done") \/ completed \/ receiveDone
FileEnds(f) ==
  /\ rstate = "run" =>
       /\ \A r \in Runs : Live(r) /\ task[r][f] = "ok" =>
            Settled(f) \/ Ends(toReceiver, f, Len(toReceiver))
       /\ \A i \in DOMAIN toReceiver :
            toReceiver[i].type = "Done" => Rejected \/ Settled(f) \/ Ends(toReceiver, f, i)
  /\ Over => Rejected \/ Settled(f)

\* A call waits for its tasks after it has started all of them.
EndInv ==
  ReceiverStayed /\ 0 \notin mixed =>
    /\ \A r \in Runs : Live(r) /\ run[r].pc = "join" => run[r].next > NumFiles
    /\ \A f \in Files : FileEnds(f)

\* What a step leaves of the links when it leads to no call.
CallsNothing ==
  /\ Later(toReceiver, toReceiver', Requests \ Asking)
  /\ Later(toSender, toSender', Replies \ Rising)
  /\ Later(prompts, prompts', Confirms) /\ accepted' = accepted

LEMMA LaterClear ==
  ASSUME NEW T, NEW q \in Seq(T), NEW S, NEW U, S \cap U = {}, NEW r, Later(q, r, S), Clear(q, U)
  PROVE  Clear(r, U)
<1>1. CASE r = q \/ r = <<>>
  BY <1>1 DEF Clear
<1>2. CASE q # <<>> /\ r = Tail(q)
  BY <1>2, TailMarks DEF Fewer
<1>3. CASE \E m \in S : r = Append(q, m)
  BY <1>3 DEF Clear
<1>4. CASE \E n \in 0..Len(q) : r = SubSeq(q, 1, n)
  BY <1>4, PrefixMarks
<1> QED
  BY <1>1, <1>2, <1>3, <1>4 DEF Later

\* A task or send_files asks for nothing.
LEMMA SendersAskNothing ==
  ASSUME Typed, NEW r \in Runs,
         SendFiles(r) \/ \E f \in Files : SendSingleFile(r, f) \/ TaskFails(r, f)
  PROVE  CallsNothing
<1>1. UNCHANGED <<toSender, prompts, accepted>>
  BY DEF SendFiles, NextFile, SpawnTask, JoinTasks, Dispatch, SendSingleFile, ResumeFile,
         RequestFile, FileKept, FileConfirmed, ConfirmTimeout, StreamCancelled, SendChunk,
         SendFileDone, TaskFails
<1>2. \A m \in Requests : m.type \in FileTypes \cup {"Done"} => m \in Requests \ Asking
  BY DEF Asking, FileTypes
<1>3. toReceiver' = toReceiver \/ \E m \in Requests \ Asking : Post(r, m)
  <2>1. Msg("Done", 0, 0) \in Requests /\ Msg("Done", 0, 0).type = "Done"
    BY PlainMessages, MessageIs
  <2>2. CASE SendFiles(r)
    BY <1>2, <2>1, <2>2 DEF SendFiles, NextFile, SpawnTask, JoinTasks, Dispatch
  <2>3. ASSUME NEW f \in Files, SendSingleFile(r, f) \/ TaskFails(r, f)
        PROVE  toReceiver' = toReceiver \/ \E m \in Requests \ Asking : Post(r, m)
    <3>1. \A n \in Nat : /\ Msg("NewFileRequest", f, n) \in Requests \ Asking
                         /\ Msg("BreakPoint", f, n) \in Requests \ Asking
                         /\ Msg("FileDone", f, n) \in Requests \ Asking
                         /\ n \in 1..Len(Source[f]) => Msg("FileData", f, n) \in Requests \ Asking
      BY <1>2, FileMessages, MessageIs DEF FileTypes
    <3>2. resume[r][f] \in Nat /\ pos[r][f] \in Nat /\ Len(Source[f]) \in Nat
      BY ReconnectAssumption DEF Typed, TypeInv
    <3>3. FileConfirmed(r, f) => told[r][f].n \in Nat
      BY DEF FileConfirmed, Confirmed, Typed, TypeInv, Confirms
    <3>4. SendChunk(r, f) => pos[r][f] + 1 \in 1..Len(Source[f]) /\ pos[r][f] + 1 \in Nat
      BY <3>2 DEF SendChunk
    <3> QED
      BY <2>3, <3>1, <3>2, <3>3, <3>4
         DEF SendSingleFile, ResumeFile, RequestFile, FileKept, FileConfirmed, ConfirmTimeout,
             StreamCancelled, SendChunk, SendFileDone, TaskFails
  <2> QED
    BY <2>2, <2>3
<1> QED
  BY <1>1, <1>3 DEF CallsNothing, Later, Post, ToReceiver

\* Neither does any other step, but for those that pass a request for a call on.
LEMMA NothingAsked ==
  ASSUME Typed, LateCalm, ReceiverStayed, ReceiverStayed', [Next]_vars,
         ~(Joined \/ Ready \/ RecvSendRequest \/ RecvResumeRequest),
         \A a \in BOOLEAN : ~AnswerShare(a)
  PROVE  CallsNothing
<1>1. CASE UNCHANGED vars
  BY <1>1 DEF vars, CallsNothing, Later
<1>2. CASE Connections \/ ReceiverBack
  <2>1. CASE SenderLost \/ SenderMisses \/ GiveUp
    BY <2>1 DEF SenderLost, SenderMisses, GiveUp, CallsNothing, Later
  <2>2. ASSUME NEW i \in DOMAIN late, LateRequest(i) PROVE CallsNothing
    <3>1. /\ late[i] \in Seq(Requests) /\ late[i] # <<>> /\ Clear(late[i], Asking)
          /\ toReceiver' = Append(toReceiver, Head(late[i]))
      BY <2>2 DEF LateRequest, ToReceiver, LateCalm, Typed, TypeInv
    <3>2. Head(late[i]) \in Requests \ Asking
      BY <3>1, HeadTail, TailMarks
    <3> QED
      BY <2>2, <3>1, <3>2 DEF LateRequest, CallsNothing, Later
  <2>3. ASSUME NEW i \in DOMAIN lateReplies, LateReply(i) PROVE FALSE
    BY <2>3 DEF LateReply, LateCalm
  <2> QED
    BY <1>2, <2>1, <2>2, <2>3
       DEF Connections, ReceiverLost, ReceiverMisses, ReceiverBack, ReceiverStayed
<1>3. CASE SenderLoop \/ ClientEnds
  <2>1. Msg("Done", 0, 0) \in Requests \ Asking
    BY PlainMessages, MessageIs DEF Asking
  <2> QED
    BY <1>3, <2>1
       DEF SenderLoop, SenderBack, ShareAccepted, ShareRejected, ResumeState, EnqueueConfirm,
           DoneReplied, ClientEnds, Arrived, Taken, ToReceiver, CallsNothing, Later
<1>4. CASE ReceiverLoop /\ ~ReceiverBack
  <2>1. Reply("done", 0, FALSE, 0) \in Replies \ Rising
    <3>1. Reply("done", 0, FALSE, 0).kind = "done"
      BY DEF Reply
    <3> QED
      BY <3>1, PlainMessages DEF Rising
  <2>2. CASE RecvDone
    BY <2>1, <2>2 DEF RecvDone, Received, ToSender, CallsNothing, Later
  <2>3. ASSUME NEW f \in Files, RecvNewFile(f) PROVE CallsNothing
    <3>1. Reply("newFile", f, TRUE, 0) \in Replies \ Rising
      <4>1. Reply("newFile", f, TRUE, 0).kind = "newFile"
        BY DEF Reply
      <4> QED
        BY <4>1, FileMessages DEF Rising, Replies
    <3> QED
      BY <2>3, <3>1 DEF RecvNewFile, ReceivedFile, Received, ToSender, CallsNothing, Later
  <2>4. ASSUME NEW f \in Files, RecvExistingFile(f) PROVE CallsNothing
    <3>1. disk[f] \in Seq(Chunk)
      BY <2>4 DEF RecvExistingFile, Typed, TypeInv
    <3>2. \E m \in Confirms : prompts' = Append(prompts, m)
      BY <2>4, <3>1, SavedChunksType, FileMessages DEF RecvExistingFile, Ask
    <3> QED
      BY <2>4, <3>2 DEF RecvExistingFile, ReceivedFile, Received, CallsNothing, Later
  <2>5. ASSUME NEW f \in Files, RecvBreakPoint(f) \/ RecvFileData(f) \/ RecvFileDone(f)
        PROVE  CallsNothing
    BY <2>5 DEF RecvBreakPoint, RecvFileData, RecvFileDone, ReceivedFile, Received,
                CallsNothing, Later
  <2> QED
    BY <1>4, <2>2, <2>3, <2>4, <2>5 DEF ReceiverLoop
<1>5. CASE User
  <2>1. PICK a \in BOOLEAN : AnswerDuplicate(a) \/ AnswerBreakPoint(a)
    BY <1>5 DEF User
  <2>2. /\ toReceiver' = toReceiver /\ accepted' = accepted
        /\ prompts # <<>> /\ prompts' = Tail(prompts)
        /\ Head(prompts).kind \in {"newFile", "breakPoint"}
    BY <2>1 DEF AnswerDuplicate, AnswerBreakPoint, Answered
  <2>3. Head(prompts) \in Confirms
    BY <2>2, HeadTail DEF Typed, TypeInv, Questions, Reply
  <2>4. PICK m \in Confirms : toSender' = Append(toSender, m)
    <3>1. CASE AnswerDuplicate(a)
      BY <2>3, <3>1 DEF AnswerDuplicate, ToSender, Confirms
    <3>2. CASE AnswerBreakPoint(a)
      <4>1. Head(prompts).file \in Files /\ Head(prompts).n \in Nat
        BY <2>3 DEF Confirms
      <4> QED
        BY <3>2, <4>1, FileMessages DEF AnswerBreakPoint, ToSender
    <3> QED
      BY <2>1, <3>1, <3>2
  <2>5. m \in Replies \ Rising
    BY <2>4 DEF Confirms, Replies, Rising
  <2> QED
    BY <2>2, <2>4, <2>5 DEF CallsNothing, Later
<1>6. CASE \E r \in Runs : \/ SendFiles(r)
                           \/ \E f \in Files : SendSingleFile(r, f) \/ TaskFails(r, f)
  BY <1>6, SendersAskNothing
<1> QED
  BY <1>1, <1>2, <1>3, <1>4, <1>5, <1>6 DEF Next

\* A receiver that is on its first connection was on it before.
LEMMA StayedBefore ==
  ASSUME [Next]_vars, ReceiverStayed' PROVE ReceiverStayed /\ mixed \subseteq mixed'
<1>1. CASE Connections \/ SenderLoop \/ ClientEnds \/ UNCHANGED vars
  BY <1>1 DEF Connections, SenderLost, SenderMisses, ReceiverLost, ReceiverMisses, LateRequest,
              LateReply, GiveUp, SenderLoop, SenderBack, Joined, Ready, ShareAccepted,
              ShareRejected, ResumeState, EnqueueConfirm, DoneReplied, ClientEnds, vars,
              ReceiverStayed
<1>2. CASE ReceiverLoop \/ User
  BY <1>2 DEF ReceiverLoop, ReceiverBack, RecvSendRequest, RecvResumeRequest, RecvDone,
              RecvNewFile, RecvExistingFile, RecvBreakPoint, RecvFileData, RecvFileDone, User,
              AnswerShare, AnswerDuplicate, AnswerBreakPoint, ReceiverStayed
<1>3. CASE \E r \in Runs : \/ SendFiles(r)
                           \/ \E f \in Files : SendSingleFile(r, f) \/ TaskFails(r, f)
  BY <1>3 DEF SendFiles, NextFile, SpawnTask, JoinTasks, Dispatch, SendSingleFile, ResumeFile,
              RequestFile, FileKept, FileConfirmed, ConfirmTimeout, StreamCancelled, SendChunk,
              SendFileDone, TaskFails, ReceiverStayed
<1> QED
  BY <1>1, <1>2, <1>3 DEF Next

\* Where nothing leads to a call, nothing asks about the share again.
LEMMA QuietStays ==
  ASSUME Typed, Quiet, CallsNothing
  PROVE  Quiet'
<1>1. toSender \in Seq(Replies) /\ toReceiver \in Seq(Requests) /\ prompts \in Seq(Questions)
  BY DEF Typed, TypeInv
<1>2. (Requests \ Asking) \cap Asking = {} /\ (Replies \ Rising) \cap Rising = {}
      /\ Confirms \cap Sharing = {}
  BY DEF Confirms, Sharing
<1> QED
  BY <1>1, <1>2, LaterClear DEF Quiet, CallsNothing

\* A rejected share stays rejected.
LEMMA RejectedStays ==
  ASSUME Typed, LateCalm, ReceiverStayed, ReceiverStayed', Rejected, [Next]_vars
  PROVE  Rejected'
<1>1. ~SenderOn
  BY DEF Rejected, SenderOn
<1>2. client' = client
  <2>1. ~(SenderLoop \/ ClientEnds \/ GiveUp \/ SenderLost)
    BY <1>1 DEF SenderLoop, SenderBack, Joined, Ready, ShareAccepted, ShareRejected, ResumeState,
                EnqueueConfirm, DoneReplied, ClientEnds, GiveUp, SenderLost, Arrived, Serving,
                Rejected
  <2>2. ~\E r \in Runs : \/ SendFiles(r)
                         \/ \E f \in Files : SendSingleFile(r, f) \/ TaskFails(r, f)
    <3>1. ASSUME NEW r \in Runs, SendFiles(r) PROVE FALSE
      BY <1>1, <3>1 DEF SendFiles, NextFile, SpawnTask, JoinTasks, Dispatch, InRun
    <3>2. ASSUME NEW r \in Runs, NEW f \in Files, SendSingleFile(r, f) \/ TaskFails(r, f)
          PROVE  FALSE
      BY <1>1, <3>2 DEF SendSingleFile, ResumeFile, RequestFile, FileKept, FileConfirmed,
                        Confirmed, ConfirmTimeout, StreamCancelled, SendChunk, SendFileDone,
                        TaskFails, InTask
    <3> QED
      BY <3>1, <3>2
  <2>3. CASE \/ UNCHANGED vars \/ SenderMisses \/ ReceiverLost \/ ReceiverMisses
             \/ \E i \in DOMAIN late : LateRequest(i)
             \/ \E i \in DOMAIN lateReplies : LateReply(i)
    BY <2>3 DEF vars, SenderMisses, ReceiverLost, ReceiverMisses, LateRequest, LateReply
  <2>4. CASE ReceiverLoop \/ User
    BY <2>4 DEF ReceiverLoop, ReceiverBack, RecvSendRequest, RecvResumeRequest, RecvDone,
                RecvNewFile, RecvExistingFile, RecvBreakPoint, RecvFileData, RecvFileDone, User,
                AnswerShare, AnswerDuplicate, AnswerBreakPoint
  <2> QED
    BY <2>1, <2>2, <2>3, <2>4 DEF Next, Connections
<1>3. ~Joined /\ ~Ready
  BY <1>1 DEF Joined, Ready, Arrived, Serving
<1>4. ~RecvSendRequest /\ ~RecvResumeRequest
  <2>1. ASSUME NEW t \in {"SendRequest", "ResumeRequest"}, Received(t) PROVE FALSE
    <3>1. Head(toReceiver) \in Asking /\ toReceiver # <<>> /\ toReceiver \in Seq(Requests)
      BY <2>1, ReceivedType DEF Asking, Typed, TypeInv
    <3> QED
      BY <3>1, TailMarks DEF Rejected, Quiet
  <2> QED
    BY <2>1 DEF RecvSendRequest, RecvResumeRequest
<1>5. ASSUME NEW a \in BOOLEAN, AnswerShare(a) PROVE FALSE
  <2>1. /\ prompts # <<>> /\ prompts \in Seq(Questions) /\ Head(prompts).kind = "share"
    BY <1>5 DEF AnswerShare, Answered, Typed, TypeInv
  <2>2. Head(prompts) \in Sharing
    BY <2>1, HeadTail DEF Sharing
  <2> QED
    BY <2>1, <2>2, TailMarks DEF Rejected, Quiet
<1>6. CallsNothing
  BY <1>3, <1>4, <1>5, NothingAsked
<1> QED
  BY <1>2, <1>6, QuietStays DEF Rejected, CallsNothing

\* At the beginning it is not accepted.
LEMMA DecidedInit == Init => Decided
  BY DEF Init, Decided

\* The user decides once.
LEMMA DecidedNext == Typed /\ OneCall /\ LateCalm /\ Decided /\ [Next]_vars => Decided'
<1> SUFFICES ASSUME Typed, OneCall, LateCalm, Decided, [Next]_vars, ReceiverStayed', accepted'
             PROVE  /\ Clear(toSender', Refusing) /\ Clear(toReceiver', Inviting)
                    /\ Clear(prompts', Sharing)
  BY DEF Decided
<1>1. /\ toSender \in Seq(Replies) /\ toReceiver \in Seq(Requests) /\ prompts \in Seq(Questions)
      /\ ReceiverStayed
  BY StayedBefore DEF Typed, TypeInv
<1>2. /\ Inviting \subseteq Asking /\ Refusing \subseteq Rising
      /\ Confirms \cap Sharing = {}
  BY DEF Inviting, Asking, Refusing, Rising, Confirms, Sharing
<1>3. ASSUME NEW a \in BOOLEAN, AnswerShare(a)
      PROVE  /\ Clear(toSender', Refusing) /\ Clear(toReceiver', Inviting)
             /\ Clear(prompts', Sharing)
  <2>1. /\ prompts # <<>> /\ Head(prompts).kind = "share" /\ prompts' = Tail(prompts)
        /\ toReceiver' = toReceiver /\ toSender' = Append(toSender, Reply("share", 0, a, 0))
        /\ accepted' = (accepted \/ a)
    BY <1>3 DEF AnswerShare, Answered, ToSender
  <2>2. Head(prompts) \in Sharing
    BY <1>1, <2>1, HeadTail DEF Sharing
  <2>3. ~Clear(prompts, Sharing) /\ (Single(prompts, Sharing) => Clear(prompts', Sharing))
    BY <1>1, <2>1, <2>2, TailMarks
  <2>4. /\ Clear(prompts', Sharing) /\ Clear(toReceiver, Asking) /\ Clear(toSender, Rising)
        /\ a = TRUE
    BY <1>1, <2>1, <2>3 DEF OneCall, OneUnderWay, Decided
  <2>5. Reply("share", 0, a, 0) \notin Refusing
    BY <2>4 DEF Refusing, Reply
  <2>6. Clear(toSender', Refusing)
    <3>1. \A i \in DOMAIN toSender' : \/ i \in DOMAIN toSender /\ toSender'[i] = toSender[i]
                                      \/ toSender'[i] = Reply("share", 0, a, 0)
      BY <1>1, <2>1
    <3> QED
      BY <1>2, <2>4, <2>5, <3>1 DEF Clear
  <2> QED
    BY <1>2, <2>1, <2>4, <2>6 DEF Clear
<1>4. CASE ~\E a \in BOOLEAN : AnswerShare(a)
  <2>1. accepted /\ Clear(toSender, Refusing) /\ Clear(toReceiver, Inviting)
        /\ Clear(prompts, Sharing)
    <3>1. accepted' = accepted
      <4>1. CASE Joined \/ Ready \/ RecvSendRequest \/ RecvResumeRequest
        BY <4>1 DEF Joined, Ready, RecvSendRequest, RecvResumeRequest
      <4>2. CASE ~(Joined \/ Ready \/ RecvSendRequest \/ RecvResumeRequest)
        BY <1>1, <1>4, <4>2, NothingAsked DEF CallsNothing
      <4> QED
        BY <4>1, <4>2
    <3> QED
      BY <1>1, <3>1 DEF Decided
  <2>2. ASSUME NEW S, NEW U, Later(toReceiver, toReceiver', S), Later(toSender, toSender', U),
               Later(prompts, prompts', Confirms), S \cap Inviting = {}, U \cap Refusing = {}
        PROVE  /\ Clear(toSender', Refusing) /\ Clear(toReceiver', Inviting)
               /\ Clear(prompts', Sharing)
    BY <1>1, <1>2, <2>1, <2>2, LaterClear
  <2>3. CASE Joined
    <3>1. Msg("ResumeRequest", 0, 0) \notin Inviting
      BY MessageIs DEF Inviting
    <3>2. Later(toReceiver, toReceiver', {Msg("ResumeRequest", 0, 0)})
          /\ Later(toSender, toSender', {}) /\ Later(prompts, prompts', Confirms)
      BY <2>3 DEF Joined, ToReceiver, Later
    <3> QED
      BY <2>2, <3>1, <3>2
  <2>4. CASE Ready
    <3>1. toSender # <<>> /\ Head(toSender) \in Refusing
      BY <2>4, ArrivedType DEF Ready, Refusing, Typed
    <3> QED
      BY <1>1, <2>1, <3>1, TailMarks
  <2>5. CASE RecvSendRequest
    <3>1. toReceiver # <<>> /\ Head(toReceiver) \in Inviting
      BY <2>5, ReceivedType DEF RecvSendRequest, Inviting, Typed
    <3> QED
      BY <1>1, <2>1, <3>1, TailMarks
  <2>6. CASE RecvResumeRequest
    <3>1. \A x : ResumeReply(x) \notin Refusing
      <4>1. \A x : ResumeReply(x).kind = "resume"
        BY DEF ResumeReply
      <4> QED
        BY <4>1 DEF Refusing
    <3>2. PICK x : /\ Later(toReceiver, toReceiver', {})
                   /\ Later(toSender, toSender', {ResumeReply(x)})
                   /\ Later(prompts, prompts', Confirms)
      BY <2>6 DEF RecvResumeRequest, Received, ToSender, Later
    <3> QED
      BY <2>2, <3>1, <3>2
  <2>7. CASE ~(Joined \/ Ready \/ RecvSendRequest \/ RecvResumeRequest)
    <3>1. CallsNothing
      BY <1>1, <1>4, <2>7, NothingAsked
    <3> QED
      BY <1>2, <2>2, <3>1 DEF CallsNothing
  <2> QED
    BY <2>3, <2>4, <2>5, <2>6, <2>7
<1> QED
  BY <1>3, <1>4

\* What is settled stays so.
LEMMA SettledStays == Typed /\ [Next]_vars => \A f \in Files : Settled(f) => Settled(f)'
<1> SUFFICES ASSUME Typed, [Next]_vars, NEW f \in Files
             PROVE  finished \subseteq finished' /\ answers[f] \subseteq answers'[f]
  BY DEF Settled, Refused
<1>1. CASE Connections \/ SenderLoop \/ ClientEnds \/ UNCHANGED vars
  BY <1>1 DEF Connections, SenderLost, SenderMisses, ReceiverLost, ReceiverMisses, LateRequest,
              LateReply, GiveUp, SenderLoop, SenderBack, Joined, Ready, ShareAccepted,
              ShareRejected, ResumeState, EnqueueConfirm, DoneReplied, ClientEnds, vars
<1>2. CASE ReceiverLoop
  BY <1>2 DEF ReceiverLoop, ReceiverBack, RecvSendRequest, RecvResumeRequest, RecvDone,
              RecvNewFile, RecvExistingFile, RecvBreakPoint, RecvFileData, RecvFileDone
<1>3. CASE User
  <2>1. PICK a \in BOOLEAN : AnswerShare(a) \/ AnswerDuplicate(a) \/ AnswerBreakPoint(a)
    BY <1>3 DEF User
  <2>2. finished' = finished /\ (answers' = answers \/ Note(a))
    BY <2>1 DEF AnswerShare, AnswerDuplicate, AnswerBreakPoint
  <2>3. \A g, s : answers' = [answers EXCEPT ![g] = answers[g] \cup {s}] =>
                     answers[f] \subseteq answers'[f]
    BY DEF Typed, TypeInv
  <2> QED
    BY <2>2, <2>3 DEF Note
<1>4. CASE \E r \in Runs : \/ SendFiles(r)
                           \/ \E g \in Files : SendSingleFile(r, g) \/ TaskFails(r, g)
  BY <1>4 DEF SendFiles, NextFile, SpawnTask, JoinTasks, Dispatch, SendSingleFile, ResumeFile,
              RequestFile, FileKept, FileConfirmed, ConfirmTimeout, StreamCancelled, SendChunk,
              SendFileDone, TaskFails
<1> QED
  BY <1>1, <1>2, <1>3, <1>4 DEF Next

\* A FileDone stays where it is, but for the message that is taken.
LEMMA EndsKeeps ==
  ASSUME NEW q \in Seq(Requests), NEW f, NEW i \in Nat, i <= Len(q), Ends(q, f, i), NEW r
  PROVE  /\ \A m : r = Append(q, m) => Ends(r, f, i) /\ Ends(r, f, Len(r))
         /\ q # <<>> /\ r = Tail(q) => IsEnd(Head(q), f) \/ Ends(r, f, i - 1)
         /\ \A n \in 0..Len(q) : r = SubSeq(q, 1, n) /\ i <= n => Ends(r, f, i)
<1>1. PICK j \in 1..i : IsEnd(q[j], f)
  BY DEF Ends
<1>2. j \in DOMAIN q /\ j \in Nat /\ Len(q) \in Nat
  BY <1>1
<1>3. ASSUME NEW m, r = Append(q, m) PROVE Ends(r, f, i) /\ Ends(r, f, Len(r))
  <2>1. r[j] = q[j] /\ j \in 1..Len(r)
    BY <1>2, <1>3, AppendParts
  <2> QED
    BY <1>1, <2>1 DEF Ends
<1>4. ASSUME q # <<>>, r = Tail(q) PROVE IsEnd(Head(q), f) \/ Ends(r, f, i - 1)
  <2>1. j = 1 \/ (j - 1 \in 1..(i - 1) /\ q[j] = r[j - 1])
    BY <1>1, <1>2, <1>4, TailParts
  <2>2. q[1] = Head(q)
    BY <1>4, TailParts
  <2> QED
    BY <1>1, <2>1, <2>2 DEF Ends
<1>5. ASSUME NEW n \in 0..Len(q), r = SubSeq(q, 1, n), i <= n PROVE Ends(r, f, i)
  <2>1. r[j] = q[j]
    BY <1>1, <1>2, <1>5
  <2> QED
    BY <1>1, <2>1 DEF Ends
<1> QED
  BY <1>3, <1>4, <1>5

LEMMA EndsBehind ==
  ASSUME NEW q \in Seq(Requests), NEW f, Ends(q, f, Len(q)), NEW r
  PROVE  /\ \A m : r = Append(q, m) => Ends(r, f, Len(r))
         /\ q # <<>> /\ r = Tail(q) => IsEnd(Head(q), f) \/ Ends(r, f, Len(r))
<1>1. Len(q) \in Nat /\ Len(q) <= Len(q)
  OBVIOUS
<1>2. \A m : r = Append(q, m) => Ends(r, f, Len(r))
  BY <1>1, EndsKeeps
<1>3. ASSUME q # <<>>, r = Tail(q) PROVE IsEnd(Head(q), f) \/ Ends(r, f, Len(r))
  <2>1. IsEnd(Head(q), f) \/ Ends(r, f, Len(q) - 1)
    BY <1>1, <1>3, EndsKeeps
  <2>2. Len(r) = Len(q) - 1
    BY <1>3, TailParts
  <2> QED
    BY <2>1, <2>2
<1> QED
  BY <1>2, <1>3

\* A step keeps the end in sight if what it adds does.
LEMMA EndStep ==
  ASSUME Typed, Typed', EndInv, ReceiverStayed, 0 \notin mixed,
         \A f \in Files : Settled(f) => Settled(f)', Rejected => Rejected',
         rstate' = "run" => rstate = "run",
         \/ toReceiver' = toReceiver
         \/ \E m \in Requests :
              /\ toReceiver' = Append(toReceiver, m)
              /\ m.type = "Done" =>
                   \/ Rejected'
                   \/ \A f \in Files :
                        rstate = "run" => Settled(f) \/ Ends(toReceiver, f, Len(toReceiver))
         \/ /\ toReceiver # <<>> /\ toReceiver' = Tail(toReceiver)
            /\ \A f \in Files : rstate' = "run" /\ IsEnd(Head(toReceiver), f) => Settled(f)'
         \/ /\ \E n \in 0..Len(toReceiver) : toReceiver' = SubSeq(toReceiver, 1, n)
            /\ \A r \in Runs : ~Live(r)',
         \A r \in Runs : Live(r)' =>
           /\ run'[r].pc = "join" => run'[r].next > NumFiles
           /\ \A f \in Files : rstate' = "run" /\ task'[r][f] = "ok" =>
                \/ Live(r) /\ task[r][f] = "ok"
                \/ Settled(f) \/ Ends(toReceiver', f, Len(toReceiver')),
         Over' => Over \/ \A f \in Files : Rejected' \/ Settled(f)'
  PROVE  EndInv'
<1>1. toReceiver \in Seq(Requests) /\ Len(toReceiver) \in Nat
  BY DEF Typed, TypeInv
<1>2. ASSUME NEW f \in Files, rstate' = "run", NEW r \in Runs, Live(r)', task'[r][f] = "ok"
      PROVE  Settled(f)' \/ Ends(toReceiver', f, Len(toReceiver'))
  <2> SUFFICES ASSUME Live(r), task[r][f] = "ok", ~Settled(f)
               PROVE  Settled(f)' \/ Ends(toReceiver', f, Len(toReceiver'))
    BY <1>2
  <2>1. Ends(toReceiver, f, Len(toReceiver))
    BY <1>2 DEF EndInv, FileEnds
  <2>2. CASE toReceiver' = toReceiver
    BY <2>1, <2>2
  <2>3. CASE \E m : toReceiver' = Append(toReceiver, m)
    BY <1>1, <2>1, <2>3, EndsBehind
  <2>4. CASE /\ toReceiver # <<>> /\ toReceiver' = Tail(toReceiver)
             /\ \A g \in Files : rstate' = "run" /\ IsEnd(Head(toReceiver), g) => Settled(g)'
    <3>1. IsEnd(Head(toReceiver), f) \/ Ends(toReceiver', f, Len(toReceiver'))
      BY <1>1, <2>1, <2>4, EndsBehind
    <3> QED
      BY <1>2, <2>4, <3>1
  <2> QED
    BY <1>2, <2>2, <2>3, <2>4
<1>3. ASSUME NEW f \in Files, rstate' = "run", NEW i \in DOMAIN toReceiver',
             toReceiver'[i].type = "Done"
      PROVE  Rejected' \/ Settled(f)' \/ Ends(toReceiver', f, i)
  <2>1. \A j \in DOMAIN toReceiver : toReceiver[j].type = "Done" =>
          Rejected' \/ Settled(f)' \/ (Ends(toReceiver, f, j) /\ j \in Nat /\ j <= Len(toReceiver))
    BY <1>1, <1>3 DEF EndInv, FileEnds
  <2>2. CASE toReceiver' = toReceiver
    BY <1>3, <2>1, <2>2
  <2>3. ASSUME NEW m \in Requests, toReceiver' = Append(toReceiver, m),
               m.type = "Done" => \/ Rejected'
                                  \/ Settled(f) \/ Ends(toReceiver, f, Len(toReceiver))
        PROVE  Rejected' \/ Settled(f)' \/ Ends(toReceiver', f, i)
    <3>1. CASE i \in DOMAIN toReceiver /\ toReceiver'[i] = toReceiver[i]
      BY <1>1, <1>3, <2>1, <2>3, <3>1, EndsKeeps
    <3>2. CASE i = Len(toReceiver') /\ toReceiver'[i] = m
      <4>1. Rejected' \/ Settled(f)' \/ Ends(toReceiver, f, Len(toReceiver))
        BY <2>3, <3>2, <1>3
      <4> QED
        BY <1>1, <2>3, <3>2, <4>1, EndsBehind
    <3> QED
      BY <1>1, <2>3, <3>1, <3>2, AppendParts
  <2>4. CASE /\ toReceiver # <<>> /\ toReceiver' = Tail(toReceiver)
             /\ \A g \in Files : rstate' = "run" /\ IsEnd(Head(toReceiver), g) => Settled(g)'
    <3>1. i + 1 \in DOMAIN toReceiver /\ toReceiver'[i] = toReceiver[i + 1] /\ (i + 1) - 1 = i
      BY <1>1, <2>4, TailParts
    <3> QED
      BY <1>1, <1>3, <2>1, <2>4, <3>1, EndsKeeps
  <2>5. ASSUME NEW n \in 0..Len(toReceiver), toReceiver' = SubSeq(toReceiver, 1, n)
        PROVE  Rejected' \/ Settled(f)' \/ Ends(toReceiver', f, i)
    <3>1. i \in DOMAIN toReceiver /\ toReceiver'[i] = toReceiver[i] /\ i <= n
      BY <1>1, <2>5
    <3> QED
      BY <1>1, <1>3, <2>1, <2>5, <3>1, EndsKeeps
  <2> QED
    BY <1>3, <2>2, <2>3, <2>4, <2>5
<1>4. ASSUME NEW f \in Files, Over' PROVE Rejected' \/ Settled(f)'
  BY <1>4 DEF EndInv, FileEnds
<1>5. \A r \in Runs : Live(r)' /\ run'[r].pc = "join" => run'[r].next > NumFiles
  OBVIOUS
<1> QED
  BY <1>2, <1>3, <1>4, <1>5 DEF EndInv, FileEnds

\* What is known before a step.
Steady ==
  /\ Typed /\ Typed' /\ EndInv /\ ReceiverStayed /\ 0 \notin mixed
  /\ \A f \in Files : Settled(f) => Settled(f)'
  /\ Rejected => Rejected'

\* Calls that stay as they are.
LEMMA SameEnds ==
  ASSUME Steady, UNCHANGED <<link, conn, runs, run, task>>
  PROVE  \A r \in Runs : Live(r)' =>
           /\ run'[r].pc = "join" => run'[r].next > NumFiles
           /\ \A f \in Files : rstate' = "run" /\ task'[r][f] = "ok" =>
                Live(r) /\ task[r][f] = "ok"
  BY DEF Steady, EndInv, Live, Cancelled

\* Nothing says that all is over but Done.
LEMMA NotOver ==
  ASSUME Typed, UNCHANGED <<completed, receiveDone>>,
         \/ toSender' = toSender
         \/ toSender # <<>> /\ toSender' = Tail(toSender)
         \/ \E m \in Replies : m.kind # "done" /\ toSender' = Append(toSender, m)
  PROVE  Over' => Over
<1>1. toSender \in Seq(Replies)
  BY DEF Typed, TypeInv
<1>2. \A i \in DOMAIN toSender' : toSender'[i].kind = "done" =>
        \E j \in DOMAIN toSender : toSender[j].kind = "done"
  <2>1. CASE toSender # <<>> /\ toSender' = Tail(toSender)
    <3>1. \A i \in DOMAIN toSender' : i + 1 \in DOMAIN toSender /\ toSender'[i] = toSender[i + 1]
      BY <1>1, <2>1
    <3> QED
      BY <3>1
  <2>2. ASSUME NEW m \in Replies, m.kind # "done", toSender' = Append(toSender, m)
        PROVE  \A i \in DOMAIN toSender' : toSender'[i].kind = "done" =>
                 i \in DOMAIN toSender /\ toSender[i].kind = "done"
    BY <1>1, <2>2
  <2> QED
    BY <2>1, <2>2
<1> QED
  BY <1>2 DEF Over

\* Losing the sender's connection and coming back.
LEMMA ConnectionsEnd ==
  ASSUME ~EarlyLoss, Steady, OneCall, LateCalm, ReceiverStayed', 0 \notin mixed',
         Connections \/ SenderBack \/ Joined \/ ReceiverBack
  PROVE  EndInv'
<1> USE DEF Steady
<1>1. /\ ~ReceiverLost /\ ~ReceiverBack /\ ~ReceiverMisses
      /\ \A i \in DOMAIN lateReplies : ~LateReply(i)
  BY DEF ReceiverLost, ReceiverBack, ReceiverMisses, LateReply, LateCalm, ReceiverStayed
<1>2. /\ UNCHANGED <<runs, run, task, rstate, completed, receiveDone>>
      /\ \/ toSender' = toSender
         \/ toSender # <<>> /\ toSender' = Tail(toSender)
  BY <1>1 DEF Connections, SenderLost, SenderMisses, LateRequest, GiveUp, SenderBack, Joined
<1>3. Over' => Over
  BY <1>2, NotOver
<1>4. ASSUME NEW i \in DOMAIN late, LateRequest(i)
      PROVE  EndInv'
  <2>1. PICK m \in Requests : /\ toReceiver' = Append(toReceiver, m)
                              /\ mixed' = mixed \cup {m.file}
    BY <1>4, HeadTail DEF LateRequest, ToReceiver, Typed, TypeInv
  <2>2. m.type # "Done"
    BY <2>1 DEF Requests
  <2>3. UNCHANGED <<link, conn>>
    BY <1>4 DEF LateRequest
  <2> QED
    BY <1>2, <1>3, <2>1, <2>2, <2>3, SameEnds, EndStep
<1>5. CASE SenderMisses \/ GiveUp
  <2>1. UNCHANGED <<link, conn, toReceiver>>
    BY <1>5 DEF SenderMisses, GiveUp
  <2> QED
    BY <1>2, <1>3, <2>1, SameEnds, EndStep
<1>6. CASE SenderLost \/ SenderBack
  <2>1. \A r \in Runs : ~Live(r)'
    <3>1. \A r \in Runs : r <= runs => run[r].conn <= conn /\ run[r].conn \in Nat
      BY DEF OneCall, Typed, TypeInv, Calls
    <3>2. conn \in Nat /\ run' = run /\ runs' = runs
      BY <1>2 DEF Typed, TypeInv
    <3>3. CASE SenderLost
      BY <3>3 DEF SenderLost, Live, Cancelled
    <3>4. CASE SenderBack
      BY <3>1, <3>2, <3>4 DEF SenderBack, Live, Cancelled
    <3> QED
      BY <1>6, <3>3, <3>4
  <2>2. \E n \in 0..Len(toReceiver) : toReceiver' = SubSeq(toReceiver, 1, n)
    BY <1>6 DEF SenderLost, SenderBack
  <2> QED
    BY <1>2, <1>3, <2>1, <2>2, EndStep
<1>7. CASE Joined
  <2>1. \A r \in Runs : ~Live(r)'
    BY <1>7 DEF Joined, OneCall, Begun, Live, Cancelled
  <2>2. \E m \in Requests : m.type # "Done" /\ toReceiver' = Append(toReceiver, m)
    <3>1. Msg("ResumeRequest", 0, 0) \in Requests /\ Msg("ResumeRequest", 0, 0).type # "Done"
      BY PlainMessages, MessageIs
    <3> QED
      BY <1>7, <3>1 DEF Joined, ToReceiver
  <2> QED
    BY <1>2, <1>3, <2>1, <2>2, EndStep
<1> QED
  BY <1>1, <1>4, <1>5, <1>6, <1>7 DEF Connections

\* The sender's loop.
LEMMA LoopEnd ==
  ASSUME Steady, OneCall, Decided,
         \/ Ready \/ ShareAccepted \/ ShareRejected \/ ResumeState
         \/ EnqueueConfirm \/ DoneReplied \/ ClientEnds
  PROVE  EndInv'
<1> USE DEF Steady
<1>1. /\ UNCHANGED <<link, conn, rstate, receiveDone, task, rlink>>
      /\ \/ toSender' = toSender
         \/ toSender # <<>> /\ toSender' = Tail(toSender)
  BY DEF Ready, ShareAccepted, ShareRejected, ResumeState, EnqueueConfirm, DoneReplied,
         ClientEnds, Arrived, Taken, Start
<1>2. ASSUME NEW k \in {"share", "resume"}, Arrived(k),
             NEW received \in [Files -> Nat], Start(received), toReceiver' = toReceiver
      PROVE  EndInv'
  <2>1. /\ link = "up" /\ ~Begun
        /\ runs' = runs + 1 /\ runs + 1 \in Runs
        /\ run'[runs + 1] = [pc |-> "loop", conn |-> conn, next |-> 1]
        /\ \A r \in Runs \ {runs + 1} : run'[r] = run[r]
    BY <1>2, CallArrives, TypedStart
  <2>2. ASSUME NEW r \in Runs, Live(r)'
        PROVE  run'[r].pc = "loop" /\ \A f \in Files : task'[r][f] = "none"
    <3>1. r = runs + 1
      <4> SUFFICES ASSUME r # runs + 1 PROVE FALSE
        OBVIOUS
      <4>1. r <= runs' /\ run'[r].conn = conn /\ run'[r] = run[r]
        BY <1>1, <2>1, <2>2 DEF Live, Cancelled
      <4>2. r <= runs
        BY <4>1, <2>1, StartedCall
      <4> QED
        BY <2>1, <4>1, <4>2 DEF Begun
    <3>2. r > runs
      BY <3>1, <2>1, StartedCall
    <3>3. \A f \in Files : task'[r][f] = "none"
      BY <1>1, <3>2 DEF Typed, Unstarted
    <3> QED
      BY <2>1, <3>1, <3>3
  <2>3. completed' = completed
    BY <1>2 DEF Start
  <2>4. Over' => Over
    BY <1>1, <2>3, NotOver
  <2> QED
    BY <1>1, <1>2, <2>2, <2>4, EndStep
<1>3. CASE ShareAccepted
  <2>1. [f \in Files |-> 0] \in [Files -> Nat]
    OBVIOUS
  <2> QED
    BY <1>2, <1>3, <2>1 DEF ShareAccepted
<1>4. CASE ResumeState
  <2>1. Head(toSender).received \in [Files -> Nat]
    BY <1>4, ArrivedType DEF ResumeState, Typed
  <2> QED
    BY <1>2, <1>4, <2>1 DEF ResumeState
<1>5. CASE Ready
  <2>1. UNCHANGED <<runs, run, completed>>
    BY <1>5 DEF Ready
  <2>2. \E m \in Requests : m.type # "Done" /\ toReceiver' = Append(toReceiver, m)
    <3>1. Msg("SendRequest", 0, 0) \in Requests /\ Msg("SendRequest", 0, 0).type # "Done"
      BY PlainMessages, MessageIs
    <3> QED
      BY <1>5, <3>1 DEF Ready, ToReceiver
  <2>3. Over' => Over
    BY <1>1, <2>1, NotOver
  <2> QED
    BY <1>1, <2>1, <2>2, <2>3, SameEnds, EndStep
<1>6. CASE ShareRejected
  <2>1. /\ UNCHANGED <<runs, run, completed, accepted, prompts>> /\ client' = "ended"
        /\ toSender # <<>> /\ toSender' = Tail(toSender) /\ ~Head(toSender).accept
        /\ toReceiver' = Append(toReceiver, Msg("Done", 0, 0)) /\ Arrived("share")
    BY <1>6 DEF ShareRejected, Arrived, Taken, ToReceiver
  <2>2. Msg("Done", 0, 0) \in Requests /\ Msg("Done", 0, 0).type = "Done"
    BY PlainMessages, MessageIs
  <2>3. /\ Head(toSender) \in Refusing /\ Head(toSender) \in Rising
        /\ toSender \in Seq(Replies) /\ toReceiver \in Seq(Requests)
    BY <2>1, ArrivedType DEF Refusing, Rising, Typed, TypeInv
  <2>4. ~accepted
    BY <2>1, <2>3, TailMarks DEF Decided
  <2>5. Quiet'
    <3>1. ~Clear(toSender, Rising) /\ (Single(toSender, Rising) => Clear(toSender', Rising))
      BY <2>1, <2>3, TailMarks
    <3>2. Clear(toSender', Rising) /\ Clear(toReceiver, Asking) /\ Clear(prompts, Sharing)
      BY <3>1 DEF OneCall, OneUnderWay
    <3>3. Msg("Done", 0, 0) \notin Asking
      BY <2>2 DEF Asking
    <3>4. Clear(toReceiver', Asking)
      BY <2>1, <2>2, <2>3, <3>2, <3>3, AppendMarks DEF Fewer
    <3>5. prompts' = prompts
      BY <2>1
    <3> QED
      BY <3>2, <3>4, <3>5 DEF Quiet
  <2>6. Rejected'
    BY <2>1, <2>4, <2>5 DEF Rejected
  <2>7. Over' => Over
    BY <1>1, <2>1, NotOver
  <2> QED
    BY <1>1, <2>1, <2>2, <2>6, <2>7, SameEnds, EndStep
<1>7. CASE EnqueueConfirm \/ ClientEnds
  <2>1. UNCHANGED <<runs, run, completed, toReceiver>>
    BY <1>7 DEF EnqueueConfirm, ClientEnds
  <2>2. Over' => Over
    BY <1>1, <2>1, NotOver
  <2> QED
    BY <1>1, <2>1, <2>2, SameEnds, EndStep
<1>8. CASE DoneReplied
  <2>1. UNCHANGED <<runs, run, toReceiver>>
    BY <1>8 DEF DoneReplied
  <2>2. Over
    <3>1. /\ toSender # <<>> /\ toSender \in Seq(Replies) /\ Head(toSender).kind = "done"
      BY <1>8 DEF DoneReplied, Arrived, Typed, TypeInv
    <3>2. 1 \in DOMAIN toSender /\ toSender[1] = Head(toSender)
      BY <3>1
    <3> QED
      BY <3>1, <3>2 DEF Over
  <2> QED
    BY <1>1, <2>1, <2>2, SameEnds, EndStep
<1> QED
  BY <1>3, <1>4, <1>5, <1>6, <1>7, <1>8

\* The receiver's loop.
LEMMA ReceiverEnd ==
  ASSUME Steady, ReceiverLoop, ~ReceiverBack
  PROVE  EndInv'
<1> USE DEF Steady
<1>1. /\ UNCHANGED <<link, conn, runs, run, task, completed>> /\ rstate = "run"
      /\ toReceiver # <<>> /\ toReceiver' = Tail(toReceiver)
  BY DEF ReceiverLoop, RecvSendRequest, RecvResumeRequest, RecvDone, RecvNewFile,
         RecvExistingFile, RecvBreakPoint, RecvFileData, RecvFileDone, ReceivedFile, Received,
         ReceiverOn
<1>2. CASE RecvDone
  <2>1. Head(toReceiver).type = "Done" /\ rstate' = rstate
    BY <1>2 DEF RecvDone, Received
  <2>2. 1 \in DOMAIN toReceiver /\ toReceiver[1] = Head(toReceiver)
    BY <1>1 DEF Typed, TypeInv
  <2>3. \A f \in Files : ~IsEnd(Head(toReceiver), f)
    BY <2>1 DEF IsEnd
  <2>4. \A f \in Files : Rejected \/ Settled(f)
    BY <1>1, <2>1, <2>2, <2>3 DEF EndInv, FileEnds, Ends
  <2> QED
    BY <1>1, <2>1, <2>3, <2>4, SameEnds, EndStep
<1>3. ASSUME NEW f \in Files, RecvFileDone(f) PROVE EndInv'
  <2>1. \A g \in Files : rstate' = "run" /\ IsEnd(Head(toReceiver), g) => Settled(g)'
    BY <1>3 DEF RecvFileDone, ReceivedFile, Lookup, IsEnd, Settled
  <2>2. Over' => Over
    BY <1>1, <1>3, NotOver DEF RecvFileDone
  <2> QED
    BY <1>1, <2>1, <2>2, SameEnds, EndStep
<1>4. CASE ~(RecvDone \/ \E f \in Files : RecvFileDone(f))
  <2>1. \A g \in Files : ~IsEnd(Head(toReceiver), g)
    BY <1>4 DEF ReceiverLoop, RecvSendRequest, RecvResumeRequest, RecvNewFile, RecvExistingFile,
                RecvBreakPoint, RecvFileData, ReceivedFile, Received, IsEnd
  <2>2. /\ receiveDone' = receiveDone
        /\ \/ toSender' = toSender
           \/ \E m \in Replies : m.kind # "done" /\ toSender' = Append(toSender, m)
    <3>1. \A f \in Files : Reply("newFile", f, TRUE, 0) \in Replies
                           /\ Reply("newFile", f, TRUE, 0).kind # "done"
      <4>1. \A f : Reply("newFile", f, TRUE, 0).kind = "newFile"
        BY DEF Reply
      <4> QED
        BY <4>1, FileMessages DEF Replies
    <3>2. \A had \in [Files -> Nat] : ResumeReply(had) \in Replies /\ ResumeReply(had).kind # "done"
      BY DEF ResumeReply, Replies, Resumes
    <3>3. [f \in Files |-> IF f \in recvFiles THEN recvPos[f] ELSE 0] \in [Files -> Nat]
      BY DEF Typed, TypeInv
    <3>4. CASE RecvResumeRequest
      BY <3>2, <3>3, <3>4 DEF RecvResumeRequest, ToSender
    <3>5. CASE RecvSendRequest
      BY <3>5 DEF RecvSendRequest
    <3>6. ASSUME NEW f \in Files,
                 \/ RecvNewFile(f) \/ RecvExistingFile(f) \/ RecvBreakPoint(f) \/ RecvFileData(f)
          PROVE  /\ receiveDone' = receiveDone
                 /\ \/ toSender' = toSender
                    \/ \E m \in Replies : m.kind # "done" /\ toSender' = Append(toSender, m)
      BY <3>1, <3>6 DEF RecvNewFile, RecvExistingFile, RecvBreakPoint, RecvFileData, ToSender
    <3> QED
      BY <1>4, <3>4, <3>5, <3>6 DEF ReceiverLoop
  <2>3. Over' => Over
    BY <1>1, <2>2, NotOver
  <2> QED
    BY <1>1, <2>1, <2>3, SameEnds, EndStep
<1> QED
  BY <1>2, <1>3, <1>4

\* The user's answers.
LEMMA UserEnd ==
  ASSUME Steady, User
  PROVE  EndInv'
<1> USE DEF Steady
<1>1. UNCHANGED <<link, conn, runs, run, task, completed, receiveDone, rstate, toReceiver>>
  BY DEF User, AnswerShare, AnswerDuplicate, AnswerBreakPoint
<1>2. \E m \in Replies : m.kind # "done" /\ toSender' = Append(toSender, m)
  <2>1. CASE \E a \in BOOLEAN : AnswerShare(a)
    <3>1. \A a \in BOOLEAN : /\ Reply("share", 0, a, 0) \in Replies
                            /\ Reply("share", 0, a, 0).kind # "done"
      <4>1. \A a : Reply("share", 0, a, 0).kind = "share"
        BY DEF Reply
      <4> QED
        BY <4>1, PlainMessages
    <3> QED
      BY <2>1, <3>1 DEF AnswerShare, ToSender
  <2>2. ASSUME NEW a \in BOOLEAN, AnswerDuplicate(a) \/ AnswerBreakPoint(a)
        PROVE  \E m \in Replies : m.kind # "done" /\ toSender' = Append(toSender, m)
    <3>1. Head(prompts) \in Confirms
      BY <2>2, HeadTail DEF AnswerDuplicate, AnswerBreakPoint, Answered, Typed, TypeInv,
                            Questions, Reply
    <3>2. \E m \in Confirms : toSender' = Append(toSender, m)
      <4>1. CASE AnswerDuplicate(a)
        BY <3>1, <4>1 DEF AnswerDuplicate, ToSender, Confirms
      <4>2. CASE AnswerBreakPoint(a)
        <5>1. Head(prompts).file \in Files /\ Head(prompts).n \in Nat
          BY <3>1 DEF Confirms
        <5> QED
          BY <4>2, <5>1, FileMessages DEF AnswerBreakPoint, ToSender
      <4> QED
        BY <2>2, <4>1, <4>2
    <3>3. \A m \in Confirms : m \in Replies /\ m.kind # "done"
      BY DEF Confirms, Replies
    <3> QED
      BY <3>2, <3>3
  <2> QED
    BY <2>1, <2>2 DEF User
<1>3. Over' => Over
  BY <1>1, <1>2, NotOver
<1> QED
  BY <1>1, <1>3, SameEnds, EndStep

\* send_files posts Done when it has started all of its tasks and they have ended.
LEMMA SendFilesEnd ==
  ASSUME Steady, Spawned, NEW r \in Runs, SendFiles(r)
  PROVE  EndInv'
<1> USE DEF Steady
<1>1. /\ UNCHANGED <<link, conn, runs, toSender, completed, receiveDone, rstate>>
      /\ toReceiver \in Seq(Requests)
  BY DEF SendFiles, NextFile, SpawnTask, JoinTasks, Dispatch, Typed, TypeInv
<1>2. \A s \in Runs : Live(s)' <=> Live(s)
  BY <1>1, SameConn DEF Live, Cancelled
<1>3. Over' => Over
  BY <1>1, NotOver
<1>4. ASSUME NEW pc, Go(r, pc)
      PROVE  /\ run'[r].pc = pc /\ run'[r].next = run[r].next
             /\ \A s \in Runs \ {r} : run'[s] = run[s]
  <2>1. run' = [run EXCEPT ![r] = [run[r] EXCEPT !.pc = pc]]
    BY <1>4 DEF Go, Typed, TypeInv
  <2>2. [run[r] EXCEPT !.pc = pc].pc = pc /\ [run[r] EXCEPT !.pc = pc].next = run[r].next
    BY DEF Typed, TypeInv, Calls
  <2> QED
    BY <2>1, <2>2 DEF Typed, TypeInv
<1>5. \A s \in Runs : Live(s) /\ run[s].pc = "join" => run[s].next > NumFiles
  BY DEF EndInv
<1>6. CASE NextFile(r)
  <2>1. toReceiver' = toReceiver /\ task' = task
    BY <1>6 DEF NextFile
  <2>2. ASSUME NEW s \in Runs, Live(s), run'[s].pc = "join" PROVE run'[s].next > NumFiles
    <3>1. CASE s = r
      <4>1. run[r].next > NumFiles
        <5>1. Go(r, IF Cancelled(r) \/ run[r].next > NumFiles THEN "join" ELSE "acquire")
              /\ ~Cancelled(r)
          BY <1>6, <2>2, <3>1 DEF NextFile, Live
        <5> QED
          BY <1>4, <2>2, <3>1, <5>1
      <4> QED
        BY <1>4, <1>6, <3>1, <4>1 DEF NextFile
    <3>2. CASE s # r
      BY <1>4, <1>5, <1>6, <2>2, <3>2 DEF NextFile
    <3> QED
      BY <3>1, <3>2
  <2> QED
    BY <1>1, <1>2, <1>3, <2>1, <2>2, EndStep
<1>7. CASE SpawnTask(r)
  <2>1. /\ run[r].next \in Files /\ toReceiver' = toReceiver
        /\ Turn(r, run[r].next, "start")
    BY <1>7 DEF SpawnTask, InRun, Turn, Typed, TypeInv, Calls
  <2>2. \A s \in Runs, f \in Files : task'[s][f] = "ok" => task[s][f] = "ok"
    BY <2>1, TurnType
  <2>3. run'[r].pc = "loop" /\ \A s \in Runs \ {r} : run'[s] = run[s]
    <3>1. run' = [run EXCEPT ![r] = [run[r] EXCEPT !.pc = "loop", !.next = run[r].next + 1]]
      BY <1>7 DEF SpawnTask, Typed, TypeInv
    <3>2. [run[r] EXCEPT !.pc = "loop", !.next = run[r].next + 1].pc = "loop"
      BY DEF Typed, TypeInv, Calls
    <3> QED
      BY <3>1, <3>2 DEF Typed, TypeInv
  <2>4. \A s \in Runs : Live(s) /\ run'[s].pc = "join" => run'[s].next > NumFiles
    BY <1>5, <2>3
  <2> QED
    BY <1>1, <1>2, <1>3, <2>1, <2>2, <2>4, EndStep
<1>8. CASE Dispatch(r)
  <2>1. UNCHANGED <<run, task, toReceiver>>
    BY <1>8 DEF Dispatch
  <2> QED
    BY <1>1, <1>3, <2>1, SameEnds, EndStep
<1>9. CASE JoinTasks(r)
  <2>1. /\ task' = task /\ run[r].pc = "join" /\ r <= runs /\ Active(r) = {}
        /\ \E pc \in {"done", "failed"} : Go(r, pc)
    BY <1>9 DEF JoinTasks, InRun
  <2>2. \A s \in Runs : Live(s) /\ run'[s].pc = "join" => run'[s].next > NumFiles
    BY <1>4, <1>5, <2>1
  <2>3. Msg("Done", 0, 0) \in Requests
    BY PlainMessages
  <2>4. CASE toReceiver' = toReceiver
    BY <1>1, <1>2, <1>3, <2>1, <2>2, <2>4, EndStep
  <2>5. CASE toReceiver' # toReceiver
    <3>1. /\ Live(r) /\ toReceiver' = Append(toReceiver, Msg("Done", 0, 0))
          /\ \A f \in Files : task[r][f] # "failed"
      BY <1>9, <2>1, <2>5 DEF JoinTasks, Post, ToReceiver, Live
    <3>2. run[r].next > NumFiles /\ run[r].next \in Nat
      BY <1>5, <2>1, <3>1 DEF Typed, TypeInv, Calls
    <3>3. ASSUME NEW f \in Files PROVE task[r][f] = "ok"
      <4>1. ~(run[r].next <= f)
        BY <3>2, ReconnectAssumption DEF Files
      <4>2. task[r][f] # "none"
        BY <4>1 DEF Spawned
      <4> QED
        BY <2>1, <3>1, <4>2 DEF Active, Ended
    <3>4. \A f \in Files : rstate = "run" => Settled(f) \/ Ends(toReceiver, f, Len(toReceiver))
      BY <3>1, <3>3 DEF EndInv, FileEnds
    <3> QED
      BY <1>1, <1>2, <1>3, <2>1, <2>2, <2>3, <3>1, <3>4, EndStep
  <2> QED
    BY <2>4, <2>5
<1> QED
  BY <1>6, <1>7, <1>8, <1>9 DEF SendFiles

\* A task of a live call ends well behind its FileDone, or because the user refused
\* the file.
LEMMA TaskEnd ==
  ASSUME Steady, CopyInv, NEW r \in Runs, NEW f \in Files,
         SendSingleFile(r, f) \/ TaskFails(r, f)
  PROVE  EndInv'
<1> USE DEF Steady
<1>1. /\ UNCHANGED <<link, conn, runs, run, toSender, completed, receiveDone, rstate>>
      /\ toReceiver \in Seq(Requests) /\ task[r][f] # "none"
  BY DEF SendSingleFile, ResumeFile, RequestFile, FileKept, FileConfirmed, Confirmed,
         ConfirmTimeout, StreamCancelled, SendChunk, SendFileDone, TaskFails, InTask, Typed, TypeInv
<1>2. \A s \in Runs : Live(s)' <=> Live(s)
  BY <1>1, SameConn DEF Live, Cancelled
<1>3. Over' => Over
  BY <1>1, NotOver
<1>4. \/ toReceiver' = toReceiver
      \/ \E m \in Requests : m.type # "Done" /\ toReceiver' = Append(toReceiver, m)
  <2>1. \A n \in Nat :
          /\ Msg("NewFileRequest", f, n) \in Requests /\ Msg("NewFileRequest", f, n).type # "Done"
          /\ Msg("BreakPoint", f, n) \in Requests /\ Msg("BreakPoint", f, n).type # "Done"
          /\ Msg("FileDone", f, n) \in Requests /\ Msg("FileDone", f, n).type # "Done"
          /\ n \in 1..Len(Source[f]) => /\ Msg("FileData", f, n) \in Requests
                                        /\ Msg("FileData", f, n).type # "Done"
    BY FileMessages, MessageIs
  <2>2. resume[r][f] \in Nat /\ pos[r][f] \in Nat /\ Len(Source[f]) \in Nat
    BY ReconnectAssumption DEF Typed, TypeInv
  <2>3. FileConfirmed(r, f) => told[r][f].n \in Nat
    BY DEF FileConfirmed, Confirmed, Typed, TypeInv, Confirms
  <2>4. SendChunk(r, f) => pos[r][f] + 1 \in 1..Len(Source[f]) /\ pos[r][f] + 1 \in Nat
    BY <2>2 DEF SendChunk
  <2> QED
    BY <2>1, <2>2, <2>3, <2>4
       DEF SendSingleFile, ResumeFile, RequestFile, FileKept, FileConfirmed, ConfirmTimeout,
           StreamCancelled, SendChunk, SendFileDone, TaskFails, Post, ToReceiver
<1>5. \A s \in Runs, g \in Files : s # r \/ g # f => task'[s][g] = task[s][g]
  <2>1. task' = task \/ \E pc \in {"start", "wait", "stream", "ok", "failed"} : Turn(r, f, pc)
    BY DEF SendSingleFile, ResumeFile, RequestFile, FileKept, FileConfirmed, ConfirmTimeout,
           StreamCancelled, SendChunk, SendFileDone, TaskFails
  <2> QED
    BY <2>1, TurnType
<1>6. ASSUME Live(r), task'[r][f] = "ok"
      PROVE  \/ task[r][f] = "ok"
             \/ Settled(f) \/ Ends(toReceiver', f, Len(toReceiver'))
  <2>1. CASE FileKept(r, f)
    <3>1. told[r][f] \in AptConfirms /\ told[r][f].file = f /\ ~told[r][f].accept
      BY <2>1 DEF FileKept, Confirmed, CopyInv, Known
    <3> QED
      BY <3>1 DEF AptConfirms, Settled
  <2>2. CASE SendFileDone(r, f)
    <3>1. toReceiver' = Append(toReceiver, Msg("FileDone", f, 0))
      BY <1>1, <1>6, <2>2, PostLive DEF SendFileDone
    <3>2. IsEnd(toReceiver'[Len(toReceiver')], f) /\ Len(toReceiver') \in 1..Len(toReceiver')
      BY <1>1, <3>1, MessageIs, AppendParts DEF IsEnd
    <3> QED
      BY <3>2 DEF Ends
  <2>3. ~StreamCancelled(r, f)
    BY <1>6 DEF StreamCancelled, Live
  <2>4. CASE ResumeFile(r, f) \/ RequestFile(r, f) \/ FileConfirmed(r, f) \/ ConfirmTimeout(r, f)
             \/ TaskFails(r, f)
    <3>1. \E pc \in {"wait", "stream", "failed"} : Turn(r, f, pc)
      BY <2>4 DEF ResumeFile, RequestFile, FileConfirmed, ConfirmTimeout, TaskFails
    <3> QED
      BY <1>6, <3>1, TurnType
  <2>5. CASE SendChunk(r, f)
    BY <1>6, <2>5 DEF SendChunk
  <2> QED
    BY <2>1, <2>2, <2>3, <2>4, <2>5 DEF SendSingleFile
<1>7. ASSUME NEW s \in Runs, Live(s)'
      PROVE  /\ run'[s].pc = "join" => run'[s].next > NumFiles
             /\ \A g \in Files : rstate' = "run" /\ task'[s][g] = "ok" =>
                  \/ Live(s) /\ task[s][g] = "ok"
                  \/ Settled(g) \/ Ends(toReceiver', g, Len(toReceiver'))
  <2>1. Live(s)
    BY <1>2, <1>7
  <2>2. run'[s].pc = "join" => run'[s].next > NumFiles
    BY <1>1, <2>1 DEF EndInv
  <2>3. ASSUME NEW g \in Files, task'[s][g] = "ok"
        PROVE  \/ task[s][g] = "ok"
               \/ Settled(g) \/ Ends(toReceiver', g, Len(toReceiver'))
    BY <1>5, <1>6, <2>1, <2>3
  <2> QED
    BY <2>1, <2>2, <2>3
<1> QED
  BY <1>1, <1>3, <1>4, <1>7, EndStep

-----------------------------------------------------------------------------
LEMMA EndInit == Init => EndInv
<1> SUFFICES ASSUME Init PROVE EndInv
  OBVIOUS
<1>1. runs = 0 /\ toReceiver = <<>> /\ completed = FALSE /\ receiveDone = FALSE
  BY DEF Init
<1>2. \A r \in Runs : ~Live(r)
  BY <1>1 DEF Live, Runs
<1>3. ~Over
  <2>1. \A m : DOMAIN <<m>> = 1..1 /\ <<m>>[1] = m
    OBVIOUS
  <2>2. \A i \in DOMAIN toSender : i = 1 /\ toSender[1] = Reply("ready", 0, FALSE, 0)
    BY <2>1 DEF Init
  <2>3. Reply("ready", 0, FALSE, 0).kind = "ready"
    BY DEF Reply
  <2> QED
    BY <1>1, <2>2, <2>3 DEF Over
<1> QED
  BY <1>1, <1>2, <1>3 DEF EndInv, FileEnds

LEMMA EndNext ==
  ASSUME ~EarlyLoss
  PROVE  Copying /\ Decided /\ EndInv /\ [Next]_vars => EndInv'
<1> SUFFICES ASSUME Copying, Decided, EndInv, [Next]_vars, ReceiverStayed', 0 \notin mixed'
             PROVE  EndInv'
  BY DEF EndInv
<1>0. Typed /\ OneCall /\ LateCalm /\ Spawned /\ CopyInv
  BY DEF Copying
<1>1. Steady
  BY <1>0, TypedNext, SettledStays, RejectedStays, StayedBefore DEF Steady
<1>2. CASE UNCHANGED vars
  <2>1. UNCHANGED <<link, conn, runs, run, task, toReceiver, toSender, completed, receiveDone,
                    rstate>>
    BY <1>2 DEF vars
  <2>2. Over' => Over
    BY <1>1, <2>1, NotOver DEF Steady
  <2> QED
    BY <1>1, <2>1, <2>2, SameEnds, EndStep DEF Steady
<1>3. CASE Connections \/ SenderBack \/ Joined \/ ReceiverBack
  BY <1>0, <1>1, <1>3, ConnectionsEnd
<1>4. CASE \/ Ready \/ ShareAccepted \/ ShareRejected \/ ResumeState
           \/ EnqueueConfirm \/ DoneReplied \/ ClientEnds
  BY <1>0, <1>1, <1>4, LoopEnd
<1>5. CASE ReceiverLoop /\ ~ReceiverBack
  BY <1>0, <1>1, <1>5, ReceiverEnd
<1>6. CASE User
  BY <1>0, <1>1, <1>6, UserEnd
<1>7. CASE \E r \in Runs : SendFiles(r)
  BY <1>0, <1>1, <1>7, SendFilesEnd
<1>8. CASE \E r \in Runs, f \in Files : SendSingleFile(r, f) \/ TaskFails(r, f)
  BY <1>0, <1>1, <1>8, TaskEnd
<1> QED
  BY <1>2, <1>3, <1>4, <1>5, <1>6, <1>7, <1>8 DEF Next, SenderLoop

\* As long as the receiver keeps its connection, and the sender loses none before it
\* has started to send on it, when the sender reports Completed or the receiver
\* ReceiveDone, every file was received or refused: a Done that arrives comes behind
\* every FileDone, unless it is one that the relay still held of a lost connection.
THEOREM DoneSettles == ASSUME ~EarlyLoss PROVE Spec => []DoneIsComplete
<1>1. Copying /\ Decided /\ EndInv => DoneIsComplete
  BY DEF EndInv, FileEnds, Over, Settled, Rejected, DoneIsComplete
<1>2. Init => Decided /\ EndInv
  BY DecidedInit, EndInit
<1>3. Copying /\ Decided /\ EndInv /\ [Next]_vars => (Decided /\ EndInv)'
  BY DecidedNext, EndNext DEF Copying
<1> QED
  BY <1>1, <1>2, <1>3, CopyingAlways, PTL DEF Spec
=============================================================================
