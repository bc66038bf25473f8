---------------------------- MODULE RelayChannel ----------------------------
(***************************************************************************)
(* One session of the relay: the two bounded queues of its user pair, the  *)
(* `channel` calls that attach connections to it, each with a task running *)
(* `handle_streaming`, the `close` calls, and the session's shutdown.      *)
(*                                                                         *)
(* A client of either side may be gone before the relay notices; it may    *)
(* then come back with another connection, whose handler shares the        *)
(* session's queues with the handler of the first one.                     *)
(***************************************************************************)
EXTENDS Naturals, Sequences

CONSTANTS
  SenderConns,   \* connections of clients that join as Character::Sender
  ReceiverConns, \* connections of clients that join as Character::Receiver
  Closers,       \* calls of close
  QueueCap,      \* capacity of a session queue (256)
  TxCap,         \* capacity of the mpsc channel of a connection (256)
  StreamCap,     \* bound: messages of a client not yet read by its handler
  Sends,         \* bound: Sends[c] is the number of updates c's client sends
  Pinging,       \* bound: connections whose client pings
  Failing,       \* connections whose client may go
  MayExpire,     \* whether the session may expire
  NoConn

Conns == SenderConns \cup ReceiverConns

ASSUME CapacityAssumption ==
  /\ QueueCap \in Nat \ {0} /\ TxCap \in Nat \ {0} /\ StreamCap \in Nat \ {0}
  /\ Sends \in [Conns -> Nat]
  /\ SenderConns \cap ReceiverConns = {}
  /\ NoConn \notin Conns

VARIABLES
  queue,      \* the sharer's and the recipient's update queue
  pc,         \* control state of channel and handle_streaming of a connection
  held,       \* the message a handler took and has not passed on
  stream,     \* messages of the client that the handler has not read
  tx,         \* messages for the client that it has not read
  client,     \* the client of a connection: "on", "ready" to ask; or "gone" and
              \* then "noticed" by the relay
  sent,       \* history: the number of updates the client sent
  got,        \* history: the updates of the other side the client read
  closer,     \* control state of each call of close
  terminated  \* the session was shut down

connVars == <<pc, held, stream, tx>>
clientVars == <<client, sent, got>>
vars == <<queue, connVars, clientVars, closer, terminated>>

\* The n-th update of a client, and the messages that carry nothing of it.
Update(c, n) == [kind |-> "update", from |-> c, n |-> n]
Own(kind) == [kind |-> kind, from |-> NoConn, n |-> 0]

\* handle_streaming reads from the queue of its own side and feeds the other.
Inbox(c)  == IF c \in SenderConns THEN "sharer" ELSE "recipient"
Outbox(c) == IF c \in SenderConns THEN "recipient" ELSE "sharer"

Side(c) == IF c \in SenderConns THEN SenderConns ELSE ReceiverConns

Alive(c) == client[c] \in {"on", "ready"}

HasRoom(q) == Len(queue[q]) < QueueCap

Init ==
  /\ queue = [q \in {"sharer", "recipient"} |-> <<>>]
  /\ pc = [c \in Conns |-> "new"]
  /\ held = [c \in Conns |-> Own("none")]
  /\ stream = [c \in Conns |-> <<>>]
  /\ tx = [c \in Conns |-> <<>>]
  /\ client = [c \in Conns |-> "on"]
  /\ sent = [c \in Conns |-> 0]
  /\ got = [c \in Conns |-> <<>>]
  /\ closer = [k \in Closers |-> "new"]
  /\ terminated = FALSE

-----------------------------------------------------------------------------
(* channel: look the session up, answer Joined; a receiver's connection    *)
(* broadcasts Ready to both queues before its handler is spawned.          *)

Open(c) ==
  /\ pc[c] = "new" /\ Alive(c)
  /\ ~terminated
  /\ tx' = [tx EXCEPT ![c] = <<Own("joined")>>]
  /\ pc' = [pc EXCEPT ![c] = IF c \in ReceiverConns THEN "readySharer" ELSE "select"]
  /\ UNCHANGED <<queue, held, stream, clientVars, closer, terminated>>

Broadcast(c, here, q, next) ==
  /\ pc[c] = here
  /\ HasRoom(q)
  /\ queue' = [queue EXCEPT ![q] = Append(@, Own("ready"))]
  /\ pc' = [pc EXCEPT ![c] = next]
  /\ UNCHANGED <<held, stream, tx, clientVars, closer, terminated>>

BroadcastReady(c) == \/ Broadcast(c, "readySharer", "sharer", "readyRecipient")
                     \/ Broadcast(c, "readyRecipient", "recipient", "select")

-----------------------------------------------------------------------------
(* handle_streaming: one branch of its select! at a time.                  *)

\* A branch that keeps m while it waits for room in the place `next` names.
Hold(c, m, next) ==
  /\ held' = [held EXCEPT ![c] = m]
  /\ pc' = [pc EXCEPT ![c] = next]

\* Mutant of TakeUpdate: a receive that the select! drops takes its message along.
TakeUpdateUnsafe(c) ==
  /\ pc[c] = "select"
  /\ queue[Inbox(c)] # <<>>
  /\ \/ Hold(c, Head(queue[Inbox(c)]), "send")
     \/ UNCHANGED <<held, pc>>
  /\ queue' = [queue EXCEPT ![Inbox(c)] = Tail(@)]
  /\ UNCHANGED <<stream, tx, clientVars, closer, terminated>>

TakeUpdate(c) ==
  /\ pc[c] = "select"
  /\ queue[Inbox(c)] # <<>>
  /\ Hold(c, Head(queue[Inbox(c)]), "send")
  /\ queue' = [queue EXCEPT ![Inbox(c)] = Tail(@)]
  /\ UNCHANGED <<stream, tx, clientVars, closer, terminated>>

\* handle_update: a ping is answered, anything else goes to the other side.
TakeStream(c) ==
  /\ pc[c] = "select"
  /\ stream[c] # <<>>
  /\ stream' = [stream EXCEPT ![c] = Tail(@)]
  /\ LET m == Head(stream[c]) IN
     IF m.kind = "ping" THEN Hold(c, Own("pong"), "send") ELSE Hold(c, m, "push")
  /\ UNCHANGED <<queue, tx, clientVars, closer, terminated>>

\* Mutant of Push: try_send, which loses the message when the queue is full.
TryPush(c) ==
  /\ pc[c] = "push"
  /\ queue' = IF HasRoom(Outbox(c))
                THEN [queue EXCEPT ![Outbox(c)] = Append(@, held[c])] ELSE queue
  /\ Hold(c, Own("none"), "select")
  /\ UNCHANGED <<stream, tx, clientVars, closer, terminated>>

\* update_tx.send(..).await, outside of the select!.
Push(c) ==
  /\ pc[c] = "push"
  /\ HasRoom(Outbox(c))
  /\ queue' = [queue EXCEPT ![Outbox(c)] = Append(@, held[c])]
  /\ Hold(c, Own("none"), "select")
  /\ UNCHANGED <<stream, tx, clientVars, closer, terminated>>

\* Mutant of Send: a message that was not delivered goes back to its queue.
SendOrRequeue(c) ==
  /\ pc[c] \in {"send", "farewell"}
  /\ IF client[c] = "noticed"
       THEN /\ Hold(c, Own("none"), "ended")
            /\ queue' = [queue EXCEPT ![Inbox(c)] = Append(@, held[c])]
            /\ UNCHANGED tx
       ELSE /\ Len(tx[c]) < TxCap
            /\ tx' = [tx EXCEPT ![c] = Append(@, held[c])]
            /\ Hold(c, Own("none"), IF pc[c] = "send" THEN "select" ELSE "ended")
            /\ UNCHANGED queue
  /\ UNCHANGED <<stream, clientVars, closer, terminated>>

\* send_msg: wait for room.  On a connection that is known to be gone the three
\* attempts fail alike and the handler ends with the message.
Send(c) ==
  /\ pc[c] \in {"send", "farewell"}
  /\ IF client[c] = "noticed"
       THEN Hold(c, Own("none"), "ended") /\ UNCHANGED tx
       ELSE /\ Len(tx[c]) < TxCap
            /\ tx' = [tx EXCEPT ![c] = Append(@, held[c])]
            /\ Hold(c, Own("none"), IF pc[c] = "send" THEN "select" ELSE "ended")
  /\ UNCHANGED <<queue, stream, clientVars, closer, terminated>>

\* The client has hung up: stream.next() gives an error or the end.
HungUp(c) ==
  /\ pc[c] = "select" /\ client[c] = "noticed"
  /\ pc' = [pc EXCEPT ![c] = "ended"]
  /\ UNCHANGED <<queue, held, stream, tx, clientVars, closer, terminated>>

\* Mutant of Exit: the loop goes on after the signal.
ExitGoesOn(c) ==
  /\ pc[c] = "select" /\ terminated
  /\ Hold(c, Own("error"), "send")
  /\ UNCHANGED <<queue, stream, tx, clientVars, closer, terminated>>

\* Exit on a session shutdown signal.
Exit(c) ==
  /\ pc[c] = "select" /\ terminated
  /\ Hold(c, Own("error"), "farewell")
  /\ UNCHANGED <<queue, stream, tx, clientVars, closer, terminated>>

-----------------------------------------------------------------------------
(* close: broadcast Terminated, wait 100 ms, shut the session down.        *)

CloseStep(k, here, q, next) ==
  /\ closer[k] = here
  /\ HasRoom(q)
  /\ queue' = [queue EXCEPT ![q] = Append(@, Own("terminated"))]
  /\ closer' = [closer EXCEPT ![k] = next]
  /\ UNCHANGED <<connVars, clientVars, terminated>>

CloseBegin(k) ==
  /\ closer[k] = "new" /\ ~terminated
  /\ closer' = [closer EXCEPT ![k] = "sharer"]
  /\ UNCHANGED <<queue, connVars, clientVars, terminated>>

CloseBroadcast(k) == \/ CloseStep(k, "sharer", "sharer", "recipient")
                     \/ CloseStep(k, "recipient", "recipient", "sleep")

\* Mutant of CloseSession: Terminated has to be taken before the shutdown.
CloseSessionDrained(k) ==
  /\ closer[k] = "sleep"
  /\ \A q \in DOMAIN queue : queue[q] = <<>>
  /\ terminated' = TRUE
  /\ closer' = [closer EXCEPT ![k] = "done"]
  /\ UNCHANGED <<queue, connVars, clientVars>>

CloseSession(k) ==
  /\ closer[k] = "sleep"
  /\ terminated' = TRUE
  /\ closer' = [closer EXCEPT ![k] = "done"]
  /\ UNCHANGED <<queue, connVars, clientVars>>

\* A serving handler sees a ping of its client every two seconds, so a session
\* expires only when no handler serves a client.
Expire ==
  /\ MayExpire /\ ~terminated
  /\ \A c \in Conns : pc[c] = "select" => ~Alive(c)
  /\ terminated' = TRUE
  /\ UNCHANGED <<queue, connVars, clientVars, closer>>

-----------------------------------------------------------------------------
(* The clients.                                                            *)

Transmit(c, m) ==
  /\ Alive(c) /\ pc[c] \notin {"new", "ended"}
  /\ Len(stream[c]) < StreamCap
  /\ stream' = [stream EXCEPT ![c] = Append(@, m)]
  /\ UNCHANGED <<queue, pc, held, tx, client, got, closer, terminated>>

\* A sender asks once (SendRequest, ResumeRequest); beyond that each client
\* sends only after it has heard of the other one.
MaySend(c) ==
  \/ got[c] # <<>>
  \/ c \in SenderConns /\ client[c] = "ready" /\ sent[c] = 0

ClientSend(c) ==
  /\ MaySend(c) /\ sent[c] < Sends[c]
  /\ Transmit(c, Update(c, sent[c] + 1))
  /\ sent' = [sent EXCEPT ![c] = @ + 1]

ClientPing(c) == c \in Pinging /\ Transmit(c, Own("ping")) /\ UNCHANGED sent

\* A sender asks when it hears Ready, or Joined on a later connection.
MakesReady(c, kind) ==
  \/ kind = "ready"
  \/ kind = "joined" /\ \E e \in Side(c) \ {c} : pc[e] # "new"

ClientReceive(c) ==
  /\ Alive(c) /\ tx[c] # <<>>
  /\ LET m == Head(tx[c]) IN
     /\ got' = IF m.kind = "update" THEN [got EXCEPT ![c] = Append(@, m)] ELSE got
     /\ client' = IF MakesReady(c, m.kind) THEN [client EXCEPT ![c] = "ready"] ELSE client
  /\ tx' = [tx EXCEPT ![c] = Tail(@)]
  /\ UNCHANGED <<queue, pc, held, stream, sent, closer, terminated>>

\* The client is gone.  Until the relay notices, what it sends is lost quietly.
ClientGone(c) ==
  /\ Alive(c) /\ c \in Failing
  /\ client' = [client EXCEPT ![c] = "gone"]
  /\ UNCHANGED <<queue, connVars, sent, got, closer, terminated>>

Notice(c) ==
  /\ client[c] = "gone"
  /\ client' = [client EXCEPT ![c] = "noticed"]
  /\ UNCHANGED <<queue, connVars, sent, got, closer, terminated>>

-----------------------------------------------------------------------------
Handle(c) == \/ BroadcastReady(c) \/ TakeUpdate(c) \/ TakeStream(c)
             \/ Push(c) \/ Send(c) \/ HungUp(c) \/ Exit(c)

Next == \/ \E c \in Conns : \/ Open(c) \/ Handle(c) \/ ClientSend(c) \/ ClientPing(c)
                            \/ ClientReceive(c) \/ ClientGone(c) \/ Notice(c)
        \/ \E k \in Closers : CloseBegin(k) \/ CloseBroadcast(k) \/ CloseSession(k)
        \/ Expire

\* A task that can go on is polled; keep-alive notices a client that is gone; a client
\* that is there reads.  Only pings have no end, so only they could starve the other
\* branches of a select!, which picks among those that are ready at random.
Fairness ==
  /\ \A c \in Conns : WF_vars(Handle(c)) /\ WF_vars(ClientReceive(c)) /\ WF_vars(Notice(c))
  /\ \A c \in Pinging : SF_vars(TakeUpdate(c)) /\ SF_vars(Exit(c))
  /\ \A k \in Closers : WF_vars(CloseBroadcast(k)) /\ WF_vars(CloseSession(k))

Spec == Init /\ [][Next]_vars
FairSpec == Spec /\ Fairness

-----------------------------------------------------------------------------
(* Properties.                                                             *)

\* Whatever clients go and come back, a connection reads the updates of another
\* one in the order they were sent, only those of the other side, and none that
\* another connection of its own side has read: two handlers share a queue, and
\* send_msg tries up to three times.
InOrder ==
  \A c, d \in Conns :
    /\ \A i \in DOMAIN got[c] : got[c][i].from \notin Side(c)
    /\ \A i, j \in DOMAIN got[c] :
         i < j /\ got[c][i].from = got[c][j].from => got[c][i].n < got[c][j].n
    /\ \A i \in DOMAIN got[c], j \in DOMAIN got[d] : got[c][i] = got[d][j] => c = d

\* While no other connection of its side was opened, a connection misses no
\* update: before the n-th update of another one it has read the n - 1 others.
NoGap ==
  \A c \in Conns :
    (\A e \in Side(c) \ {c} : pc[e] = "new") =>
      \A i \in DOMAIN got[c] : \A n \in 1..(got[c][i].n - 1) :
        \E j \in 1..(i - 1) : got[c][j] = Update(got[c][i].from, n)

\* As long as no client leaves and the session lives, all updates get read: the
\* two directions wait for each other when both queues are full, and with few
\* updates back (the receiver only answers) they do not come to that.
AllRead ==
  \A c \in Conns : \A n \in 1..sent[c] :
    \E d \in Conns \ Side(c) : \E i \in DOMAIN got[d] : got[d][i] = Update(c, n)

Calm == ~terminated /\ \A c \in Conns : Alive(c)

Delivered == []Calm => []<>AllRead

\* c's handler, or its channel call, waits for room in the full queue q.
Waits(c, q) ==
  /\ ~HasRoom(q)
  /\ \/ pc[c] = "push" /\ q = Outbox(c)
     \/ pc[c] = "readySharer" /\ q = "sharer"
     \/ pc[c] = "readyRecipient" /\ q = "recipient"

\* A full queue whose every reader is gone or waits for room itself.
Jammed(q) ==
  /\ ~HasRoom(q)
  /\ \A c \in Conns : Inbox(c) = q =>
       pc[c] \in {"new", "ended"} \/ \E p \in DOMAIN queue : Waits(c, p)

\* A session that was shut down gets rid of its handlers, although each sees the
\* signal only between two messages; one that waits for room in a queue with no
\* reader left is the only one to stay (and keeps the session in memory).
ShutEndsHandlers ==
  terminated ~>
    \A c \in Conns : \/ pc[c] \in {"new", "ended"}
                     \/ \E q \in DOMAIN queue : Waits(c, q) /\ Jammed(q)

\* A close that was begun shuts its session down although it first has to get
\* Terminated into both queues; only a queue without a reader keeps it from that.
CloseEnds ==
  \A k \in Closers : closer[k] # "new" ~>
    \/ closer[k] = "done"
    \/ closer[k] \in DOMAIN queue /\ Jammed(closer[k])
=============================================================================
