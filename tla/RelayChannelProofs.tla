------------------------- MODULE RelayChannelProofs -------------------------
(***************************************************************************)
(* Proofs about a relay session, for any connections of either side, any   *)
(* capacities of the queues and channels and any number of updates.        *)
(***************************************************************************)
EXTENDS RelayChannel, TLAPS

-----------------------------------------------------------------------------
(***************************************************************************)
(* Where an update can be.                                                 *)
(*                                                                         *)
(* An update of d's client lies in the stream of d, is held by d's         *)
(* handler, waits in the queue of the other side, is held by the handler   *)
(* of a connection c there, lies in tx[c], or was read by c's client.      *)
(***************************************************************************)

\* Kinds of messages, and the messages: an update is one of a connection.
Kinds == {"none", "update", "ping", "pong", "ready", "joined", "terminated", "error"}
Messages == {m \in [kind : Kinds, from : Conns \cup {NoConn}, n : Nat] :
               m.kind = "update" => m.from \in Conns}

Queues == {"sharer", "recipient"}
Places == {"new", "readySharer", "readyRecipient", "select", "push", "send",
           "farewell", "ended"}

TypeInv ==
  /\ queue \in [Queues -> Seq(Messages)]
  /\ pc \in [Conns -> Places]
  /\ held \in [Conns -> Messages]
  /\ stream \in [Conns -> Seq(Messages)]
  /\ tx \in [Conns -> Seq(Messages)]
  /\ client \in [Conns -> {"on", "ready", "gone", "noticed"}]
  /\ sent \in [Conns -> Nat]
  /\ got \in [Conns -> Seq(Messages)]

\* The numbers of the updates of d in the message m, and in the messages s.
One(d, m) == {n \in {m.n} : m.kind = "update" /\ m.from = d}
Nums(d, s) == UNION {One(d, s[i]) : i \in DOMAIN s}

Before(X, Y) == \A x \in X, y \in Y : x < y

\* The updates of d in s are in the order they were sent.
Rising(d, s) == \A i, j \in DOMAIN s : i < j => Before(One(d, s[i]), One(d, s[j]))

\* What c has taken of d's updates, and what it may still take.
Taken(c, d) == Nums(d, got[c]) \cup Nums(d, tx[c]) \cup One(d, held[c])
Coming(d) == Nums(d, queue[Outbox(d)]) \cup One(d, held[d]) \cup Nums(d, stream[d])

\* Every update is on its way from its own client to the other side.
Directed ==
  \A c, d \in Conns :
    /\ c # d => Nums(d, stream[c]) = {}
    /\ Nums(d, queue[Inbox(d)]) = {}
    /\ d \in Side(c) => Nums(d, tx[c]) = {} /\ Nums(d, got[c]) = {}
    /\ \A n \in One(d, held[c]) :
         \/ pc[c] = "push" /\ c = d
         \/ pc[c] \in {"send", "farewell"} /\ d \notin Side(c)

\* A client reads updates for its record, and a connection that was not opened
\* has nothing.
OnlyUpdates == \A c \in Conns : \A i \in DOMAIN got[c] : got[c][i].kind = "update"
Unopened ==
  \A c \in Conns : pc[c] = "new" => sent[c] = 0 /\ \A d \in Conns : Taken(c, d) = {}

\* The updates of d on their way to c are in the order they were sent.
Ordered(c, d) ==
  /\ Rising(d, got[c]) /\ Rising(d, tx[c])
  /\ Before(Nums(d, got[c]), Nums(d, tx[c]) \cup One(d, held[c]))
  /\ Before(Nums(d, tx[c]), One(d, held[c]))
  /\ Before(Taken(c, d), Coming(d))
  /\ Taken(c, d) \subseteq 1..sent[d]

OrderedOut(d) ==
  /\ Rising(d, queue[Outbox(d)]) /\ Rising(d, stream[d])
  /\ Before(Nums(d, queue[Outbox(d)]), One(d, held[d]) \cup Nums(d, stream[d]))
  /\ Before(One(d, held[d]), Nums(d, stream[d]))
  /\ Coming(d) \subseteq 1..sent[d]

OrderInv == \A d \in Conns : \A c \in Conns \ Side(d) : Ordered(c, d) /\ OrderedOut(d)

\* No update is taken by two connections.
OnceInv ==
  \A d \in Conns : \A c, e \in Conns \ Side(d) : c # e => Taken(c, d) \cap Taken(e, d) = {}

\* c is the only connection of its side that was opened.
Alone(c) == \A e \in Side(c) \ {c} : pc[e] = "new"

\* A lone connection has taken the first updates of d, and the others are coming.
WholeInv ==
  \A d \in Conns : \A c \in Conns \ Side(d) :
    Alone(c) => /\ \A n \in Taken(c, d) : 1..n \subseteq Taken(c, d)
                /\ pc[c] # "ended" => 1..sent[d] \subseteq Taken(c, d) \cup Coming(d)

RouteInv ==
  /\ TypeInv /\ Directed /\ OnlyUpdates /\ Unopened
  /\ OrderInv /\ OnceInv /\ WholeInv

-----------------------------------------------------------------------------
(* Lemmas about messages and sequences of them.                            *)

\* The two sides are apart: c reads from the queue that d feeds exactly when it
\* is on the other side.
LEMMA Opposite ==
  ASSUME NEW c \in Conns, NEW d \in Conns
  PROVE  /\ c \notin Side(d) <=> Inbox(c) = Outbox(d)
         /\ c \notin Side(d) <=> d \notin Side(c)
         /\ Inbox(c) \in Queues /\ Outbox(c) \in Queues /\ Inbox(c) # Outbox(c)
         /\ c \in Side(c)
         /\ c \in Side(d) => Side(c) = Side(d) /\ Inbox(c) = Inbox(d) /\ Outbox(c) = Outbox(d)
BY CapacityAssumption DEF Conns, Inbox, Outbox, Side, Queues

\* A message has at most one number; one that carries no update has none.
LEMMA OneFacts ==
  ASSUME NEW d \in Conns, NEW m \in Messages
  PROVE  /\ One(d, m) \subseteq Nat
         /\ m.kind # "update" => One(d, m) = {}
         /\ \A x, y \in One(d, m) : x = y
         /\ \A n \in One(d, m) : m.kind = "update" /\ m.from = d /\ n = m.n
         /\ m.kind = "update" /\ m.from = d => m.n \in One(d, m)
BY DEF One, Messages

\* The messages the handlers and clients make.
LEMMA MadeMessages ==
  /\ \A k \in Kinds \ {"update"} : Own(k) \in Messages /\ Own(k).kind = k
  /\ \A c \in Conns, n \in Nat : /\ Update(c, n) \in Messages
                                 /\ Update(c, n).kind = "update"
                                 /\ One(c, Update(c, n)) = {n}
                                 /\ \A d \in Conns : c # d => One(d, Update(c, n)) = {}
<1>1. ASSUME NEW k \in Kinds, k # "update" PROVE Own(k) \in Messages /\ Own(k).kind = k
  BY <1>1 DEF Own, Messages
<1>2. ASSUME NEW c \in Conns, NEW n \in Nat
      PROVE  /\ Update(c, n) \in Messages /\ Update(c, n).kind = "update"
             /\ Update(c, n).from = c /\ Update(c, n).n = n
  BY DEF Update, Messages, Kinds
<1> QED  BY <1>1, <1>2 DEF One

\* What the messages of s carry of d's updates, one by one.
LEMMA NumsOf ==
  ASSUME NEW d \in Conns, NEW s \in Seq(Messages), NEW n
  PROVE  /\ n \in Nums(d, s) <=> \E i \in DOMAIN s : n \in One(d, s[i])
         /\ n \in Nums(d, s) => n \in Nat
<1>1. n \in Nums(d, s) <=> \E i \in DOMAIN s : n \in One(d, s[i])
  BY DEF Nums
<1>2. ASSUME NEW i \in DOMAIN s PROVE One(d, s[i]) \subseteq Nat
  BY OneFacts
<1> QED  BY <1>1, <1>2

\* A message that is appended adds what it carries, behind the others.
LEMMA Appended ==
  ASSUME NEW d \in Conns, NEW s \in Seq(Messages), NEW m \in Messages
  PROVE  /\ Append(s, m) \in Seq(Messages)
         /\ Nums(d, Append(s, m)) = Nums(d, s) \cup One(d, m)
         /\ Rising(d, s) /\ Before(Nums(d, s), One(d, m)) => Rising(d, Append(s, m))
<1> DEFINE a == Append(s, m)
<1>1. a \in Seq(Messages) /\ Len(a) = Len(s) + 1 /\ a[Len(s) + 1] = m
      /\ (\A i \in 1..Len(s) : a[i] = s[i]) /\ Len(s) \in Nat
      /\ DOMAIN s = 1..Len(s) /\ DOMAIN a = 1..(Len(s) + 1)
  OBVIOUS
<1> HIDE DEF a
<1>2. ASSUME NEW n PROVE n \in Nums(d, a) <=> n \in Nums(d, s) \/ n \in One(d, m)
  <2>1. n \in Nums(d, a) <=> \E i \in DOMAIN a : n \in One(d, a[i])
    BY <1>1, NumsOf
  <2>2. n \in Nums(d, s) <=> \E i \in DOMAIN s : n \in One(d, s[i])
    BY NumsOf
  <2>3. ASSUME NEW i \in DOMAIN a, n \in One(d, a[i])
        PROVE  n \in Nums(d, s) \/ n \in One(d, m)
    <3>1. CASE i = Len(s) + 1
      BY <3>1, <2>3, <1>1
    <3>2. CASE i \in 1..Len(s)
      BY <3>2, <2>3, <2>2, <1>1
    <3> QED  BY <3>1, <3>2, <1>1
  <2>4. ASSUME NEW i \in DOMAIN s, n \in One(d, s[i]) PROVE n \in Nums(d, a)
    <3>1. i \in DOMAIN a /\ a[i] = s[i]
      BY <1>1
    <3> QED  BY <3>1, <2>4, <2>1
  <2>5. n \in One(d, m) => n \in Nums(d, a)
    <3>1. Len(s) + 1 \in DOMAIN a /\ a[Len(s) + 1] = m
      BY <1>1
    <3> QED  BY <3>1, <2>1
  <2> QED  BY <2>1, <2>2, <2>3, <2>4, <2>5
<1>3. ASSUME Rising(d, s), Before(Nums(d, s), One(d, m)) PROVE Rising(d, a)
  <2> SUFFICES ASSUME NEW i \in DOMAIN a, NEW j \in DOMAIN a, i < j
               PROVE  Before(One(d, a[i]), One(d, a[j]))
    BY DEF Rising
  <2>1. i \in DOMAIN s /\ a[i] = s[i]
    BY <1>1
  <2>2. CASE j = Len(s) + 1
    <3>1. One(d, s[i]) \subseteq Nums(d, s)
      BY <2>1 DEF Nums
    <3> QED  BY <3>1, <2>1, <2>2, <1>1, <1>3 DEF Before
  <2>3. CASE j \in 1..Len(s)
    BY <2>1, <2>3, <1>1, <1>3 DEF Rising
  <2> QED  BY <2>2, <2>3, <1>1
<1> QED  BY <1>1, <1>2, <1>3 DEF a

\* A message that is taken from the front is before what is left.
LEMMA Taking ==
  ASSUME NEW d \in Conns, NEW s \in Seq(Messages), s # <<>>
  PROVE  /\ Head(s) \in Messages /\ Tail(s) \in Seq(Messages)
         /\ Nums(d, s) = One(d, Head(s)) \cup Nums(d, Tail(s))
         /\ Rising(d, s) => /\ Rising(d, Tail(s))
                            /\ Before(One(d, Head(s)), Nums(d, Tail(s)))
<1> DEFINE t == Tail(s)
<1>1. t \in Seq(Messages) /\ Len(t) = Len(s) - 1 /\ Head(s) = s[1] /\ Len(s) \in Nat \ {0}
      /\ (\A i \in 1..(Len(s) - 1) : t[i] = s[i + 1])
      /\ DOMAIN s = 1..Len(s) /\ DOMAIN t = 1..(Len(s) - 1)
  OBVIOUS
<1> HIDE DEF t
<1>2. Head(s) \in Messages
  BY <1>1
<1>3. ASSUME NEW n PROVE n \in Nums(d, s) <=> n \in One(d, Head(s)) \/ n \in Nums(d, t)
  <2>1. n \in Nums(d, t) <=> \E i \in DOMAIN t : n \in One(d, t[i])
    BY <1>1, NumsOf
  <2>2. n \in Nums(d, s) <=> \E i \in DOMAIN s : n \in One(d, s[i])
    BY NumsOf
  <2>3. ASSUME NEW i \in DOMAIN s, n \in One(d, s[i])
        PROVE  n \in One(d, Head(s)) \/ n \in Nums(d, t)
    <3>1. CASE i = 1
      BY <3>1, <2>3, <1>1
    <3>2. CASE i # 1
      <4>1. i - 1 \in DOMAIN t /\ t[i - 1] = s[i]
        BY <3>2, <1>1
      <4> QED  BY <4>1, <2>3, <2>1
    <3> QED  BY <3>1, <3>2
  <2>4. ASSUME NEW i \in DOMAIN t, n \in One(d, t[i]) PROVE n \in Nums(d, s)
    <3>1. i + 1 \in DOMAIN s /\ s[i + 1] = t[i]
      BY <1>1
    <3> QED  BY <3>1, <2>4, <2>2
  <2>5. n \in One(d, Head(s)) => n \in Nums(d, s)
    <3>1. 1 \in DOMAIN s /\ s[1] = Head(s)
      BY <1>1
    <3> QED  BY <3>1, <2>2
  <2> QED  BY <2>1, <2>2, <2>3, <2>4, <2>5
<1>4. ASSUME Rising(d, s) PROVE Rising(d, t)
  <2> SUFFICES ASSUME NEW i \in DOMAIN t, NEW j \in DOMAIN t, i < j
               PROVE  Before(One(d, t[i]), One(d, t[j]))
    BY DEF Rising
  <2>1. i + 1 \in DOMAIN s /\ j + 1 \in DOMAIN s /\ i + 1 < j + 1
        /\ t[i] = s[i + 1] /\ t[j] = s[j + 1]
    BY <1>1
  <2> QED  BY <2>1, <1>4 DEF Rising
<1>5. ASSUME Rising(d, s) PROVE Before(One(d, Head(s)), Nums(d, t))
  <2> SUFFICES ASSUME NEW x \in One(d, Head(s)), NEW y \in Nums(d, t) PROVE x < y
    BY DEF Before
  <2>1. PICK i \in DOMAIN t : y \in One(d, t[i])
    BY <1>1, NumsOf
  <2>2. 1 \in DOMAIN s /\ i + 1 \in DOMAIN s /\ 1 < i + 1
        /\ Head(s) = s[1] /\ t[i] = s[i + 1]
    BY <1>1
  <2> QED  BY <2>1, <2>2, <1>5 DEF Rising, Before
<1> QED  BY <1>1, <1>2, <1>3, <1>4, <1>5 DEF t

\* No messages carry nothing, and one message is in order.
LEMMA Few ==
  ASSUME NEW d \in Conns
  PROVE  /\ <<>> \in Seq(Messages) /\ Nums(d, <<>>) = {} /\ Rising(d, <<>>)
         /\ \A m \in Messages : /\ <<m>> \in Seq(Messages)
                                /\ Nums(d, <<m>>) = One(d, m)
                                /\ Rising(d, <<m>>)
<1>1. <<>> \in Seq(Messages) /\ Nums(d, <<>>) = {} /\ Rising(d, <<>>)
  BY DEF Nums, Rising
<1>2. ASSUME NEW m \in Messages
      PROVE  <<m>> \in Seq(Messages) /\ Nums(d, <<m>>) = One(d, m) /\ Rising(d, <<m>>)
  <2>1. <<m>> \in Seq(Messages) /\ DOMAIN <<m>> = {1} /\ <<m>>[1] = m
    OBVIOUS
  <2> QED  BY <2>1 DEF Nums, Rising
<1> QED  BY <1>1, <1>2

-----------------------------------------------------------------------------
(* Types and directions.                                                   *)

HandlerVars == <<pc, held, stream, tx>>

\* The steps of a handler keep the types.
LEMMA HandlerType ==
  ASSUME TypeInv, NEW x \in Conns, Open(x) \/ Handle(x)
  PROVE  TypeInv'
<1> USE DEF TypeInv, clientVars
<1>1. /\ \A k \in Kinds \ {"update"} : Own(k) \in Messages
      /\ {"none", "joined", "ready", "pong", "error"} \subseteq Kinds \ {"update"}
  BY MadeMessages DEF Kinds
<1>2. CASE Open(x)
  <2>1. <<Own("joined")>> \in Seq(Messages)
    BY <1>1
  <2> QED  BY <1>2, <2>1 DEF Open, Places
<1>3. ASSUME NEW h, NEW q \in Queues, NEW n \in Places, Broadcast(x, h, q, n) PROVE TypeInv'
  BY <1>3, <1>1 DEF Broadcast
<1>4. CASE TakeUpdate(x)
  <2>1. Inbox(x) \in Queues
    BY DEF Inbox, Queues
  <2>2. Head(queue[Inbox(x)]) \in Messages /\ Tail(queue[Inbox(x)]) \in Seq(Messages)
    BY <1>4, <2>1 DEF TakeUpdate
  <2> QED  BY <1>4, <2>1, <2>2 DEF TakeUpdate, Hold, Places
<1>5. CASE TakeStream(x)
  <2>2. Head(stream[x]) \in Messages /\ Tail(stream[x]) \in Seq(Messages)
    BY <1>5 DEF TakeStream
  <2> QED  BY <1>5, <1>1, <2>2 DEF TakeStream, Hold, Places
<1>6. CASE Push(x)
  <2>1. Outbox(x) \in Queues
    BY DEF Outbox, Queues
  <2>2. Append(queue[Outbox(x)], held[x]) \in Seq(Messages)
    BY <2>1
  <2> QED  BY <1>6, <1>1, <2>1, <2>2 DEF Push, Hold, Places
<1>7. CASE Send(x)
  <2>2. Append(tx[x], held[x]) \in Seq(Messages) /\ Own("none") \in Messages
    BY <1>1
  <2> QED  BY <1>7, <1>1, <2>2 DEF Send, Hold, Places
<1>8. CASE HungUp(x)
  BY <1>8 DEF HungUp, Places
<1>9. CASE Exit(x)
  BY <1>9, <1>1 DEF Exit, Hold, Places
<1> QED
  BY <1>2, <1>3, <1>4, <1>5, <1>6, <1>7, <1>8, <1>9
     DEF Handle, BroadcastReady, Places, Queues

\* The steps of the clients and of close keep the types.
LEMMA OtherType ==
  ASSUME TypeInv,
         \/ \E c \in Conns : \/ ClientSend(c) \/ ClientPing(c) \/ ClientReceive(c)
                             \/ ClientGone(c) \/ Notice(c)
         \/ \E k \in Closers : CloseBegin(k) \/ CloseBroadcast(k) \/ CloseSession(k)
         \/ Expire
  PROVE  TypeInv'
<1> USE DEF TypeInv, connVars
<1>1. /\ \A k \in Kinds \ {"update"} : Own(k) \in Messages
      /\ {"terminated", "ping"} \subseteq Kinds \ {"update"}
  BY MadeMessages DEF Kinds
<1>2. ASSUME NEW c \in Conns, ClientSend(c) PROVE TypeInv'
  <2>1. Append(stream[c], Update(c, sent[c] + 1)) \in Seq(Messages)
    BY MadeMessages
  <2> QED  BY <1>2, <2>1 DEF ClientSend, Transmit
<1>3. ASSUME NEW c \in Conns, ClientPing(c) PROVE TypeInv'
  <2>1. Append(stream[c], Own("ping")) \in Seq(Messages)
    BY <1>1
  <2> QED  BY <1>3, <2>1 DEF ClientPing, Transmit
<1>4. ASSUME NEW c \in Conns, ClientReceive(c) PROVE TypeInv'
  <2>1. /\ Head(tx[c]) \in Messages /\ Tail(tx[c]) \in Seq(Messages)
        /\ Append(got[c], Head(tx[c])) \in Seq(Messages)
    BY <1>4 DEF ClientReceive
  <2> QED  BY <1>4, <2>1 DEF ClientReceive
<1>5. ASSUME NEW c \in Conns, ClientGone(c) \/ Notice(c) PROVE TypeInv'
  BY <1>5 DEF ClientGone, Notice
<1>6. ASSUME NEW k, NEW q \in Queues, NEW h, NEW n, CloseStep(k, h, q, n) PROVE TypeInv'
  <2>1. Append(queue[q], Own("terminated")) \in Seq(Messages)
    BY <1>1
  <2> QED  BY <1>6, <2>1 DEF CloseStep, clientVars
<1>7. ASSUME NEW k, CloseBegin(k) \/ CloseSession(k) PROVE TypeInv'
  BY <1>7 DEF CloseBegin, CloseSession, clientVars
<1>8. CASE Expire
  BY <1>8 DEF Expire, clientVars
<1> QED
  BY <1>2, <1>3, <1>4, <1>5, <1>6, <1>7, <1>8 DEF CloseBroadcast, Queues

\* Every step keeps the types.
LEMMA TypeStep == TypeInv /\ [Next]_vars => TypeInv'
<1> SUFFICES ASSUME TypeInv, [Next]_vars PROVE TypeInv'
  OBVIOUS
<1>1. CASE UNCHANGED vars
  BY <1>1 DEF vars, connVars, clientVars, TypeInv
<1>2. CASE \E x \in Conns : Open(x) \/ Handle(x)
  BY <1>2, HandlerType
<1> QED  BY <1>1, <1>2, OtherType DEF Next

\* What a held message carries, by the state of its handler.
LEMMA HeldBy ==
  ASSUME Directed, NEW c \in Conns, NEW d \in Conns
  PROVE  /\ pc[c] \notin {"push", "send", "farewell"} => One(d, held[c]) = {}
         /\ pc[c] = "push" /\ c # d => One(d, held[c]) = {}
         /\ pc[c] \in {"send", "farewell"} /\ d \in Side(c) => One(d, held[c]) = {}
BY DEF Directed

-----------------------------------------------------------------------------
(* How the updates of d move towards c.                                    *)

\* Nothing moves; at most another handler of c's side takes from the queue, or a
\* message that carries no update is handed on.
Stays(c, d) ==
  /\ Nums(d, got[c]') = Nums(d, got[c]) /\ Nums(d, tx[c]') = Nums(d, tx[c])
  /\ One(d, held[c]') = One(d, held[c]) /\ One(d, held[d]') = One(d, held[d])
  /\ Nums(d, stream[d]') = Nums(d, stream[d]) /\ sent[d]' = sent[d]
  /\ Nums(d, queue[Outbox(d)]') \subseteq Nums(d, queue[Outbox(d)])
  /\ Alone(c) => Nums(d, queue[Outbox(d)]') = Nums(d, queue[Outbox(d)])

\* c's handler takes the first message of the queue.
Delivers(c, d) ==
  /\ pc[c] = "select" /\ One(d, held[c]) = {}
  /\ Nums(d, got[c]') = Nums(d, got[c]) /\ Nums(d, tx[c]') = Nums(d, tx[c])
  /\ One(d, held[d]') = One(d, held[d])
  /\ Nums(d, stream[d]') = Nums(d, stream[d]) /\ sent[d]' = sent[d]
  /\ Nums(d, queue[Outbox(d)]) = One(d, held[c]') \cup Nums(d, queue[Outbox(d)]')
  /\ Before(One(d, held[c]'), Nums(d, queue[Outbox(d)]'))

\* It passes what it held to the client, or loses that and ends.
Passes(c, d) ==
  /\ Nums(d, got[c]') = Nums(d, got[c]) /\ One(d, held[c]') = {}
  /\ One(d, held[d]') = One(d, held[d])
  /\ Nums(d, stream[d]') = Nums(d, stream[d]) /\ sent[d]' = sent[d]
  /\ Nums(d, queue[Outbox(d)]') = Nums(d, queue[Outbox(d)])
  /\ \/ Nums(d, tx[c]') = Nums(d, tx[c]) \cup One(d, held[c])
     \/ Nums(d, tx[c]') = Nums(d, tx[c]) /\ pc[c]' = "ended"

\* The client reads.
Reads(c, d) ==
  /\ One(d, held[c]') = One(d, held[c]) /\ One(d, held[d]') = One(d, held[d])
  /\ Nums(d, stream[d]') = Nums(d, stream[d]) /\ sent[d]' = sent[d]
  /\ Nums(d, queue[Outbox(d)]') = Nums(d, queue[Outbox(d)])
  /\ Nums(d, got[c]) \subseteq Nums(d, got[c]')
  /\ Nums(d, tx[c]') \subseteq Nums(d, tx[c])
  /\ Nums(d, got[c]') \cup Nums(d, tx[c]') = Nums(d, got[c]) \cup Nums(d, tx[c])
  /\ Before(Nums(d, got[c]'), Nums(d, tx[c]'))

\* Nothing changes for c; d's handler takes an update from the stream, d's handler
\* puts it into the queue, or d's client sends one.
Starts(c, d) ==
  /\ Nums(d, got[c]') = Nums(d, got[c]) /\ Nums(d, tx[c]') = Nums(d, tx[c])
  /\ One(d, held[c]') = One(d, held[c])
  /\ \/ /\ One(d, held[d]) = {}
        /\ Nums(d, stream[d]) = One(d, held[d]') \cup Nums(d, stream[d]')
        /\ Before(One(d, held[d]'), Nums(d, stream[d]'))
        /\ Nums(d, queue[Outbox(d)]') = Nums(d, queue[Outbox(d)])
        /\ sent[d]' = sent[d]
     \/ /\ One(d, held[d]') = {} /\ Nums(d, stream[d]') = Nums(d, stream[d])
        /\ Nums(d, queue[Outbox(d)]') = Nums(d, queue[Outbox(d)]) \cup One(d, held[d])
        /\ sent[d]' = sent[d]
     \/ /\ One(d, held[d]') = One(d, held[d])
        /\ Nums(d, stream[d]') = Nums(d, stream[d]) \cup {sent[d] + 1}
        /\ Nums(d, queue[Outbox(d)]') = Nums(d, queue[Outbox(d)])
        /\ sent[d]' = sent[d] + 1

\* In a step, x is the only connection whose handler may take updates of d.
Moves(x) ==
  \A d \in Conns : \A c \in Conns \ Side(d) :
    \/ Stays(c, d) \/ Passes(c, d) \/ Reads(c, d) \/ Starts(c, d)
    \/ c = x /\ Delivers(c, d)

\* The sequences of messages stay in order.
AllRising ==
  \A d \in Conns : \A c \in Conns \ Side(d) :
    /\ Rising(d, queue[Outbox(d)]) /\ Rising(d, stream[d])
    /\ Rising(d, got[c]) /\ Rising(d, tx[c])

\* What a step keeps beside the types: where updates are, and their order.
RestInv == Directed /\ OnlyUpdates /\ Unopened /\ AllRising

\* The order of what is on its way is part of the order of every pair.
LEMMA RisingAll ==
  ASSUME OrderInv
  PROVE  AllRising
BY DEF OrderInv, OrderedOut, Ordered, AllRising

\* TakeUpdate: the first update of the queue, which is one of the other side, is
\* held; no other handler gets it.
LEMMA TakeUpdateMoves ==
  ASSUME TypeInv, OrderInv, Directed, OnlyUpdates, Unopened,
         NEW x \in Conns, TakeUpdate(x)
  PROVE  Moves(x) /\ RestInv'
<1> DEFINE q == Inbox(x)
           m == Head(queue[q])
           s == queue[q]
<1>1. q \in Queues /\ s \in Seq(Messages) /\ s # <<>>
  BY DEF TypeInv, TakeUpdate, Inbox, Queues
<1>2. /\ pc[x] = "select" /\ \A c \in Conns : pc[c]' = IF c = x THEN "send" ELSE pc[c]
      /\ \A c \in Conns : held[c]' = IF c = x THEN m ELSE held[c]
      /\ \A p \in Queues : queue[p]' = IF p = q THEN Tail(s) ELSE queue[p]
      /\ \A c \in Conns : /\ stream[c]' = stream[c] /\ tx[c]' = tx[c]
                          /\ sent[c]' = sent[c] /\ got[c]' = got[c]
  BY <1>1 DEF TypeInv, TakeUpdate, Hold, clientVars
<1>3. AllRising
  BY RisingAll
<1>4. ASSUME NEW d \in Conns
      PROVE  /\ m \in Messages /\ Nums(d, s) = One(d, m) \cup Nums(d, Tail(s))
             /\ Rising(d, s) => /\ Rising(d, Tail(s))
                                /\ Before(One(d, m), Nums(d, Tail(s)))
             /\ One(d, held[x]) = {}
             /\ d \in Side(x) => One(d, m) = {}
  <2>1. d \in Side(x) => Nums(d, s) = {}
    BY Opposite DEF Directed
  <2> QED  BY <1>1, <1>2, <2>1, Taking, HeldBy
<1> HIDE DEF m, s
<1>5. ASSUME NEW d \in Conns, NEW c \in Conns \ Side(d), c # x
      PROVE  Stays(c, d)
  <2>1. One(d, held[c]') = One(d, held[c])
    BY <1>2, <1>5
  <2>2. One(d, held[d]') = One(d, held[d])
    <3>1. CASE d = x
      BY <3>1, <1>2, <1>4, Opposite
    <3>2. CASE d # x
      BY <3>2, <1>2
    <3> QED  BY <3>1, <3>2
  <2>3. /\ Nums(d, queue[Outbox(d)]') \subseteq Nums(d, queue[Outbox(d)])
        /\ Alone(c) => Nums(d, queue[Outbox(d)]') = Nums(d, queue[Outbox(d)])
    <3>1. CASE Outbox(d) = q
      <4>1. Outbox(d) = Inbox(c) /\ Inbox(c) = Inbox(x)
        BY <3>1, Opposite
      <4>2. x \in Side(c) \ {c}
        BY <4>1, <1>5, Opposite
      <4>3. ~Alone(c)
        BY <4>2, <1>2 DEF Alone
      <4>4. queue[Outbox(d)]' = Tail(s) /\ queue[Outbox(d)] = s
        BY <3>1, <1>1, <1>2 DEF s
      <4> QED  BY <4>3, <4>4, <1>4
    <3>2. CASE Outbox(d) # q
      BY <3>2, <1>2, Opposite
    <3> QED  BY <3>1, <3>2
  <2> QED  BY <2>1, <2>2, <2>3, <1>2 DEF Stays
<1>6. ASSUME NEW d \in Conns, x \in Conns \ Side(d)
      PROVE  Delivers(x, d)
  <2>1. Outbox(d) = q /\ d # x
    BY <1>6, Opposite
  <2>2. queue[Outbox(d)]' = Tail(s) /\ queue[Outbox(d)] = s
    BY <2>1, <1>1, <1>2 DEF s
  <2>3. Rising(d, s)
    BY <1>6, <2>2, <1>3 DEF AllRising
  <2> QED  BY <2>1, <2>2, <2>3, <1>2, <1>4 DEF Delivers
<1>7. AllRising'
  <2>1. ASSUME NEW d \in Conns, NEW c \in Conns \ Side(d)
        PROVE  Rising(d, queue[Outbox(d)]')
    <3>1. CASE Outbox(d) = q
      BY <3>1, <1>1, <1>2, <1>3, <1>4 DEF s, AllRising
    <3>2. CASE Outbox(d) # q
      BY <3>2, <1>2, <1>3, Opposite DEF AllRising
    <3> QED  BY <3>1, <3>2
  <2> QED  BY <2>1, <1>2, <1>3 DEF AllRising
<1>8. Directed'
  <2> SUFFICES ASSUME NEW c \in Conns, NEW d \in Conns
               PROVE  /\ c # d => Nums(d, stream[c]') = {}
                      /\ Nums(d, queue[Inbox(d)]') = {}
                      /\ d \in Side(c) => Nums(d, tx[c]') = {} /\ Nums(d, got[c]') = {}
                      /\ \A n \in One(d, held[c]') :
                           \/ pc[c]' = "push" /\ c = d
                           \/ pc[c]' \in {"send", "farewell"} /\ d \notin Side(c)
    BY DEF Directed
  <2>1. Nums(d, queue[Inbox(d)]') = {}
    <3>1. CASE Inbox(d) = q
      BY <3>1, <1>1, <1>2, <1>4 DEF s, Directed
    <3>2. CASE Inbox(d) # q
      BY <3>2, <1>2, Opposite DEF Directed
    <3> QED  BY <3>1, <3>2
  <2>2. CASE c = x
    BY <2>1, <2>2, <1>2, <1>4 DEF Directed
  <2>3. CASE c # x
    BY <2>1, <2>3, <1>2 DEF Directed
  <2> QED  BY <2>2, <2>3
<1>9. OnlyUpdates' /\ Unopened'
  BY <1>2 DEF OnlyUpdates, Unopened, Taken
<1>10. Moves(x)
  BY <1>5, <1>6 DEF Moves
<1> QED  BY <1>7, <1>8, <1>9, <1>10 DEF RestInv

\* A step that moves no update: it may add or remove messages that carry none.
Quiet ==
  /\ \A c \in Conns : got[c]' = got[c] /\ sent[c]' = sent[c] /\ (pc[c]' = "new" => pc[c] = "new")
  /\ \A c, d \in Conns :
       /\ One(d, held[c]') = One(d, held[c])
       /\ One(d, held[c]) # {} => pc[c]' = pc[c]
       /\ Nums(d, tx[c]') = Nums(d, tx[c])
       /\ Nums(d, stream[c]') = Nums(d, stream[c])
       /\ Rising(d, tx[c]) => Rising(d, tx[c]')
       /\ Rising(d, stream[c]) => Rising(d, stream[c]')
  /\ \A q \in Queues, d \in Conns :
       /\ Nums(d, queue[q]') = Nums(d, queue[q])
       /\ Rising(d, queue[q]) => Rising(d, queue[q]')

\* An action that touches neither queues nor counters keeps the invariant's numbers.
LEMMA QuietMoves ==
  ASSUME TypeInv, OrderInv, Directed, OnlyUpdates, Unopened, Quiet, NEW x
  PROVE  Moves(x) /\ RestInv'
<1>1. AllRising
  BY RisingAll
<1>2. ASSUME NEW d \in Conns, NEW c \in Conns \ Side(d) PROVE Stays(c, d)
  BY Opposite DEF Stays, Quiet
<1>3. AllRising'
  BY <1>1, Opposite DEF AllRising, Quiet
<1>4. Directed'
  <2> SUFFICES ASSUME NEW c \in Conns, NEW d \in Conns
               PROVE  /\ c # d => Nums(d, stream[c]') = {}
                      /\ Nums(d, queue[Inbox(d)]') = {}
                      /\ d \in Side(c) => Nums(d, tx[c]') = {} /\ Nums(d, got[c]') = {}
                      /\ \A n \in One(d, held[c]') :
                           \/ pc[c]' = "push" /\ c = d
                           \/ pc[c]' \in {"send", "farewell"} /\ d \notin Side(c)
    BY DEF Directed
  <2>1. Nums(d, queue[Inbox(d)]') = {}
    BY Opposite DEF Directed, Quiet
  <2>2. \A n \in One(d, held[c]') :
          \/ pc[c]' = "push" /\ c = d
          \/ pc[c]' \in {"send", "farewell"} /\ d \notin Side(c)
    BY DEF Directed, Quiet
  <2> QED  BY <2>1, <2>2 DEF Directed, Quiet
<1>5. OnlyUpdates'
  BY DEF OnlyUpdates, Quiet
<1>6. Unopened'
  BY DEF Unopened, Taken, Quiet
<1> QED  BY <1>2, <1>3, <1>4, <1>5, <1>6 DEF Moves, RestInv

\* A message without an update changes nothing for the updates of the messages it
\* is appended to or taken from.
LEMMA PlainMessage ==
  ASSUME NEW d \in Conns, NEW s \in Seq(Messages), NEW k \in Kinds \ {"update"}
  PROVE  /\ One(d, Own(k)) = {}
         /\ Nums(d, Append(s, Own(k))) = Nums(d, s)
         /\ Rising(d, s) => Rising(d, Append(s, Own(k)))
<1>1. Own(k) \in Messages /\ One(d, Own(k)) = {}
  BY MadeMessages, OneFacts
<1>2. Before(Nums(d, s), One(d, Own(k)))
  BY <1>1 DEF Before
<1> DEFINE m == Own(k)
<1>3. m \in Messages /\ One(d, m) = {} /\ Before(Nums(d, s), One(d, m))
  BY <1>1, <1>2
<1> HIDE DEF m
<1>4. /\ Nums(d, Append(s, m)) = Nums(d, s) \cup One(d, m)
      /\ Rising(d, s) => Rising(d, Append(s, m))
  BY <1>3, Appended
<1>5. Nums(d, Append(s, m)) = Nums(d, s)
  BY <1>3, <1>4
<1> QED  BY <1>3, <1>4, <1>5 DEF m

\* Open and the broadcast of Ready, HungUp and Exit move no update.
LEMMA HandlerQuiet ==
  ASSUME TypeInv, Directed, Unopened, NEW x \in Conns,
         Open(x) \/ BroadcastReady(x) \/ HungUp(x) \/ Exit(x)
  PROVE  Quiet
<1> USE DEF TypeInv, clientVars
<1>0. {"joined", "ready", "error"} \subseteq Kinds \ {"update"}
  BY DEF Kinds
<1>1. CASE Open(x)
  <2>1. ASSUME NEW d \in Conns
        PROVE  /\ Nums(d, tx[x]) = {} /\ Nums(d, <<Own("joined")>>) = {}
               /\ Rising(d, <<Own("joined")>>)
               /\ One(d, held[x]) = {}
    BY <1>0, <1>1, Few, MadeMessages, PlainMessage DEF Open, Unopened, Taken
  <2>2. /\ \A c \in Conns : tx[c]' = IF c = x THEN <<Own("joined")>> ELSE tx[c]
        /\ \A c \in Conns : pc[c]' = pc[c] \/ (c = x /\ pc[c]' # "new")
    BY <1>1 DEF Open
  <2> QED  BY <1>1, <2>1, <2>2 DEF Open, Quiet
<1>2. ASSUME NEW h \in {"readySharer", "readyRecipient"}, NEW p \in Queues,
             NEW n \in Places \ {"new"}, Broadcast(x, h, p, n)
      PROVE  Quiet
  <2>1. ASSUME NEW d \in Conns
        PROVE  /\ Nums(d, Append(queue[p], Own("ready"))) = Nums(d, queue[p])
               /\ Rising(d, queue[p]) => Rising(d, Append(queue[p], Own("ready")))
               /\ One(d, held[x]) = {}
    BY <1>0, <1>2, PlainMessage, HeldBy DEF Broadcast
  <2>2. /\ \A q \in Queues :
             queue[q]' = IF q = p THEN Append(queue[p], Own("ready")) ELSE queue[q]
        /\ \A c \in Conns : pc[c]' = pc[c] \/ (c = x /\ pc[c]' # "new")
    BY <1>2 DEF Broadcast
  <2> QED  BY <1>2, <2>1, <2>2 DEF Broadcast, Quiet
<1>3. CASE HungUp(x)
  <2>1. \A d \in Conns : One(d, held[x]) = {}
    BY <1>3, HeldBy DEF HungUp
  <2>2. \A c \in Conns : pc[c]' = pc[c] \/ (c = x /\ pc[c]' # "new")
    BY <1>3 DEF HungUp
  <2> QED  BY <1>3, <2>1, <2>2 DEF HungUp, Quiet
<1>4. CASE Exit(x)
  <2>1. \A d \in Conns : One(d, held[x]) = {} /\ One(d, Own("error")) = {}
    <3>1. ASSUME NEW d \in Conns PROVE One(d, held[x]) = {}
      BY <1>4, HeldBy DEF Exit
    <3>2. ASSUME NEW d \in Conns PROVE One(d, Own("error")) = {}
      BY <1>0, Few, PlainMessage
    <3> QED  BY <3>1, <3>2
  <2>2. /\ \A c \in Conns : pc[c]' = pc[c] \/ (c = x /\ pc[c]' # "new")
        /\ \A c \in Conns : held[c]' = IF c = x THEN Own("error") ELSE held[c]
    BY <1>4 DEF Exit, Hold
  <2> QED  BY <1>4, <2>1, <2>2 DEF Exit, Quiet
<1> QED  BY <1>1, <1>2, <1>3, <1>4 DEF BroadcastReady, Queues, Places

\* So do the steps of close, the expiry, a ping, and a client that leaves.
LEMMA OtherQuiet ==
  ASSUME TypeInv, Directed,
         \/ \E c \in Conns : ClientPing(c) \/ ClientGone(c) \/ Notice(c)
         \/ \E k \in Closers : CloseBegin(k) \/ CloseBroadcast(k) \/ CloseSession(k)
         \/ Expire
         \/ UNCHANGED vars
  PROVE  Quiet
<1> USE DEF TypeInv, connVars
<1>0. {"ping", "terminated"} \subseteq Kinds \ {"update"}
  BY DEF Kinds
<1>1. ASSUME NEW x \in Conns, ClientPing(x) PROVE Quiet
  <2>1. ASSUME NEW d \in Conns
        PROVE  /\ Nums(d, Append(stream[x], Own("ping"))) = Nums(d, stream[x])
               /\ Rising(d, stream[x]) => Rising(d, Append(stream[x], Own("ping")))
    BY <1>0, PlainMessage
  <2>2. \A c \in Conns :
          stream[c]' = IF c = x THEN Append(stream[x], Own("ping")) ELSE stream[c]
    BY <1>1 DEF ClientPing, Transmit
  <2> QED  BY <1>1, <2>1, <2>2 DEF ClientPing, Transmit, Quiet
<1>2. ASSUME NEW x \in Conns, ClientGone(x) \/ Notice(x) PROVE Quiet
  BY <1>2 DEF ClientGone, Notice, Quiet
<1>3. ASSUME NEW k, NEW p \in Queues, NEW h, NEW n, CloseStep(k, h, p, n) PROVE Quiet
  <2>1. ASSUME NEW d \in Conns
        PROVE  /\ Nums(d, Append(queue[p], Own("terminated"))) = Nums(d, queue[p])
               /\ Rising(d, queue[p]) => Rising(d, Append(queue[p], Own("terminated")))
    BY <1>0, PlainMessage
  <2>2. \A q \in Queues :
          queue[q]' = IF q = p THEN Append(queue[p], Own("terminated")) ELSE queue[q]
    BY <1>3 DEF CloseStep
  <2> QED  BY <1>3, <2>1, <2>2 DEF CloseStep, clientVars, Quiet
<1>4. ASSUME NEW k, CloseBegin(k) \/ CloseSession(k) PROVE Quiet
  BY <1>4 DEF CloseBegin, CloseSession, clientVars, Quiet
<1>5. CASE Expire
  BY <1>5 DEF Expire, clientVars, Quiet
<1>6. CASE UNCHANGED vars
  BY <1>6 DEF vars, clientVars, Quiet
<1> QED  BY <1>1, <1>2, <1>3, <1>4, <1>5, <1>6 DEF CloseBroadcast, Queues

\* TakeStream: an update of the handler's own client is held; a ping becomes a
\* pong.
LEMMA TakeStreamMoves ==
  ASSUME TypeInv, OrderInv, Directed, OnlyUpdates, Unopened,
         NEW x \in Conns, TakeStream(x)
  PROVE  Moves(NoConn) /\ RestInv'
<1> DEFINE s == stream[x]
           m == Head(s)
           h == IF m.kind = "ping" THEN Own("pong") ELSE m
           n == IF m.kind = "ping" THEN "send" ELSE "push"
<1>1. s \in Seq(Messages) /\ s # <<>>
  BY DEF TypeInv, TakeStream
<1>2. /\ pc[x] = "select" /\ \A c \in Conns : pc[c]' = IF c = x THEN n ELSE pc[c]
      /\ \A c \in Conns : held[c]' = IF c = x THEN h ELSE held[c]
      /\ \A p \in Queues : queue[p]' = queue[p]
      /\ \A c \in Conns : /\ stream[c]' = (IF c = x THEN Tail(s) ELSE stream[c])
                          /\ tx[c]' = tx[c] /\ sent[c]' = sent[c] /\ got[c]' = got[c]
  BY <1>1 DEF TypeInv, TakeStream, Hold, clientVars
<1>3. AllRising
  BY RisingAll
<1>4. ASSUME NEW d \in Conns
      PROVE  /\ Nums(d, s) = One(d, m) \cup Nums(d, Tail(s))
             /\ Rising(d, s) => /\ Rising(d, Tail(s))
                                /\ Before(One(d, m), Nums(d, Tail(s)))
             /\ One(d, held[x]) = {} /\ m \in Messages
  BY <1>1, <1>2, Taking, HeldBy
<1>5. ASSUME NEW d \in Conns PROVE One(d, h) = One(d, m)
  <2>1. "pong" \in Kinds \ {"update"}
    BY DEF Kinds
  <2>2. One(d, Own("pong")) = {}
    BY <2>1, <1>1, PlainMessage
  <2>3. m.kind = "ping" => One(d, m) = {}
    BY <1>4, OneFacts
  <2> QED  BY <2>2, <2>3
<1>6. ASSUME NEW d \in Conns, d # x
      PROVE  Nums(d, s) = {} /\ One(d, m) = {} /\ Nums(d, Tail(s)) = {}
  BY <1>6, <1>4 DEF Directed
<1>7. n \in {"send", "push"} /\ (n = "send" => \A d \in Conns : One(d, m) = {})
  BY <1>4, OneFacts
<1>8. s = stream[x]
  OBVIOUS
<1> HIDE DEF m, s, h, n
<1>9. ASSUME NEW d \in Conns, NEW c \in Conns \ Side(d)
      PROVE  Stays(c, d) \/ Starts(c, d)
  <2>1. CASE d = x
    <3>1. c # x
      BY <2>1, Opposite
    <3>2. Rising(x, s)
      BY <2>1, <1>3, <1>8 DEF AllRising
    <3> QED  BY <2>1, <3>1, <3>2, <1>2, <1>4, <1>5, <1>8, Opposite DEF Starts
  <2>2. CASE d # x
    <3>1. One(d, held[c]') = One(d, held[c])
      BY <2>2, <1>2, <1>4, <1>5, <1>6
    <3> QED  BY <2>2, <3>1, <1>2, Opposite DEF Stays
  <2> QED  BY <2>1, <2>2
<1>10. AllRising'
  <2>1. ASSUME NEW d \in Conns, NEW c \in Conns \ Side(d)
        PROVE  Rising(d, stream[d]')
    BY <1>2, <1>3, <1>4, <1>8 DEF AllRising
  <2> QED  BY <2>1, <1>2, <1>3, Opposite DEF AllRising
<1>11. Directed'
  <2> SUFFICES ASSUME NEW c \in Conns, NEW d \in Conns
               PROVE  /\ c # d => Nums(d, stream[c]') = {}
                      /\ Nums(d, queue[Inbox(d)]') = {}
                      /\ d \in Side(c) => Nums(d, tx[c]') = {} /\ Nums(d, got[c]') = {}
                      /\ \A k \in One(d, held[c]') :
                           \/ pc[c]' = "push" /\ c = d
                           \/ pc[c]' \in {"send", "farewell"} /\ d \notin Side(c)
    BY DEF Directed
  <2>1. Nums(d, queue[Inbox(d)]') = {}
    BY <1>2, Opposite DEF Directed
  <2>2. CASE c = x
    BY <2>1, <2>2, <1>2, <1>5, <1>6, <1>7 DEF Directed
  <2>3. CASE c # x
    BY <2>1, <2>3, <1>2 DEF Directed
  <2> QED  BY <2>2, <2>3
<1>12. OnlyUpdates' /\ Unopened'
  <2>1. OnlyUpdates'
    BY <1>2 DEF OnlyUpdates
  <2>2. ASSUME NEW c \in Conns, pc[c]' = "new" PROVE c # x /\ pc[c] = "new"
    BY <2>2, <1>2, <1>7
  <2>3. Unopened'
    BY <2>2, <1>2 DEF Unopened, Taken
  <2> QED  BY <2>1, <2>3
<1> QED  BY <1>9, <1>10, <1>11, <1>12 DEF Moves, RestInv

\* Push: the held update goes behind those of the queue.
LEMMA PushMoves ==
  ASSUME TypeInv, OrderInv, Directed, OnlyUpdates, Unopened,
         NEW x \in Conns, Push(x)
  PROVE  Moves(NoConn) /\ RestInv'
<1> DEFINE q == Outbox(x)
           m == held[x]
           s == queue[q]
           a == Append(s, m)
<1>1. q \in Queues /\ s \in Seq(Messages) /\ m \in Messages
  BY Opposite DEF TypeInv
<1>2. /\ pc[x] = "push" /\ \A c \in Conns : pc[c]' = IF c = x THEN "select" ELSE pc[c]
      /\ \A c \in Conns : held[c]' = IF c = x THEN Own("none") ELSE held[c]
      /\ \A p \in Queues : queue[p]' = IF p = q THEN a ELSE queue[p]
      /\ \A c \in Conns : /\ stream[c]' = stream[c] /\ tx[c]' = tx[c]
                          /\ sent[c]' = sent[c] /\ got[c]' = got[c]
  BY <1>1 DEF TypeInv, Push, Hold, clientVars
<1>3. AllRising
  BY RisingAll
<1>4. ASSUME NEW d \in Conns
      PROVE  /\ Nums(d, a) = Nums(d, s) \cup One(d, m)
             /\ Rising(d, s) /\ Before(Nums(d, s), One(d, m)) => Rising(d, a)
             /\ One(d, Own("none")) = {}
             /\ d # x => One(d, m) = {}
  <2>1. "none" \in Kinds \ {"update"}
    BY DEF Kinds
  <2>2. One(d, Own("none")) = {}
    BY <2>1, <1>1, PlainMessage
  <2>3. d # x => One(d, m) = {}
    BY <1>2, HeldBy
  <2> QED  BY <2>2, <2>3, <1>1, Appended
<1>5. ASSUME NEW c \in Conns \ Side(x) PROVE Before(Nums(x, s), One(x, m))
  BY DEF OrderInv, OrderedOut, Before
<1>6. s = queue[q] /\ m = held[x] /\ q = Outbox(x)
  OBVIOUS
<1> HIDE DEF m, s, a, q
<1>7. ASSUME NEW d \in Conns, NEW c \in Conns \ Side(d)
      PROVE  Stays(c, d) \/ Starts(c, d)
  <2>1. CASE d = x
    <3>1. c # x
      BY <2>1, Opposite
    <3> QED  BY <2>1, <3>1, <1>1, <1>2, <1>4, <1>6, Opposite DEF Starts
  <2>2. CASE d # x
    <3>1. One(d, held[c]') = One(d, held[c]) /\ One(d, held[d]') = One(d, held[d])
      BY <2>2, <1>2, <1>4, <1>6
    <3>2. Nums(d, queue[Outbox(d)]') = Nums(d, queue[Outbox(d)])
      <4>1. CASE Outbox(d) = q
        BY <4>1, <2>2, <1>1, <1>2, <1>4, <1>6
      <4>2. CASE Outbox(d) # q
        BY <4>2, <1>2, Opposite
      <4> QED  BY <4>1, <4>2
    <3> QED  BY <2>2, <3>1, <3>2, <1>2 DEF Stays
  <2> QED  BY <2>1, <2>2
<1>8. AllRising'
  <2>1. ASSUME NEW d \in Conns, NEW c \in Conns \ Side(d)
        PROVE  Rising(d, queue[Outbox(d)]')
    <3>1. CASE Outbox(d) = q
      <4>1. Rising(d, s)
        BY <3>1, <1>3, <1>6 DEF AllRising
      <4>2. Before(Nums(d, s), One(d, m))
        BY <1>4, <1>5 DEF Before
      <4> QED  BY <3>1, <4>1, <4>2, <1>1, <1>2, <1>4
    <3>2. CASE Outbox(d) # q
      BY <3>2, <1>2, <1>3, Opposite DEF AllRising
    <3> QED  BY <3>1, <3>2
  <2> QED  BY <2>1, <1>2, <1>3 DEF AllRising
<1>9. Directed'
  <2> SUFFICES ASSUME NEW c \in Conns, NEW d \in Conns
               PROVE  /\ c # d => Nums(d, stream[c]') = {}
                      /\ Nums(d, queue[Inbox(d)]') = {}
                      /\ d \in Side(c) => Nums(d, tx[c]') = {} /\ Nums(d, got[c]') = {}
                      /\ \A n \in One(d, held[c]') :
                           \/ pc[c]' = "push" /\ c = d
                           \/ pc[c]' \in {"send", "farewell"} /\ d \notin Side(c)
    BY DEF Directed
  <2>1. Nums(d, queue[Inbox(d)]') = {}
    <3>1. CASE Inbox(d) = q
      <4>1. d # x
        BY <3>1, <1>6, Opposite
      <4>2. Nums(d, s) = {}
        BY <3>1, <1>6 DEF Directed
      <4>3. queue[Inbox(d)]' = a
        BY <3>1, <1>1, <1>2
      <4> QED  BY <4>1, <4>2, <4>3, <1>4
    <3>2. CASE Inbox(d) # q
      BY <3>2, <1>2, Opposite DEF Directed
    <3> QED  BY <3>1, <3>2
  <2>2. CASE c = x
    BY <2>1, <2>2, <1>2, <1>4 DEF Directed
  <2>3. CASE c # x
    BY <2>1, <2>3, <1>2 DEF Directed
  <2> QED  BY <2>2, <2>3
<1>10. OnlyUpdates' /\ Unopened'
  BY <1>2 DEF OnlyUpdates, Unopened, Taken
<1> QED  BY <1>7, <1>8, <1>9, <1>10 DEF Moves, RestInv

\* Send: the held update goes behind those the client has not read, or is lost
\* with the connection.
LEMMA SendMoves ==
  ASSUME TypeInv, OrderInv, Directed, OnlyUpdates, Unopened,
         NEW x \in Conns, Send(x)
  PROVE  Moves(NoConn) /\ RestInv'
<1> DEFINE m == held[x]
           s == tx[x]
           a == Append(s, m)
<1>1. s \in Seq(Messages) /\ m \in Messages
  BY DEF TypeInv
<1>2. /\ pc[x] \in {"send", "farewell"}
      /\ \A c \in Conns : pc[c]' = pc[c] \/ (c = x /\ pc[c]' \in {"select", "ended"})
      /\ \A c \in Conns : c # x => pc[c]' = pc[c]
      /\ \A c \in Conns : held[c]' = IF c = x THEN Own("none") ELSE held[c]
      /\ \A p \in Queues : queue[p]' = queue[p]
      /\ \A c \in Conns : stream[c]' = stream[c] /\ sent[c]' = sent[c] /\ got[c]' = got[c]
      /\ \A c \in Conns : c # x => tx[c]' = tx[c]
      /\ tx[x]' = a \/ (tx[x]' = s /\ pc[x]' = "ended")
  BY <1>1 DEF TypeInv, Send, Hold, clientVars
<1>3. AllRising
  BY RisingAll
<1>4. ASSUME NEW d \in Conns
      PROVE  /\ Nums(d, a) = Nums(d, s) \cup One(d, m)
             /\ Rising(d, s) /\ Before(Nums(d, s), One(d, m)) => Rising(d, a)
             /\ One(d, Own("none")) = {}
             /\ d \in Side(x) => One(d, m) = {}
  <2>1. "none" \in Kinds \ {"update"}
    BY DEF Kinds
  <2>2. One(d, Own("none")) = {}
    BY <2>1, <1>1, PlainMessage
  <2>3. d \in Side(x) => One(d, m) = {}
    BY <1>2, HeldBy
  <2> QED  BY <2>2, <2>3, <1>1, Appended
<1>5. ASSUME NEW d \in Conns, x \notin Side(d)
      PROVE  Before(Nums(d, s), One(d, m))
  BY <1>5 DEF OrderInv, Ordered, Before
<1>6. s = tx[x] /\ m = held[x]
  OBVIOUS
<1> HIDE DEF m, s, a
<1>7. ASSUME NEW d \in Conns, NEW c \in Conns \ Side(d)
      PROVE  Stays(c, d) \/ Passes(c, d)
  <2>0. One(d, held[d]') = One(d, held[d])
    BY <1>2, <1>4, <1>6, Opposite
  <2>1. CASE c = x
    <3>1. Nums(d, tx[c]') = Nums(d, tx[c]) \cup One(d, held[c])
          \/ (Nums(d, tx[c]') = Nums(d, tx[c]) /\ pc[c]' = "ended")
      BY <2>1, <1>2, <1>4, <1>6
    <3> QED  BY <2>0, <2>1, <3>1, <1>2, <1>4, Opposite DEF Passes
  <2>2. CASE c # x
    BY <2>0, <2>2, <1>2, Opposite DEF Stays
  <2> QED  BY <2>1, <2>2
<1>8. AllRising'
  <2>1. ASSUME NEW d \in Conns, x \in Conns \ Side(d) PROVE Rising(d, tx[x]')
    <3>1. Rising(d, s)
      BY <2>1, <1>3, <1>6 DEF AllRising
    <3> QED  BY <2>1, <3>1, <1>2, <1>4, <1>5
  <2> QED  BY <2>1, <1>2, <1>3, Opposite DEF AllRising
<1>9. Directed'
  <2> SUFFICES ASSUME NEW c \in Conns, NEW d \in Conns
               PROVE  /\ c # d => Nums(d, stream[c]') = {}
                      /\ Nums(d, queue[Inbox(d)]') = {}
                      /\ d \in Side(c) => Nums(d, tx[c]') = {} /\ Nums(d, got[c]') = {}
                      /\ \A n \in One(d, held[c]') :
                           \/ pc[c]' = "push" /\ c = d
                           \/ pc[c]' \in {"send", "farewell"} /\ d \notin Side(c)
    BY DEF Directed
  <2>1. Nums(d, queue[Inbox(d)]') = {}
    BY <1>2, Opposite DEF Directed
  <2>2. CASE c = x
    <3>1. d \in Side(x) => Nums(d, tx[x]') = {}
      BY <1>2, <1>4, <1>6 DEF Directed
    <3> QED  BY <2>1, <2>2, <3>1, <1>2, <1>4 DEF Directed
  <2>3. CASE c # x
    BY <2>1, <2>3, <1>2 DEF Directed
  <2> QED  BY <2>2, <2>3
<1>10. OnlyUpdates' /\ Unopened'
  <2>1. OnlyUpdates'
    BY <1>2 DEF OnlyUpdates
  <2>2. ASSUME NEW c \in Conns, pc[c]' = "new" PROVE c # x /\ pc[c] = "new"
    BY <2>2, <1>2
  <2>3. Unopened'
    BY <2>2, <1>2 DEF Unopened, Taken
  <2> QED  BY <2>1, <2>3
<1> QED  BY <1>7, <1>8, <1>9, <1>10 DEF Moves, RestInv

\* ClientSend: an update with the next number goes behind those of the stream.
LEMMA ClientSendMoves ==
  ASSUME TypeInv, OrderInv, Directed, OnlyUpdates, Unopened,
         NEW x \in Conns, ClientSend(x)
  PROVE  Moves(NoConn) /\ RestInv'
<1> DEFINE m == Update(x, sent[x] + 1)
           s == stream[x]
           a == Append(s, m)
<1>1. s \in Seq(Messages) /\ m \in Messages /\ sent[x] \in Nat
  BY MadeMessages DEF TypeInv
<1>2. /\ pc[x] # "new" /\ \A c \in Conns : pc[c]' = pc[c] /\ held[c]' = held[c]
      /\ \A p \in Queues : queue[p]' = queue[p]
      /\ \A c \in Conns : /\ stream[c]' = (IF c = x THEN a ELSE stream[c])
                          /\ sent[c]' = (IF c = x THEN sent[x] + 1 ELSE sent[c])
                          /\ tx[c]' = tx[c] /\ got[c]' = got[c]
  BY <1>1 DEF TypeInv, ClientSend, Transmit
<1>3. AllRising
  BY RisingAll
<1>4. ASSUME NEW d \in Conns
      PROVE  /\ Nums(d, a) = Nums(d, s) \cup One(d, m)
             /\ Rising(d, s) /\ Before(Nums(d, s), One(d, m)) => Rising(d, a)
             /\ d = x => One(d, m) = {sent[x] + 1}
             /\ d # x => One(d, m) = {}
  BY <1>1, Appended, MadeMessages
<1>5. ASSUME NEW c \in Conns \ Side(x) PROVE Before(Nums(x, s), One(x, m))
  <2>1. Nums(x, s) \subseteq 1..sent[x]
    BY DEF OrderInv, OrderedOut, Coming
  <2> QED  BY <2>1, <1>1, <1>4 DEF Before
<1>6. s = stream[x]
  OBVIOUS
<1> HIDE DEF m, s, a
<1>7. ASSUME NEW d \in Conns, NEW c \in Conns \ Side(d)
      PROVE  Stays(c, d) \/ Starts(c, d)
  <2>1. CASE d = x
    BY <2>1, <1>2, <1>4, <1>6, Opposite DEF Starts
  <2>2. CASE d # x
    BY <2>2, <1>2, Opposite DEF Stays
  <2> QED  BY <2>1, <2>2
<1>8. AllRising'
  <2>1. ASSUME NEW d \in Conns, NEW c \in Conns \ Side(d)
        PROVE  Rising(d, stream[d]')
    BY <1>2, <1>3, <1>4, <1>5, <1>6 DEF AllRising
  <2> QED  BY <2>1, <1>2, <1>3, Opposite DEF AllRising
<1>9. Directed'
  <2>1. ASSUME NEW c \in Conns, NEW d \in Conns
        PROVE  /\ c # d => Nums(d, stream[c]') = {}
               /\ Nums(d, queue[Inbox(d)]') = {}
    BY <1>2, <1>4, <1>6, Opposite DEF Directed
  <2> QED  BY <2>1, <1>2 DEF Directed
<1>10. OnlyUpdates' /\ Unopened'
  BY <1>2 DEF OnlyUpdates, Unopened, Taken
<1> QED  BY <1>7, <1>8, <1>9, <1>10 DEF Moves, RestInv

\* ClientReceive: the client reads the first message; an update goes behind those
\* it has read.
LEMMA ClientReceiveMoves ==
  ASSUME TypeInv, OrderInv, Directed, OnlyUpdates, Unopened,
         NEW x \in Conns, ClientReceive(x)
  PROVE  Moves(NoConn) /\ RestInv'
<1> DEFINE s == tx[x]
           m == Head(s)
           g == got[x]
           a == IF m.kind = "update" THEN Append(g, m) ELSE g
<1>1. s \in Seq(Messages) /\ s # <<>> /\ g \in Seq(Messages)
  BY DEF TypeInv, ClientReceive
<1>2. /\ \A c \in Conns : pc[c]' = pc[c] /\ held[c]' = held[c]
      /\ \A p \in Queues : queue[p]' = queue[p]
      /\ \A c \in Conns : /\ tx[c]' = (IF c = x THEN Tail(s) ELSE tx[c])
                          /\ got[c]' = (IF c = x THEN a ELSE got[c])
                          /\ stream[c]' = stream[c] /\ sent[c]' = sent[c]
  BY <1>1 DEF TypeInv, ClientReceive
<1>3. AllRising
  BY RisingAll
<1>4. ASSUME NEW d \in Conns
      PROVE  /\ m \in Messages /\ Tail(s) \in Seq(Messages)
             /\ Nums(d, s) = One(d, m) \cup Nums(d, Tail(s))
             /\ Rising(d, s) => /\ Rising(d, Tail(s))
                                /\ Before(One(d, m), Nums(d, Tail(s)))
  BY <1>1, Taking
<1>5. ASSUME NEW d \in Conns
      PROVE  /\ Nums(d, a) = Nums(d, g) \cup One(d, m)
             /\ Rising(d, g) /\ Before(Nums(d, g), One(d, m)) => Rising(d, a)
  <2>1. CASE m.kind = "update"
    <3>1. m \in Messages
      BY <1>4
    <3>2. a = Append(g, m)
      BY <2>1
    <3> HIDE DEF a, m, g
    <3> QED  BY <3>1, <3>2, <1>1, Appended
  <2>2. CASE m.kind # "update"
    <3>1. One(d, m) = {} /\ a = g
      BY <2>2, <1>4, OneFacts
    <3> HIDE DEF a, m, g
    <3> QED  BY <3>1
  <2> QED  BY <2>1, <2>2
<1>6. ASSUME NEW d \in Conns, x \notin Side(d)
      PROVE  /\ Before(Nums(d, g), Nums(d, s))
             /\ Rising(d, s) /\ Rising(d, g)
  BY <1>6, <1>3 DEF OrderInv, Ordered, Before, AllRising
<1>7. s = tx[x] /\ g = got[x]
  OBVIOUS
<1>8. OnlyUpdates'
  <2>1. ASSUME NEW i \in DOMAIN a PROVE a[i].kind = "update"
    <3>1. CASE m.kind = "update"
      <4>1. a = Append(g, m) /\ m \in Messages
        BY <3>1, <1>4
      <4>2. \A j \in DOMAIN g : g[j].kind = "update"
        BY DEF OnlyUpdates
      <4> HIDE DEF m, g, a
      <4> QED  BY <3>1, <4>1, <4>2, <1>1
    <3>2. CASE m.kind # "update"
      BY <3>2 DEF OnlyUpdates
    <3> QED  BY <3>1, <3>2
  <2> HIDE DEF m, s, g, a
  <2> QED  BY <2>1, <1>2 DEF OnlyUpdates
<1> HIDE DEF m, s, g, a
<1>9. ASSUME NEW d \in Conns, NEW c \in Conns \ Side(d)
      PROVE  Stays(c, d) \/ Reads(c, d)
  <2>1. CASE c = x
    <3>1. Before(Nums(d, a), Nums(d, Tail(s)))
      BY <2>1, <1>4, <1>5, <1>6 DEF Before
    <3> QED  BY <2>1, <3>1, <1>2, <1>4, <1>5, <1>7, Opposite DEF Reads
  <2>2. CASE c # x
    BY <2>2, <1>2, Opposite DEF Stays
  <2> QED  BY <2>1, <2>2
<1>10. AllRising'
  <2>1. ASSUME NEW d \in Conns, x \in Conns \ Side(d)
        PROVE  Rising(d, got[x]') /\ Rising(d, tx[x]')
    <3>1. Before(Nums(d, g), One(d, m))
      BY <2>1, <1>4, <1>6 DEF Before
    <3> QED  BY <2>1, <3>1, <1>2, <1>4, <1>5, <1>6
  <2> QED  BY <2>1, <1>2, <1>3, Opposite DEF AllRising
<1>11. ASSUME NEW d \in Conns
       PROVE  /\ Nums(d, tx[x]') \cup Nums(d, got[x]') = Nums(d, tx[x]) \cup Nums(d, got[x])
              /\ d \in Side(x) => Nums(d, tx[x]') = {} /\ Nums(d, got[x]') = {}
  BY <1>2, <1>4, <1>5, <1>7 DEF Directed
<1>12. Directed'
  <2>1. ASSUME NEW c \in Conns, NEW d \in Conns, d \in Side(c)
        PROVE  Nums(d, tx[c]') = {} /\ Nums(d, got[c]') = {}
    BY <2>1, <1>2, <1>11 DEF Directed
  <2>2. ASSUME NEW d \in Conns PROVE Nums(d, queue[Inbox(d)]') = {}
    BY <1>2, Opposite DEF Directed
  <2> QED  BY <2>1, <2>2, <1>2 DEF Directed
<1>13. Unopened'
  <2>1. ASSUME NEW c \in Conns, pc[c]' = "new", NEW d \in Conns PROVE Taken(c, d)' = {}
    <3>1. Taken(c, d) = {}
      BY <2>1, <1>2 DEF Unopened
    <3> QED  BY <3>1, <1>2, <1>11 DEF Taken
  <2> QED  BY <2>1, <1>2 DEF Unopened
<1> QED  BY <1>8, <1>9, <1>10, <1>12, <1>13 DEF Moves, RestInv

\* In every step the updates move by at most one place, and those of the queue to
\* at most one connection.
LEMMA StepMoves ==
  ASSUME TypeInv, OrderInv, Directed, OnlyUpdates, Unopened, [Next]_vars
  PROVE  \E x : Moves(x) /\ RestInv'
<1>1. ASSUME NEW x \in Conns, TakeUpdate(x) PROVE \E y : Moves(y) /\ RestInv'
  BY <1>1, TakeUpdateMoves
<1>2. ASSUME NEW x \in Conns,
             TakeStream(x) \/ Push(x) \/ Send(x) \/ ClientSend(x) \/ ClientReceive(x)
      PROVE  \E y : Moves(y) /\ RestInv'
  BY <1>2, TakeStreamMoves, PushMoves, SendMoves, ClientSendMoves, ClientReceiveMoves
<1>3. ASSUME NEW x \in Conns,
             Open(x) \/ BroadcastReady(x) \/ HungUp(x) \/ Exit(x)
      PROVE  \E y : Moves(y) /\ RestInv'
  BY <1>3, HandlerQuiet, QuietMoves
<1>4. CASE \/ \E c \in Conns : ClientPing(c) \/ ClientGone(c) \/ Notice(c)
           \/ \E k \in Closers : CloseBegin(k) \/ CloseBroadcast(k) \/ CloseSession(k)
           \/ Expire
           \/ UNCHANGED vars
  BY <1>4, OtherQuiet, QuietMoves
<1> QED  BY <1>1, <1>2, <1>3, <1>4 DEF Next, Handle

\* A handler that was started stays so, and one that ended takes nothing more.
LEMMA PcStep ==
  ASSUME [Next]_vars, TypeInv, NEW c \in Conns
  PROVE  /\ pc[c] # "new" => pc[c]' # "new"
         /\ pc[c] = "ended" => pc[c]' = "ended"
<1> USE DEF TypeInv
<1>1. ASSUME NEW x \in Conns, Open(x) \/ Handle(x)
      PROVE  pc[c]' = pc[c] \/ (pc[c] # "ended" /\ pc[c]' # "new")
  BY <1>1 DEF Open, Handle, BroadcastReady, Broadcast, TakeUpdate, TakeStream, Push, Send,
              HungUp, Exit, Hold
<1>2. ASSUME NEW x \in Conns,
             ClientSend(x) \/ ClientPing(x) \/ ClientReceive(x) \/ ClientGone(x) \/ Notice(x)
      PROVE  pc[c]' = pc[c]
  BY <1>2 DEF ClientSend, ClientPing, Transmit, ClientReceive, ClientGone, Notice, connVars
<1>3. CASE \/ \E k \in Closers : CloseBegin(k) \/ CloseBroadcast(k) \/ CloseSession(k)
           \/ Expire
           \/ UNCHANGED vars
  BY <1>3 DEF CloseBegin, CloseBroadcast, CloseStep, CloseSession, Expire, vars, connVars
<1> QED  BY <1>1, <1>2, <1>3 DEF Next

-----------------------------------------------------------------------------
(* What the moves keep.                                                    *)

\* The numbers are naturals.
LEMMA Numbers ==
  ASSUME TypeInv, NEW d \in Conns, NEW c \in Conns
  PROVE  /\ Nums(d, got[c]) \subseteq Nat /\ Nums(d, tx[c]) \subseteq Nat
         /\ One(d, held[c]) \subseteq Nat /\ One(d, held[d]) \subseteq Nat
         /\ Nums(d, queue[Outbox(d)]) \subseteq Nat /\ Nums(d, stream[d]) \subseteq Nat
         /\ sent[d] \in Nat
BY NumsOf, OneFacts, Opposite DEF TypeInv

\* The order of d's updates on their way to c.
LEMMA PairOrder ==
  ASSUME TypeInv, TypeInv', NEW x, Moves(x), AllRising',
         NEW d \in Conns, NEW c \in Conns \ Side(d), Ordered(c, d), OrderedOut(d)
  PROVE  Ordered(c, d)' /\ OrderedOut(d)'
<1> DEFINE G == Nums(d, got[c])       G1 == Nums(d, got[c]')
           T == Nums(d, tx[c])        T1 == Nums(d, tx[c]')
           H == One(d, held[c])       H1 == One(d, held[c]')
           Q == Nums(d, queue[Outbox(d)])  Q1 == Nums(d, queue[Outbox(d)]')
           P == One(d, held[d])       P1 == One(d, held[d]')
           S == Nums(d, stream[d])    S1 == Nums(d, stream[d]')
           N == sent[d]               N1 == sent[d]'
           A == G \cup T \cup H \cup Q \cup P \cup S
           A1 == G1 \cup T1 \cup H1 \cup Q1 \cup P1 \cup S1
           Line == /\ Before(G, T \cup H) /\ Before(T, H)
                   /\ Before(G \cup T \cup H, Q \cup P \cup S)
                   /\ Before(Q, P \cup S) /\ Before(P, S)
                   /\ A \subseteq 1..N
           Line1 == /\ Before(G1, T1 \cup H1) /\ Before(T1, H1)
                    /\ Before(G1 \cup T1 \cup H1, Q1 \cup P1 \cup S1)
                    /\ Before(Q1, P1 \cup S1) /\ Before(P1, S1)
                    /\ A1 \subseteq 1..N1
<1>1. Line
  BY DEF Ordered, OrderedOut, Taken, Coming
<1>2. N \in Nat /\ N1 \in Nat
  BY DEF TypeInv
<1>3. \/ Stays(c, d) \/ Passes(c, d) \/ Reads(c, d) \/ Starts(c, d) \/ Delivers(c, d)
  BY DEF Moves
<1>4. Line1 => Ordered(c, d)' /\ OrderedOut(d)'
  BY DEF Ordered, OrderedOut, Taken, Coming, AllRising
<1>5. CASE Stays(c, d)
  <2>1. /\ G1 = G /\ T1 = T /\ H1 = H /\ P1 = P /\ S1 = S /\ N1 = N
        /\ Q1 \subseteq Q
    BY <1>5 DEF Stays
  <2> HIDE DEF G, T, H, Q, P, S, N, G1, T1, H1, Q1, P1, S1, N1
  <2>2. Line1
    BY <1>1, <2>1 DEF Before
  <2> QED  BY <2>2, <1>4
<1>6. CASE Delivers(c, d)
  <2>1. /\ G1 = G /\ T1 = T /\ H = {} /\ P1 = P /\ S1 = S /\ N1 = N
        /\ Q = H1 \cup Q1 /\ Before(H1, Q1)
    BY <1>6 DEF Delivers
  <2> HIDE DEF G, T, H, Q, P, S, N, G1, T1, H1, Q1, P1, S1, N1
  <2>2. Line1
    BY <1>1, <2>1 DEF Before
  <2> QED  BY <2>2, <1>4
<1>7. CASE Passes(c, d)
  <2>1. /\ G1 = G /\ H1 = {} /\ P1 = P /\ S1 = S /\ N1 = N /\ Q1 = Q
        /\ T1 = T \cup H \/ T1 = T
    BY <1>7 DEF Passes
  <2> HIDE DEF G, T, H, Q, P, S, N, G1, T1, H1, Q1, P1, S1, N1
  <2>2. Line1
    BY <1>1, <2>1 DEF Before
  <2> QED  BY <2>2, <1>4
<1>8. CASE Reads(c, d)
  <2>1. /\ H1 = H /\ P1 = P /\ S1 = S /\ N1 = N /\ Q1 = Q
        /\ G1 \cup T1 = G \cup T /\ Before(G1, T1)
    BY <1>8 DEF Reads
  <2> HIDE DEF G, T, H, Q, P, S, N, G1, T1, H1, Q1, P1, S1, N1
  <2>2. Line1
    BY <1>1, <2>1 DEF Before
  <2> QED  BY <2>2, <1>4
<1>9. CASE Starts(c, d)
  <2>1. /\ G1 = G /\ T1 = T /\ H1 = H
        /\ \/ P = {} /\ S = P1 \cup S1 /\ Before(P1, S1) /\ Q1 = Q /\ N1 = N
           \/ P1 = {} /\ S1 = S /\ Q1 = Q \cup P /\ N1 = N
           \/ P1 = P /\ S1 = S \cup {N + 1} /\ Q1 = Q /\ N1 = N + 1
    BY <1>9 DEF Starts
  <2> HIDE DEF G, T, H, Q, P, S, N, G1, T1, H1, Q1, P1, S1, N1
  <2>2. CASE P = {} /\ S = P1 \cup S1 /\ Before(P1, S1) /\ Q1 = Q /\ N1 = N
    BY <1>1, <2>1, <2>2, <1>4 DEF Before
  <2>3. CASE P1 = {} /\ S1 = S /\ Q1 = Q \cup P /\ N1 = N
    BY <1>1, <2>1, <2>3, <1>4 DEF Before
  <2>4. CASE P1 = P /\ S1 = S \cup {N + 1} /\ Q1 = Q /\ N1 = N + 1
    <3>1. A1 = A \cup {N1}
      BY <2>1, <2>4
    <3>2. A1 \subseteq 1..N1
      BY <3>1, <1>1, <1>2, <2>4
    <3>3. \A n \in A : n < N + 1
      BY <1>1, <1>2
    <3>4. Line1
      BY <1>1, <2>1, <2>4, <3>2, <3>3 DEF Before
    <3> QED  BY <3>4, <1>4
  <2> QED  BY <2>1, <2>2, <2>3, <2>4
<1> QED  BY <1>3, <1>5, <1>6, <1>7, <1>8, <1>9

\* OrderInv is kept.
LEMMA OrderStep ==
  ASSUME TypeInv, TypeInv', NEW x, Moves(x), AllRising', OrderInv
  PROVE  OrderInv'
<1>1. ASSUME NEW d \in Conns, NEW c \in Conns \ Side(d)
      PROVE  Ordered(c, d)' /\ OrderedOut(d)'
  <2>1. Ordered(c, d) /\ OrderedOut(d)
    BY DEF OrderInv
  <2> QED  BY <2>1, PairOrder
<1> QED  BY <1>1 DEF OrderInv

\* What a connection has taken grows only by what it takes from the queue.
LEMMA TakenStep ==
  ASSUME NEW x, Moves(x), NEW d \in Conns, NEW c \in Conns \ Side(d)
  PROVE  \/ Taken(c, d)' \subseteq Taken(c, d)
         \/ c = x /\ Taken(c, d)' \subseteq Taken(c, d) \cup Coming(d)
<1>1. \/ Stays(c, d) \/ Passes(c, d) \/ Reads(c, d) \/ Starts(c, d)
      \/ c = x /\ Delivers(c, d)
  BY DEF Moves
<1>2. CASE Stays(c, d) \/ Starts(c, d)
  BY <1>2 DEF Stays, Starts, Taken
<1>3. CASE Passes(c, d)
  BY <1>3 DEF Passes, Taken
<1>4. CASE Reads(c, d)
  BY <1>4 DEF Reads, Taken
<1>5. CASE c = x /\ Delivers(c, d)
  BY <1>5 DEF Delivers, Taken, Coming
<1> QED  BY <1>1, <1>2, <1>3, <1>4, <1>5

\* OnceInv is kept: what is still to come nobody has taken.
LEMMA OnceStep ==
  ASSUME TypeInv, NEW x, Moves(x), OrderInv, OnceInv
  PROVE  OnceInv'
<1> SUFFICES ASSUME NEW d \in Conns, NEW c \in Conns \ Side(d), NEW e \in Conns \ Side(d),
                    c # e, NEW n \in Taken(c, d)', n \in Taken(e, d)'
             PROVE  FALSE
  BY DEF OnceInv
<1>1. Taken(c, d) \cap Taken(e, d) = {}
  BY DEF OnceInv
<1>2. Before(Taken(c, d), Coming(d)) /\ Before(Taken(e, d), Coming(d))
  BY DEF OrderInv, Ordered
<1>3. Coming(d) \subseteq Nat
  BY Numbers DEF Coming
<1>4. Taken(c, d)' \subseteq Taken(c, d) \/ Taken(e, d)' \subseteq Taken(e, d)
  BY TakenStep
<1>5. /\ Taken(c, d)' \subseteq Taken(c, d) \cup Coming(d)
      /\ Taken(e, d)' \subseteq Taken(e, d) \cup Coming(d)
  BY TakenStep
<1> QED  BY <1>1, <1>2, <1>3, <1>4, <1>5 DEF Before

\* WholeInv is kept: a lone connection takes the lowest number that is coming.
LEMMA WholeStep ==
  ASSUME TypeInv, TypeInv', [Next]_vars, NEW x, Moves(x), OrderInv, OrderInv', WholeInv
  PROVE  WholeInv'
<1> SUFFICES ASSUME NEW d \in Conns, NEW c \in Conns \ Side(d), Alone(c)'
             PROVE  /\ \A n \in Taken(c, d)' : 1..n \subseteq Taken(c, d)'
                    /\ pc[c]' # "ended" => 1..sent[d]' \subseteq Taken(c, d)' \cup Coming(d)'
  BY DEF WholeInv
<1>1. Alone(c)
  <2>1. \A e \in Conns : pc[e]' = "new" => pc[e] = "new"
    BY PcStep
  <2> QED  BY <2>1 DEF Alone, Side, Conns
<1>2. /\ \A n \in Taken(c, d) : 1..n \subseteq Taken(c, d)
      /\ pc[c] # "ended" => 1..sent[d] \subseteq Taken(c, d) \cup Coming(d)
  BY <1>1 DEF WholeInv
<1>3. pc[c]' # "ended" => pc[c] # "ended"
  BY PcStep
<1> DEFINE K == Taken(c, d)   K1 == Taken(c, d)'
           C == Coming(d)     C1 == Coming(d)'
           N == sent[d]       N1 == sent[d]'
<1>4. /\ K \subseteq 1..N /\ C \subseteq 1..N /\ Before(K, C)
      /\ K1 \subseteq 1..N1 /\ C1 \subseteq 1..N1 /\ Before(K1, C1)
      /\ N \in Nat /\ N1 \in Nat
  BY DEF OrderInv, Ordered, OrderedOut, TypeInv
<1>5. CASE K1 = K /\ C1 = C /\ N1 = N
  BY <1>2, <1>3, <1>5
<1>6. CASE Stays(c, d)
  BY <1>1, <1>5, <1>6 DEF Stays, Taken, Coming
<1>7. CASE Reads(c, d)
  BY <1>5, <1>7 DEF Reads, Taken, Coming
<1>8. CASE Starts(c, d)
  <2>1. K1 = K /\ ((C1 = C /\ N1 = N) \/ (C1 = C \cup {N + 1} /\ N1 = N + 1))
    <3>1. K1 = K
      BY <1>8 DEF Starts, Taken
    <3> DEFINE Q == Nums(d, queue[Outbox(d)])   Q1 == Nums(d, queue[Outbox(d)]')
               P == One(d, held[d])             P1 == One(d, held[d]')
               S == Nums(d, stream[d])          S1 == Nums(d, stream[d]')
    <3>2. C = Q \cup P \cup S /\ C1 = Q1 \cup P1 \cup S1
      BY DEF Coming
    <3>3. \/ P = {} /\ S = P1 \cup S1 /\ Q1 = Q /\ N1 = N
          \/ P1 = {} /\ S1 = S /\ Q1 = Q \cup P /\ N1 = N
          \/ P1 = P /\ S1 = S \cup {N + 1} /\ Q1 = Q /\ N1 = N + 1
      BY <1>8 DEF Starts
    <3> HIDE DEF K, K1, C, C1, N, N1, Q, Q1, P, P1, S, S1
    <3>4. CASE P = {} /\ S = P1 \cup S1 /\ Q1 = Q /\ N1 = N
      <4>1. C1 = C
        BY <3>2, <3>4
      <4> QED  BY <3>1, <3>4, <4>1
    <3>5. CASE P1 = {} /\ S1 = S /\ Q1 = Q \cup P /\ N1 = N
      <4>1. C1 = C
        BY <3>2, <3>5
      <4> QED  BY <3>1, <3>5, <4>1
    <3>6. CASE P1 = P /\ S1 = S \cup {N + 1} /\ Q1 = Q /\ N1 = N + 1
      <4>1. C1 = C \cup {N + 1}
        BY <3>2, <3>6
      <4> QED  BY <3>1, <3>6, <4>1
    <3> QED  BY <3>3, <3>4, <3>5, <3>6
  <2> HIDE DEF K, K1, C, C1, N, N1
  <2>2. CASE C1 = C \cup {N + 1} /\ N1 = N + 1
    <3>1. \A n \in 1..N1 : n \in 1..N \/ n = N + 1
      BY <2>2, <1>4
    <3>2. pc[c]' # "ended" => 1..N1 \subseteq K1 \cup C1
      BY <1>2, <1>3, <2>1, <2>2, <3>1 DEF K, C, N
    <3> QED  BY <1>2, <2>1, <3>2 DEF K, K1, C1, N1
  <2> QED  BY <1>5, <2>1, <2>2
<1>9. CASE Delivers(c, d)
  <2>1. /\ pc[c] # "ended" /\ K1 \cup C1 = K \cup C /\ K \subseteq K1 /\ N1 = N
    BY <1>9 DEF Delivers, Taken, Coming
  <2> HIDE DEF K, K1, C, C1, N, N1
  <2>2. 1..N1 \subseteq K1 \cup C1
    BY <1>2, <2>1 DEF K, C, N
  <2>3. ASSUME NEW n \in K1, NEW k \in 1..n PROVE k \in K1
    <3>1. k \in 1..N1 /\ k <= n /\ n \in Nat /\ k \in Nat
      BY <1>4
    <3>2. CASE k \in C1
      <4>1. n < k
        BY <1>4, <3>2 DEF Before
      <4> QED  BY <3>1, <4>1
    <3> QED  BY <2>2, <3>1, <3>2
  <2> QED  BY <2>2, <2>3 DEF K1, C1, N1
<1>10. CASE Passes(c, d)
  <2>1. /\ C1 = C /\ N1 = N /\ K1 \subseteq K
        /\ \/ K1 = K
           \/ pc[c]' = "ended" /\ K = K1 \cup One(d, held[c]) /\ Before(K1, One(d, held[c]))
    BY <1>10 DEF Passes, Taken, Coming, Before, OrderInv, Ordered
  <2> DEFINE H == One(d, held[c])
  <2> HIDE DEF K, K1, C, C1, N, N1, H
  <2>2. CASE pc[c]' = "ended" /\ K = K1 \cup H /\ Before(K1, H)
    <3>1. ASSUME NEW n \in K1, NEW k \in 1..n PROVE k \in K1
      <4>1. k \in K /\ k <= n /\ n \in Nat /\ k \in Nat
        BY <1>2, <1>4, <2>1 DEF K
      <4>2. k \notin H
        BY <2>2, <4>1 DEF Before
      <4> QED  BY <2>2, <4>1, <4>2
    <3> QED  BY <2>2, <3>1 DEF K1, C1, N1
  <2> QED  BY <1>5, <2>1, <2>2 DEF H
<1> QED  BY <1>6, <1>7, <1>8, <1>9, <1>10 DEF Moves

-----------------------------------------------------------------------------
(* The theorems.                                                           *)

\* Initially nothing was sent.
LEMMA RouteInit == Init => RouteInv
<1> SUFFICES ASSUME Init PROVE RouteInv
  OBVIOUS
<1>1. "none" \in Kinds \ {"update"}
  BY DEF Kinds
<1>2. TypeInv
  BY <1>1, MadeMessages DEF Init, TypeInv, Queues, Places
<1>3. ASSUME NEW d \in Conns, NEW c \in Conns
      PROVE  /\ One(d, held[c]) = {} /\ Nums(d, stream[c]) = {} /\ Nums(d, tx[c]) = {}
             /\ Nums(d, got[c]) = {} /\ Nums(d, queue[Outbox(c)]) = {}
             /\ Nums(d, queue[Inbox(c)]) = {}
             /\ Rising(d, stream[c]) /\ Rising(d, tx[c]) /\ Rising(d, got[c])
             /\ Rising(d, queue[Outbox(c)])
             /\ sent[c] = 0 /\ pc[c] = "new" /\ got[c] = <<>>
  BY <1>1, Few, PlainMessage, Opposite DEF Init, Queues
<1>4. ASSUME NEW d \in Conns, NEW c \in Conns PROVE Taken(c, d) = {} /\ Coming(d) = {}
  BY <1>3 DEF Taken, Coming
<1>5. Directed
  BY <1>3 DEF Directed
<1>6. OnlyUpdates /\ Unopened
  BY <1>3, <1>4 DEF OnlyUpdates, Unopened
<1>7. OrderInv
  BY <1>3, <1>4 DEF OrderInv, Ordered, OrderedOut, Before
<1>8. OnceInv /\ WholeInv
  BY <1>3, <1>4 DEF OnceInv, WholeInv
<1> QED  BY <1>2, <1>5, <1>6, <1>7, <1>8 DEF RouteInv

\* Every step keeps the invariant.
LEMMA RouteStep == RouteInv /\ [Next]_vars => RouteInv'
<1> SUFFICES ASSUME RouteInv, [Next]_vars PROVE RouteInv'
  OBVIOUS
<1>1. TypeInv'
  BY TypeStep DEF RouteInv
<1>2. PICK x : Moves(x) /\ RestInv'
  BY StepMoves DEF RouteInv
<1>3. OrderInv'
  BY <1>1, <1>2, OrderStep DEF RouteInv, RestInv
<1>4. OnceInv'
  BY <1>2, OnceStep DEF RouteInv
<1>5. WholeInv'
  BY <1>1, <1>2, <1>3, WholeStep DEF RouteInv
<1> QED  BY <1>1, <1>2, <1>3, <1>4, <1>5 DEF RouteInv, RestInv

\* An update that was read has its number among those taken.
LEMMA ReadNumbers ==
  ASSUME RouteInv, NEW c \in Conns, NEW i \in DOMAIN got[c]
  PROVE  /\ got[c][i] \in Messages
         /\ got[c][i].from \in Conns \ Side(c)
         /\ got[c][i].n \in Nat
         /\ got[c][i].n \in One(got[c][i].from, got[c][i])
         /\ got[c][i].n \in Nums(got[c][i].from, got[c])
         /\ got[c][i].n \in Taken(c, got[c][i].from)
<1> DEFINE m == got[c][i]
<1>1. m \in Messages /\ m.kind = "update" /\ m.from \in Conns /\ m.n \in Nat
  <2>1. got[c] \in Seq(Messages) /\ m.kind = "update"
    BY DEF RouteInv, TypeInv, OnlyUpdates
  <2>2. m \in Messages
    BY <2>1
  <2> QED  BY <2>1, <2>2 DEF Messages
<1>2. m.n \in One(m.from, m)
  BY <1>1, OneFacts
<1>3. m.n \in Nums(m.from, got[c])
  BY <1>2 DEF Nums
<1>4. m.from \notin Side(c)
  BY <1>1, <1>3 DEF RouteInv, Directed
<1> QED  BY <1>1, <1>2, <1>3, <1>4 DEF Taken

\* What is read is in order, of the other side, and read once.
LEMMA RouteOrder == RouteInv => InOrder
<1> SUFFICES ASSUME RouteInv, NEW c \in Conns, NEW d \in Conns
             PROVE  /\ \A i \in DOMAIN got[c] : got[c][i].from \notin Side(c)
                    /\ \A i, j \in DOMAIN got[c] :
                         i < j /\ got[c][i].from = got[c][j].from => got[c][i].n < got[c][j].n
                    /\ \A i \in DOMAIN got[c], j \in DOMAIN got[d] :
                         got[c][i] = got[d][j] => c = d
  BY DEF InOrder
<1>1. ASSUME NEW i \in DOMAIN got[c], NEW j \in DOMAIN got[c], i < j,
             got[c][i].from = got[c][j].from
      PROVE  got[c][i].n < got[c][j].n
  <2> DEFINE e == got[c][i].from
  <2>1. e \in Conns /\ c \in Conns \ Side(e)
    BY ReadNumbers, Opposite
  <2>2. Rising(e, got[c])
    BY <2>1 DEF RouteInv, OrderInv, Ordered
  <2>3. got[c][i].n \in One(e, got[c][i]) /\ got[c][j].n \in One(e, got[c][j])
    BY <1>1, ReadNumbers
  <2> QED  BY <1>1, <2>2, <2>3 DEF Rising, Before
<1>2. ASSUME NEW i \in DOMAIN got[c], NEW j \in DOMAIN got[d], got[c][i] = got[d][j], c # d
      PROVE  FALSE
  <2> DEFINE e == got[c][i].from
             n == got[c][i].n
  <2>1. e \in Conns /\ c \in Conns \ Side(e) /\ d \in Conns \ Side(e)
    BY <1>2, ReadNumbers, Opposite
  <2>2. n \in Taken(c, e) /\ n \in Taken(d, e)
    BY <1>2, ReadNumbers
  <2> QED  BY <1>2, <2>1, <2>2 DEF RouteInv, OnceInv
<1> QED  BY <1>1, <1>2, ReadNumbers

\* What a lone connection has read of another one has no gap.
LEMMA RouteGap == RouteInv => NoGap
<1> SUFFICES ASSUME RouteInv, NEW c \in Conns, \A e \in Side(c) \ {c} : pc[e] = "new",
                    NEW i \in DOMAIN got[c], NEW n \in 1..(got[c][i].n - 1)
             PROVE  \E j \in 1..(i - 1) : got[c][j] = Update(got[c][i].from, n)
  BY DEF NoGap
<1> DEFINE d == got[c][i].from
           k == got[c][i].n
<1>1. /\ d \in Conns /\ c \in Conns \ Side(d) /\ k \in Nat /\ n \in Nat /\ n < k
      /\ k \in Taken(c, d) /\ k \in Nums(d, got[c]) /\ k \in One(d, got[c][i])
      /\ got[c] \in Seq(Messages)
  BY ReadNumbers, Opposite DEF RouteInv, TypeInv
<1> HIDE DEF d, k
<1>2. n \in Taken(c, d)
  <2>1. Alone(c)
    BY DEF Alone
  <2>2. n \in 1..k
    BY <1>1
  <2> QED  BY <1>1, <2>1, <2>2 DEF RouteInv, WholeInv
<1>3. n \in Nums(d, got[c])
  <2>1. Ordered(c, d)
    BY <1>1 DEF RouteInv, OrderInv
  <2>2. n \notin Nums(d, tx[c]) \cup One(d, held[c])
    BY <1>1, <2>1 DEF Ordered, Before
  <2> QED  BY <1>2, <2>2 DEF Taken
<1>4. PICK j \in DOMAIN got[c] : n \in One(d, got[c][j])
  BY <1>1, <1>3, NumsOf
<1>5. got[c][j] \in Messages /\ got[c][j].kind = "update" /\ got[c][j].from = d
      /\ got[c][j].n = n
  BY <1>1, <1>4, OneFacts
<1>6. got[c][j] = Update(d, n)
  BY <1>5 DEF Messages, Update
<1>7. Rising(d, got[c])
  BY <1>1 DEF RouteInv, OrderInv, Ordered
<1>8. i < j => k < n
  BY <1>1, <1>4, <1>7 DEF Rising, Before
<1>9. i # j
  BY <1>1, <1>5 DEF k
<1>10. i \in Nat /\ j \in Nat \ {0}
  BY <1>1
<1>11. j \in 1..(i - 1)
  BY <1>1, <1>8, <1>9, <1>10
<1> QED  BY <1>6, <1>11 DEF d

\* Every update is at one place on its way, in order: the invariant of the session.
THEOREM UpdatesKeepTheirWay == Spec => []RouteInv
BY RouteInit, RouteStep, PTL DEF Spec

\* Whatever clients leave and come back and however the handlers of a side share
\* its queue, a connection reads the updates of another one in the order they were
\* sent, and none twice (handle_streaming, send_msg).
THEOREM UpdatesArriveInOrder == Spec => []InOrder
BY UpdatesKeepTheirWay, RouteOrder, PTL

\* A side with one connection misses no update: what it has read has no gap, for
\* any capacity of the queues (a select! that drops a receive loses nothing).
THEOREM NothingIsSkipped == Spec => []NoGap
BY UpdatesKeepTheirWay, RouteGap, PTL

=============================================================================
