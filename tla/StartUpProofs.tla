--------------------------- MODULE StartUpProofs ----------------------------
(***************************************************************************)
(* Proofs about the start of a share over two relays, for any receivers,   *)
(* any of them started with --lan, with and without the broadcast; and     *)
(* about the shutdown signal on which its ends rest.                       *)
(***************************************************************************)
EXTENDS StartUp, Shutdown, TLAPS

USE DEF senderVars, receiverVars

-----------------------------------------------------------------------------
States == {"idle", "discover", "join", "probe", "channel", "joined", "asked", "over",
           "left", "error"}

TypeInv ==
  /\ start \in {"server", "local", "public", "lan", "on", "failed", "exited"}
  /\ server \in {"off", "up", "closing", "down"}
  /\ session \in [Relays -> {"none", "open", "closed"}]
  /\ channel \in [Relays -> {"none", "connecting", "on", "ended"}]
  /\ shut \in [Relays -> BOOLEAN]
  /\ broadcast \in {"off", "on", "done"}
  /\ ready \in [Relays -> SUBSET Receivers]
  /\ handled \in [Relays -> SUBSET Receivers]
  /\ quit \in BOOLEAN
  /\ failed \subseteq Relays
  /\ pc \in [Receivers -> States]
  /\ route \in [Receivers -> Relays]
  /\ found \in [Receivers -> BOOLEAN]
  /\ deaf \in [Receivers -> BOOLEAN]

\* A reason to end what the sender has at the relay x: the share has ended, or a
\* receiver came in over the other relay.
Over(x) == Ended \/ handled[Other(x)] # {}

\* The signal to a connection, the end of a session and that of the local relay
\* have such a reason.
EndsHaveReason ==
  /\ \A x \in Relays : shut[x] \/ session[x] = "closed" => Over(x)
  /\ server \in {"closing", "down"} => Over("local")

\* A receiver is announced at the relay it went to and at no other.
Entered == {"joined", "asked", "over", "left"}
AnnouncedOnRoute ==
  \A x \in Relays : \A r \in ready[x] \cup handled[x] : route[r] = x /\ pc[r] \in Entered

\* The share is at the local relay before its address is made known, and a receiver
\* that has heard the address goes there.
Started == {"on", "exited"}
HeardAfterStart ==
  /\ start # "server" => server # "off"
  /\ start \in Started \cup {"public", "lan"} => session["local"] # "none"
  /\ broadcast = "on" => start \in Started
  /\ \A r \in Receivers : found[r] => start \in Started /\ route[r] = "local"

MeetInv ==
  /\ TypeInv /\ EndsHaveReason /\ AnnouncedOnRoute /\ HeardAfterStart
  /\ HeardIsFound

-----------------------------------------------------------------------------
(* What steps keep.                                                        *)

\* Every step keeps the types.
LEMMA TypeStep == TypeInv /\ [Next]_vars => TypeInv'
<1> SUFFICES ASSUME TypeInv, [Next]_vars PROVE TypeInv'
  OBVIOUS
<1> USE DEF TypeInv
<1>1. CASE Start
  <2>1. CASE ConnectLocal \/ ConnectPublic
    BY <2>1 DEF ConnectLocal, ConnectPublic, Joins
  <2>2. CASE Exit
    <3>1. {x \in Relays : channel[x] \in {"connecting", "on"}} \subseteq Relays
      OBVIOUS
    <3> QED  BY <2>2, <3>1 DEF Exit
  <2>3. CASE StartServer \/ BroadcastRelayAddr
    BY <2>3 DEF StartServer, BroadcastRelayAddr
  <2> QED  BY <1>1, <2>1, <2>2, <2>3 DEF Start
<1>2. CASE LocalRelay
  BY <1>2 DEF LocalRelay, ServerCloses, ServerStops
<1>3. CASE BroadcastTimeout
  BY <1>3 DEF BroadcastTimeout
<1>4. CASE Failure
  BY <1>4 DEF Failure, StartFails, EstablishFails, HearForeign, ShutDown
<1>5. ASSUME NEW r \in Receivers, NEW next \in States, Goes(r, next)
      PROVE  pc' \in [Receivers -> States]
  BY <1>5 DEF Goes
<1>6. CASE Users
  <2>1. CASE Quit
    BY <2>1 DEF Quit, ShutDown
  <2>2. ASSUME NEW r \in Receivers, Begin(r) PROVE TypeInv'
    BY <1>5, <2>2 DEF Begin, States
  <2>3. ASSUME NEW r \in Receivers, Leave(r) PROVE TypeInv'
    <3>1. pc' \in [Receivers -> States]
      BY <1>5, <2>3 DEF Leave, States
    <3>2. session' \in [Relays -> {"none", "open", "closed"}]
      BY <2>3 DEF Leave
    <3> QED  BY <2>3, <3>1, <3>2 DEF Leave
  <2> QED  BY <1>6, <2>1, <2>2, <2>3 DEF Users
<1>7. ASSUME NEW x \in Relays, RelayChannel(x) PROVE TypeInv'
  <2>1. Other(x) \in Relays
    BY DEF Other, Relays
  <2>2. CASE Establish(x) \/ Stop(x)
    BY <2>2 DEF Establish, Stop
  <2>3. CASE OtherClose(x)
    BY <2>3 DEF OtherClose, ShutDown
  <2>4. ASSUME NEW r \in Receivers, Ready(x, r) PROVE TypeInv'
    <3>1. pc' \in [Receivers -> States]
      BY <2>4 DEF Ready, States
    <3> HIDE DEF Ready
    <3>2. /\ ready' \in [Relays -> SUBSET Receivers]
          /\ handled' \in [Relays -> SUBSET Receivers]
          /\ shut' \in [Relays -> BOOLEAN]
      BY <2>1, <2>4 DEF Ready
    <3> QED  BY <2>4, <3>1, <3>2 DEF Ready
  <2> QED  BY <1>7, <2>2, <2>3, <2>4 DEF RelayChannel
<1>8. ASSUME NEW r \in Receivers, Receive(r) PROVE TypeInv'
  <2>0. pc' \in [Receivers -> States]
    BY <1>5, <1>8 DEF Receive, Discovered, NotDiscovered, Join, Probe, Channel, ReceiveFails,
                      ReceiverTold, States
  <2> HIDE DEF Receive
  <2>1. CASE Discovered(r)
    BY <2>0, <2>1 DEF Discovered, Relays
  <2>2. CASE Channel(r)
    BY <2>0, <2>2 DEF Channel
  <2>3. CASE NotDiscovered(r) \/ Join(r) \/ ReceiveFails(r) \/ ReceiverTold(r)
    BY <2>0, <2>3 DEF NotDiscovered, Join, ReceiveFails, ReceiverTold
  <2>4. CASE Probe(r)
    BY <2>0, <2>4 DEF Probe, Relays
  <2> QED  BY <1>8, <2>1, <2>2, <2>3, <2>4 DEF Receive
<1>9. CASE UNCHANGED vars
  BY <1>9 DEF vars
<1> QED  BY <1>1, <1>2, <1>3, <1>4, <1>6, <1>7, <1>8, <1>9 DEF Next

\* How a receiver's control state moves: one that left stays so, one that has
\* entered stays in, and then keeps its route.
Moves(r) ==
  /\ pc[r] = "left" => pc[r]' = "left"
  /\ pc[r] \in Entered => pc[r]' \in Entered /\ route[r]' = route[r]

\* Every step moves the receivers so, and takes back neither a Ready that was taken
\* nor the shutdown.
LEMMA Monotone ==
  ASSUME TypeInv, [Next]_vars
  PROVE  /\ \A r \in Receivers : Moves(r)
         /\ \A x \in Relays : handled[x] \subseteq handled[x]'
         /\ quit => quit'
<1> USE DEF TypeInv, Moves, Entered
<1>1. CASE Start
  BY <1>1 DEF Start, StartServer, ConnectLocal, ConnectPublic, BroadcastRelayAddr, Exit
<1>2. CASE LocalRelay \/ BroadcastTimeout
  BY <1>2 DEF LocalRelay, ServerCloses, ServerStops, BroadcastTimeout
<1>3. CASE Failure
  BY <1>3 DEF Failure, StartFails, EstablishFails, HearForeign, ShutDown
<1>4. CASE Users
  BY <1>4 DEF Users, Quit, Begin, Leave, Goes, ShutDown
<1>5. ASSUME NEW x \in Relays, RelayChannel(x)
      PROVE  /\ \A r \in Receivers : Moves(r)
             /\ \A y \in Relays : handled[y] \subseteq handled[y]'
             /\ quit => quit'
  BY <1>5 DEF RelayChannel, Establish, Stop, OtherClose, Ready, ShutDown
<1>6. ASSUME NEW r \in Receivers, Receive(r)
      PROVE  /\ \A q \in Receivers : Moves(q)
             /\ \A y \in Relays : handled[y] \subseteq handled[y]'
             /\ quit => quit'
  BY <1>6 DEF Receive, Discovered, NotDiscovered, Join, Probe, Channel, ReceiveFails,
              ReceiverTold, Goes
<1>7. CASE UNCHANGED vars
  BY <1>7 DEF vars
<1> QED  BY <1>1, <1>2, <1>3, <1>4, <1>5, <1>6, <1>7 DEF Next

\* A reason stays one.
LEMMA OverStays ==
  ASSUME TypeInv, [Next]_vars, NEW x \in Relays
  PROVE  (Ended => Ended') /\ (Over(x) => Over(x)')
<1>1. Other(x) \in Relays
  BY DEF Other, Relays
<1> QED  BY <1>1, Monotone DEF Over, Ended, Moves

\* A signal, the end of a session and that of the relay are given for a reason.
Reasoned ==
  /\ \A x \in Relays : shut[x]' => shut[x] \/ Over(x) \/ Over(x)'
  /\ \A x \in Relays : session[x]' = "closed" =>
       session[x] = "closed" \/ shut[x] \/ Over(x) \/ Over(x)'
  /\ server' \in {"closing", "down"} =>
       server \in {"closing", "down"} \/ shut["local"] \/ Over("local")'

\* The steps that give a signal or end a session have a reason; a Ready is one.
LEMMA ReasonStep ==
  ASSUME MeetInv, [Next]_vars
  PROVE  EndsHaveReason'
<1> USE DEF TypeInv
<1>1. TypeInv /\ EndsHaveReason
  BY DEF MeetInv
<1>2. /\ \A x \in Relays : Over(x) => Over(x)'
      /\ \A x \in Relays : quit' => Over(x)'
  BY <1>1, OverStays DEF Over, Ended
<1>3. Reasoned => EndsHaveReason'
  BY <1>1, <1>2 DEF Reasoned, EndsHaveReason, Relays
<1> HIDE DEF MeetInv
<1>4. CASE Start
  BY <1>1, <1>2, <1>3, <1>4 DEF Reasoned, Start, StartServer, ConnectLocal, ConnectPublic, BroadcastRelayAddr,
              Exit, Joins, Relays
<1>5. CASE LocalRelay
  BY <1>1, <1>3, <1>5 DEF Reasoned, LocalRelay, ServerCloses, ServerStops, EndsHaveReason, Relays
<1>6. CASE Failure \/ BroadcastTimeout
  BY <1>1, <1>2, <1>3, <1>6 DEF Reasoned, Failure, StartFails, EstablishFails, HearForeign, ShutDown,
              BroadcastTimeout
<1>7. CASE Quit \/ \E r \in Receivers : Begin(r)
  BY <1>1, <1>2, <1>3, <1>7 DEF Reasoned, Quit, Begin, ShutDown
<1>8. ASSUME NEW r \in Receivers, Leave(r) PROVE EndsHaveReason'
  <2>1. Ended'
    BY <1>1, <1>8 DEF Ended, Leave, Goes
  <2> QED  BY <2>1 DEF EndsHaveReason, Over
<1>9. ASSUME NEW x \in Relays, RelayChannel(x) PROVE EndsHaveReason'
  <2>1. ASSUME NEW r \in Receivers, Ready(x, r) PROVE EndsHaveReason'
    <3>1. r \in handled[x]' /\ Other(Other(x)) = x /\ Other(x) \in Relays
      BY <1>1, <2>1 DEF Ready, Other, Relays
    <3>2. Over(Other(x))'
      BY <3>1 DEF Over
    <3>3. \A y \in Relays : shut[y]' => shut[y] \/ y = Other(x)
      BY <1>1, <2>1, <3>1 DEF Ready
    <3> QED  BY <1>1, <1>2, <2>1, <3>2, <3>3 DEF Ready, EndsHaveReason, Relays
  <2>2. CASE Stop(x)
    BY <1>1, <1>2, <2>2 DEF Stop, EndsHaveReason, Relays
  <2>3. CASE Establish(x) \/ OtherClose(x)
    BY <1>1, <1>2, <2>3 DEF Establish, OtherClose, ShutDown, EndsHaveReason, Relays
  <2> QED  BY <1>9, <2>1, <2>2, <2>3 DEF RelayChannel
<1>10. ASSUME NEW r \in Receivers, Receive(r) PROVE EndsHaveReason'
  BY <1>1, <1>2, <1>10 DEF Receive, Discovered, NotDiscovered, Join, Probe, Channel, ReceiveFails,
              ReceiverTold, EndsHaveReason, Relays
<1>11. CASE UNCHANGED vars
  BY <1>1, <1>2, <1>11 DEF vars, EndsHaveReason, Relays
<1> QED  BY <1>4, <1>5, <1>6, <1>7, <1>8, <1>9, <1>10, <1>11 DEF Next, Users

\* A receiver is announced once it has entered, and then its route is settled.
LEMMA AnnouncedStep ==
  ASSUME MeetInv, [Next]_vars
  PROVE  AnnouncedOnRoute'
<1>1. TypeInv /\ AnnouncedOnRoute /\ \A r \in Receivers : Moves(r)
  BY Monotone DEF MeetInv
<1>2. ASSUME \A x \in Relays : ready[x]' \cup handled[x]' \subseteq ready[x] \cup handled[x]
      PROVE  AnnouncedOnRoute'
  <2>1. ASSUME NEW x \in Relays, NEW r \in ready[x]' \cup handled[x]'
        PROVE  route[r]' = x /\ pc[r]' \in Entered
    <3>1. r \in Receivers /\ route[r] = x /\ pc[r] \in Entered
      BY <1>1, <1>2, <2>1 DEF AnnouncedOnRoute, TypeInv
    <3> QED  BY <1>1, <3>1 DEF Moves
  <2> QED  BY <2>1 DEF AnnouncedOnRoute
<1> HIDE DEF MeetInv
<1>3. CASE Start
  BY <1>1, <1>2, <1>3 DEF Start, StartServer, ConnectLocal, ConnectPublic, BroadcastRelayAddr,
                          Exit
<1>4. CASE LocalRelay \/ BroadcastTimeout
  BY <1>1, <1>2, <1>4 DEF LocalRelay, ServerCloses, ServerStops, BroadcastTimeout
<1>5. CASE Failure
  BY <1>1, <1>2, <1>5 DEF Failure, StartFails, EstablishFails, HearForeign
<1>6. CASE Users
  BY <1>1, <1>2, <1>6 DEF Users, Quit, Begin, Leave
<1>7. ASSUME NEW x \in Relays, RelayChannel(x) PROVE AnnouncedOnRoute'
  <2>1. ASSUME NEW r \in Receivers, Ready(x, r) PROVE AnnouncedOnRoute'
    <3>1. \A y \in Relays : ready[y]' \cup handled[y]' \subseteq ready[y] \cup handled[y]
      BY <1>1, <2>1 DEF Ready, TypeInv
    <3> QED  BY <1>2, <3>1
  <2>2. CASE Establish(x) \/ Stop(x) \/ OtherClose(x)
    BY <1>1, <1>2, <2>2 DEF Establish, Stop, OtherClose
  <2> QED  BY <1>7, <2>1, <2>2 DEF RelayChannel
<1>8. ASSUME NEW r \in Receivers, Receive(r) PROVE AnnouncedOnRoute'
  <2>1. CASE Channel(r)
    <3>1. ASSUME NEW x \in Relays, NEW q \in ready[x]' \cup handled[x]'
          PROVE  route[q]' = x /\ pc[q]' \in Entered
      <4>1. CASE q = r /\ x = route[r]
        BY <1>1, <2>1, <4>1 DEF Channel, Goes, TypeInv, Entered
      <4>2. CASE ~(q = r /\ x = route[r])
        <5>1. q \in ready[x] \cup handled[x]
          BY <1>1, <2>1, <3>1, <4>2 DEF Channel, TypeInv
        <5>2. q \in Receivers /\ route[q] = x /\ pc[q] \in Entered
          BY <1>1, <5>1 DEF AnnouncedOnRoute, TypeInv
        <5> QED  BY <1>1, <5>2 DEF Moves
      <4> QED  BY <4>1, <4>2
    <3> QED  BY <3>1 DEF AnnouncedOnRoute
  <2>2. CASE Discovered(r) \/ NotDiscovered(r) \/ Join(r) \/ Probe(r) \/ ReceiveFails(r)
             \/ ReceiverTold(r)
    BY <1>1, <1>2, <2>2 DEF Discovered, NotDiscovered, Join, Probe, ReceiveFails, ReceiverTold
  <2> QED  BY <1>8, <2>1, <2>2 DEF Receive
<1>9. CASE UNCHANGED vars
  BY <1>1, <1>2, <1>9 DEF vars
<1> QED  BY <1>3, <1>4, <1>5, <1>6, <1>7, <1>8, <1>9 DEF Next

\* The address is broadcast at the end of start, when the share is at the relay.
LEMMA HeardStep ==
  ASSUME MeetInv, [Next]_vars
  PROVE  HeardAfterStart'
<1>1. TypeInv /\ HeardAfterStart
  BY DEF MeetInv
<1> USE DEF TypeInv, HeardAfterStart, Started
<1> HIDE DEF MeetInv
<1>2. CASE Start
  BY <1>1, <1>2 DEF Start, StartServer, ConnectLocal, ConnectPublic, BroadcastRelayAddr, Exit,
                    Joins, Relays
<1>3. CASE LocalRelay \/ BroadcastTimeout
  BY <1>1, <1>3 DEF LocalRelay, ServerCloses, ServerStops, BroadcastTimeout, Relays
<1>4. CASE Failure
  BY <1>1, <1>4 DEF Failure, StartFails, EstablishFails, HearForeign
<1>5. CASE Users
  <2>1. CASE Quit \/ \E r \in Receivers : Begin(r)
    BY <1>1, <2>1 DEF Quit, Begin
  <2>2. ASSUME NEW r \in Receivers, Leave(r) PROVE HeardAfterStart'
    <3>1. session["local"] # "none" => session["local"]' # "none"
      BY <1>1, <2>2 DEF Leave, Relays
    <3> QED  BY <1>1, <2>2, <3>1 DEF Leave
  <2> QED  BY <1>5, <2>1, <2>2 DEF Users
<1>6. ASSUME NEW x \in Relays, RelayChannel(x) PROVE HeardAfterStart'
  <2>1. CASE Stop(x)
    <3>1. session["local"] # "none" => session["local"]' # "none"
      BY <1>1, <2>1 DEF Stop, Relays
    <3> QED  BY <1>1, <2>1, <3>1 DEF Stop
  <2>2. CASE Establish(x) \/ OtherClose(x)
    BY <1>1, <2>2 DEF Establish, OtherClose
  <2>3. ASSUME NEW r \in Receivers, Ready(x, r) PROVE HeardAfterStart'
    BY <1>1, <2>3 DEF Ready
  <2> QED  BY <1>6, <2>1, <2>2, <2>3 DEF RelayChannel
<1>7. ASSUME NEW r \in Receivers, Receive(r) PROVE HeardAfterStart'
  <2>1. CASE Discovered(r)
    BY <1>1, <2>1 DEF Discovered, Relays
  <2>2. CASE Probe(r)
    BY <1>1, <2>2 DEF Probe, Relays
  <2>3. CASE NotDiscovered(r) \/ Join(r) \/ Channel(r) \/ ReceiveFails(r) \/ ReceiverTold(r)
    BY <1>1, <2>3 DEF NotDiscovered, Join, Channel, ReceiveFails, ReceiverTold
  <2> QED  BY <1>7, <2>1, <2>2, <2>3 DEF Receive
<1>8. CASE UNCHANGED vars
  BY <1>1, <1>8 DEF vars
<1> QED  BY <1>2, <1>3, <1>4, <1>5, <1>6, <1>7, <1>8 DEF Next

\* A receiver that fails on the way the broadcast showed it meets a relay, or a
\* session, that ended for a reason.
LEMMA FoundStep ==
  ASSUME MeetInv, [Next]_vars
  PROVE  HeardIsFound'
<1>1. TypeInv /\ EndsHaveReason /\ HeardAfterStart /\ HeardIsFound
  BY DEF MeetInv
<1>2. Over("local") => (Ended \/ handled["public"] # {})'
  <2>1. "local" \in Relays /\ Other("local") = "public"
    BY DEF Relays, Other
  <2> QED  BY <1>1, <2>1, OverStays DEF Over
<1> SUFFICES ASSUME NEW q \in Receivers, found[q]', pc[q]' = "error",
                    ~(Ended \/ handled["public"] # {})'
             PROVE  FALSE
  BY DEF HeardIsFound
<1>3. ~Over("local")
  BY <1>2
<1>4. ~(found[q] /\ pc[q] = "error")
  <2>1. "local" \in Relays /\ Other("local") = "public"
    BY DEF Relays, Other
  <2> QED  BY <1>1, <1>3, <2>1 DEF HeardIsFound, Over
<1>5. ~ReceiveFails(q)
  <2> SUFFICES ASSUME ReceiveFails(q) PROVE FALSE
    OBVIOUS
  <2>1. found[q] /\ route[q] = "local" /\ ~Available("local")
    BY <1>1 DEF ReceiveFails, HeardAfterStart
  <2>2. start \in Started
    BY <1>1, <2>1 DEF HeardAfterStart
  <2>3. server # "off" /\ session["local"] # "none"
    BY <1>1, <2>2 DEF HeardAfterStart, Started
  <2>4. server \in Serving /\ session["local"] = "open"
    BY <1>1, <1>3, <2>3 DEF EndsHaveReason, TypeInv, Serving, Relays
  <2> QED  BY <2>1, <2>4 DEF Available, Reachable
<1> USE DEF TypeInv
<1> HIDE DEF MeetInv
<1>6. CASE Start \/ LocalRelay \/ BroadcastTimeout
  BY <1>1, <1>4, <1>6 DEF Start, StartServer, ConnectLocal, ConnectPublic, BroadcastRelayAddr,
     Exit, LocalRelay, ServerCloses, ServerStops, BroadcastTimeout
<1>7. CASE Failure \/ Users
  BY <1>1, <1>4, <1>7 DEF Failure, StartFails, EstablishFails, HearForeign, Users, Quit, Begin,
     Leave, Goes
<1>8. ASSUME NEW x \in Relays, RelayChannel(x) PROVE FALSE
  BY <1>1, <1>4, <1>8 DEF RelayChannel, Establish, Stop, OtherClose, Ready
<1>9. ASSUME NEW r \in Receivers, Receive(r) PROVE FALSE
  <2>1. CASE ReceiveFails(r)
    BY <1>1, <1>4, <1>5, <2>1 DEF ReceiveFails, Goes
  <2>2. CASE Discovered(r) \/ NotDiscovered(r) \/ Join(r) \/ Probe(r) \/ Channel(r)
             \/ ReceiverTold(r)
    BY <1>1, <1>4, <2>2 DEF Discovered, NotDiscovered, Join, Probe, Channel, ReceiverTold, Goes
  <2> QED  BY <1>9, <2>1, <2>2 DEF Receive
<1>10. CASE UNCHANGED vars
  BY <1>1, <1>4, <1>10 DEF vars
<1> QED  BY <1>6, <1>7, <1>8, <1>9, <1>10 DEF Next

-----------------------------------------------------------------------------
(* The theorems.                                                           *)

\* Initially there is no relay, no session and no receiver.
LEMMA MeetInit == Init => MeetInv
<1> SUFFICES ASSUME Init PROVE MeetInv
  OBVIOUS
<1> USE DEF Init
<1>1. TypeInv
  BY DEF TypeInv, Relays, States
<1>2. EndsHaveReason /\ AnnouncedOnRoute
  BY DEF EndsHaveReason, AnnouncedOnRoute
<1>3. HeardAfterStart /\ HeardIsFound
  BY DEF HeardAfterStart, Started, HeardIsFound
<1> QED  BY <1>1, <1>2, <1>3 DEF MeetInv

\* Every step keeps the invariant.
LEMMA MeetStep == MeetInv /\ [Next]_vars => MeetInv'
<1> SUFFICES ASSUME MeetInv, [Next]_vars PROVE MeetInv'
  OBVIOUS
<1> QED  BY TypeStep, ReasonStep, AnnouncedStep, HeardStep, FoundStep DEF MeetInv

\* A session that was closed on a receiver that was asked has a reason, and that
\* receiver is not it: it came in over its own relay.
LEMMA MeetKeepsAsked == MeetInv => AskedIsKept
<1> SUFFICES ASSUME MeetInv, NEW r \in Receivers, pc[r] = "asked",
                    session[route[r]] = "closed", ~Ended
             PROVE  handled[Other(route[r])] \ {r} # {}
  BY DEF AskedIsKept
<1>1. route[r] \in Relays /\ Other(route[r]) \in Relays /\ Other(route[r]) # route[r]
  BY DEF MeetInv, TypeInv, Relays, Other
<1>2. handled[Other(route[r])] # {}
  BY <1>1 DEF MeetInv, EndsHaveReason, Over
<1>3. r \notin handled[Other(route[r])]
  BY <1>1 DEF MeetInv, AnnouncedOnRoute
<1> QED  BY <1>2, <1>3

\* However the two Ready messages race with the sender's start and its signals, a
\* receiver that was asked keeps the relay it came by (relay_channel, start).
THEOREM ChosenRelayStays == Spec => []AskedIsKept
BY MeetInit, MeetStep, MeetKeepsAsked, PTL DEF Spec

\* A receiver that hears the broadcast finds the share at the sender's relay, unless
\* the share ended or a receiver came in over the public one (broadcast_relay_addr).
THEOREM BroadcastLeadsToShare == Spec => []HeardIsFound
<1>1. MeetInv => HeardIsFound
  BY DEF MeetInv
<1> QED  BY <1>1, MeetInit, MeetStep, PTL DEF Spec

-----------------------------------------------------------------------------
(* The shutdown signals of StartUp, shut and quit, are latches: once given *)
(* they stay, and who waits for one goes on only after it.  Shutdown is    *)
(* what they are made of; that it is a latch is proved here, for any       *)
(* number of callers and waits.  A wait that passed its second check was   *)
(* created before any call of notify_waiters: had there been one, creating *)
(* the Notified would have synchronised with it and the second check would *)
(* have seen the flag.                                                     *)

\* Whoever counted or saw anything counted or saw it after the flag was set.
FlagFirst ==
  /\ calls > 0 => flag
  /\ \A c \in Callers : caller[c] # "start" => flag
  /\ \A c \in Callers : caller[c] = "done" => calls > 0
  /\ \A w \in Waiters : synced[w] => flag
  /\ \A w \in Waiters : waiter[w] \in {"woken", "done"} => flag

\* What the Notified of a wait that goes to sleep was created at.
Early ==
  \A w \in Waiters :
    /\ epoch[w] > 0 => synced[w]
    /\ waiter[w] \in {"await", "parked"} => epoch[w] = 0
    /\ waiter[w] = "parked" => calls = 0

SignalInv == TypeOK /\ FlagFirst /\ Early

USE DEF signalVars

\* At the start nothing is set, counted or waited for.
LEMMA InitSignal == SignalInit => SignalInv
<1> SUFFICES ASSUME SignalInit PROVE SignalInv
  OBVIOUS
<1>1. synced \in [Waiters -> BOOLEAN] /\ \A w \in Waiters : ~synced[w]
  BY Zenon DEF SignalInit
<1>2. TypeOK BY <1>1 DEF SignalInit, TypeOK
<1>3. FlagFirst BY <1>1 DEF SignalInit, FlagFirst
<1>4. Early BY DEF SignalInit, Early
<1>5. QED BY <1>2, <1>3, <1>4 DEF SignalInv

\* The two steps of a call: the flag, then the count.
LEMMA CallSignal ==
  ASSUME SignalInv, NEW c \in Callers, Call(c)
  PROVE  SignalInv'
<1>1. CASE Swap(c)
  BY <1>1 DEF SignalInv, TypeOK, FlagFirst, Early, Swap
<1>2. CASE NotifyWaiters(c)
  <2> USE <1>2 DEF NotifyWaiters
  <2>1. TypeOK'
    BY DEF SignalInv, TypeOK
  <2>2. flag' /\ calls' > 0
    BY DEF SignalInv, TypeOK, FlagFirst
  <2>3. \A w \in Waiters : waiter'[w] # "parked"
                        /\ (waiter'[w] = "await" => waiter[w] = "await")
    BY DEF SignalInv, TypeOK
  <2>4. FlagFirst'
    BY <2>2 DEF SignalInv, TypeOK, FlagFirst
  <2>5. Early'
    BY <2>3 DEF SignalInv, TypeOK, Early
  <2>6. QED BY <2>1, <2>4, <2>5 DEF SignalInv
<1>3. QED BY <1>1, <1>2 DEF Call

\* The five steps of a wait, and its drop.
LEMMA WaitSignal ==
  ASSUME SignalInv, NEW w \in Waiters, Wait(w) \/ Drop(w)
  PROVE  SignalInv'
<1> USE DEF SignalInv, TypeOK, FlagFirst, Early
<1>1. CASE FirstCheck(w)
  BY <1>1 DEF FirstCheck, Loads
<1>2. CASE CreateNotified(w)
  BY <1>2 DEF CreateNotified
<1>3. CASE SecondCheck(w)
  \* A stale load needs a wait that is not synchronised, so one created at 0.
  <2>1. PICK terminated \in Loads(w) :
          waiter' = [waiter EXCEPT ![w] = IF terminated THEN "done" ELSE "await"]
    BY <1>3 DEF SecondCheck
  <2>2. CASE terminated
    <3>1. flag BY <2>1, <2>2 DEF Loads
    <3>2. QED BY <1>3, <2>1, <2>2, <3>1 DEF SecondCheck
  <2>3. CASE ~terminated
    <3>1. synced[w] => flag /\ terminated BY <2>1 DEF Loads
    <3>2. ~synced[w] BY <2>3, <3>1
    <3>3. epoch[w] \in Nat /\ (epoch[w] > 0 => synced[w]) OBVIOUS
    <3>4. epoch[w] = 0 BY <3>2, <3>3
    <3>5. QED BY <1>3, <2>1, <2>3, <3>4 DEF SecondCheck
  <2>4. QED BY <2>2, <2>3
<1>4. CASE Poll(w)
  BY <1>4 DEF Poll
<1>5. CASE Wake(w)
  BY <1>5 DEF Wake
<1>6. CASE Drop(w)
  BY <1>6 DEF Drop
<1>7. QED BY <1>1, <1>2, <1>3, <1>4, <1>5, <1>6 DEF Wait

\* A stuttering step changes nothing the invariant speaks of.
LEMMA StutterSignal == SignalInv /\ UNCHANGED signalVars => SignalInv'
  BY DEF SignalInv, TypeOK, FlagFirst, Early

\* The invariant is inductive.
LEMMA NextSignal == SignalInv /\ [SignalNext]_signalVars => SignalInv'
  BY CallSignal, WaitSignal, StutterSignal DEF SignalNext, Finished

\* Hence it holds in every reachable state.
LEMMA AlwaysSignal == SignalSpec => []SignalInv
  BY InitSignal, NextSignal, PTL DEF SignalSpec

\* Every variable of the signal keeps its type.
THEOREM SignalTyping == SignalSpec => []TypeOK
<1>1. SignalInv => TypeOK BY DEF SignalInv
<1>2. QED BY <1>1, AlwaysSignal, PTL

\* Once a call of shutdown has returned, no wait sleeps: neither one that was
\* between its checks, nor one that its select! loop dropped and restarted.
THEOREM NobodySleeps == SignalSpec => []NoMissedWakeup
<1>1. SignalInv => NoMissedWakeup
  BY DEF SignalInv, TypeOK, FlagFirst, Early, NoMissedWakeup
<1>2. QED BY <1>1, AlwaysSignal, PTL

-----------------------------------------------------------------------------
(* The signal implements the latch: its steps are those of the latch or    *)
(* leave it alone.                                                         *)

\* The signal starts as a latch that is not given.
LEMMA InitLatch == SignalInit => TheLatch!Init
  BY DEF SignalInit, TheLatch!Init

\* Setting the flag gives the latch; counting is a stutter.
LEMMA CallLatch ==
  ASSUME SignalInv, NEW c \in Callers, Call(c)
  PROVE  TheLatch!Next \/ UNCHANGED TheLatch!vars
<1> USE DEF TheLatch!Next, TheLatch!Give, TheLatch!vars
<1>1. CASE Swap(c)
  BY <1>1 DEF Swap
<1>2. CASE NotifyWaiters(c)
  <2>1. \A w \in Waiters : waiter'[w] = "done" <=> waiter[w] = "done"
    BY <1>2 DEF NotifyWaiters
  <2>2. QED BY <1>2, <2>1 DEF NotifyWaiters
<1>3. QED BY <1>1, <1>2 DEF Call

\* A step of one wait, which ends only after the signal.
OneWait(w) ==
  /\ waiter[w] # "done"
  /\ \A v \in Waiters \ {w} : waiter'[v] = waiter[v]
  /\ waiter'[w] = "done" => flag
  /\ flag' = flag

\* One wait changes at a time: it ends with the signal given, or it goes on.
LEMMA OneWaitLatch ==
  ASSUME NEW w \in Waiters, OneWait(w)
  PROVE  TheLatch!Next \/ UNCHANGED TheLatch!vars
<1> DEFINE done == {v \in Waiters : waiter[v] = "done"}
<1> USE DEF OneWait
<1>1. CASE waiter'[w] = "done"
  <2>1. done' = done \cup {w} BY <1>1
  <2>2. TheLatch!Return(w) BY <1>1, <2>1 DEF TheLatch!Return
  <2>3. QED BY <2>2 DEF TheLatch!Next
<1>2. CASE waiter'[w] # "done"
  <2>1. done' = done BY <1>2
  <2>2. QED BY <2>1 DEF TheLatch!vars
<1>3. QED BY <1>1, <1>2

\* A wait ends only when the latch is given; its other steps are stutters.
LEMMA WaitLatch ==
  ASSUME SignalInv, NEW w \in Waiters, Wait(w) \/ Drop(w)
  PROVE  TheLatch!Next \/ UNCHANGED TheLatch!vars
<1>1. OneWait(w)
  <2> USE DEF SignalInv, TypeOK, FlagFirst, Early, OneWait
  <2>1. CASE FirstCheck(w)
    BY <2>1 DEF FirstCheck, Loads
  <2>2. CASE CreateNotified(w)
    BY <2>2 DEF CreateNotified
  <2>3. CASE SecondCheck(w)
    BY <2>3 DEF SecondCheck, Loads
  <2>4. CASE Poll(w)
    BY <2>4 DEF Poll
  <2>5. CASE Wake(w)
    BY <2>5 DEF Wake
  <2>6. CASE Drop(w)
    BY <2>6 DEF Drop
  <2>7. QED BY <2>1, <2>2, <2>3, <2>4, <2>5, <2>6 DEF Wait
<1>2. QED BY <1>1, OneWaitLatch

\* Every step of the signal is a step of the latch or a stutter.
LEMMA NextLatch ==
  SignalInv /\ [SignalNext]_signalVars
  => [TheLatch!Next]_(TheLatch!vars)
<1>1. UNCHANGED signalVars => UNCHANGED TheLatch!vars
  BY DEF TheLatch!vars
<1>2. QED BY <1>1, CallLatch, WaitLatch DEF SignalNext, Finished

\* The signal is a latch for any number of callers and waits: it is given once
\* and for all, and no wait ends before it. (That every wait ends is TLC's.)
THEOREM SignalIsLatch == SignalSpec => TheLatch!SafeSpec
  BY InitLatch, NextLatch, AlwaysSignal, PTL DEF SignalSpec, TheLatch!SafeSpec
=============================================================================
