------------------------------ MODULE StartUp ------------------------------
(***************************************************************************)
(* How a sender and its receivers find each other, when no relay is        *)
(* specified.  The sender starts a relay of its own, joins it and the      *)
(* public relay, one after the other, and broadcasts the address of the    *)
(* first.  A receiver listens for that, and asks the public relay when it  *)
(* hears nothing.  The Ready of either relay shuts the connection to the   *)
(* other one.  Both sides are command-line clients.                        *)
(*                                                                         *)
(* What follows on the relay that stays is Transfer; a session is open or  *)
(* closed here, its queues are RelayChannel and its store RelayStore.      *)
(***************************************************************************)
CONSTANTS
  Receivers,    \* receivers that know the share code
  Lan,          \* those started with --lan
  LanBroadcast  \* whether the sender broadcasts its relay's address

ASSUME StartUpAssumption == Lan \subseteq Receivers /\ LanBroadcast \in BOOLEAN

Relays == {"local", "public"}
Other(x) == IF x = "local" THEN "public" ELSE "local"

VARIABLES
  start,      \* how far the sender's start() has come
  server,     \* the local relay: "off", "up", "closing" or "down"
  session,    \* the share's session at each relay: "none", "open" or "closed"
  channel,    \* the sender's relay_channel: "none", "connecting", "on", "ended"
  shut,       \* local_relay_shutdown and public_relay_shutdown
  broadcast,  \* the broadcast of the address: "off", "on", "done"
  ready,      \* receivers whose Ready is on its way to the sender
  handled,    \* history: receivers whose Ready the sender has taken
  quit,       \* the sender was shut down
  failed,     \* history: channels that could not be established
  pc,         \* each receiver's control state
  route,      \* the relay it goes to
  found,      \* it has heard the broadcast
  deaf        \* its socket takes no more packets in

senderVars == <<start, server, channel, shut, broadcast, handled, quit, failed>>
receiverVars == <<pc, route, found, deaf>>
vars == <<senderVars, session, ready, receiverVars>>

Init ==
  /\ start = "server" /\ server = "off"
  /\ session = [x \in Relays |-> "none"] /\ channel = [x \in Relays |-> "none"]
  /\ shut = [x \in Relays |-> FALSE] /\ broadcast = "off"
  /\ ready = [x \in Relays |-> {}] /\ handled = [x \in Relays |-> {}]
  /\ quit = FALSE /\ failed = {}
  /\ pc = [r \in Receivers |-> "idle"]
  /\ route = [r \in Receivers |-> "public"]
  /\ found = [r \in Receivers |-> FALSE]
  /\ deaf = [r \in Receivers |-> FALSE]

-----------------------------------------------------------------------------
(* The sender's start.                                                     *)

\* FlashCatSender::shutdown: every signal is given.
ShutDown == /\ quit' = TRUE
            /\ shut' = [x \in Relays |-> TRUE]

\* Mutant of StartServer: the address is broadcast before the share is there.
StartServerAnnounced ==
  /\ start = "server"
  /\ server' = "up"
  /\ start' = "local"
  /\ broadcast' = IF LanBroadcast THEN "on" ELSE "off"
  /\ UNCHANGED <<session, channel, shut, ready, handled, quit, failed, receiverVars>>

StartServer ==
  /\ start = "server"
  /\ server' = "up"
  /\ start' = "local"
  /\ UNCHANGED <<session, channel, shut, broadcast, ready, handled, quit, failed,
                 receiverVars>>

\* connect_relay: the share joins the relay, then its relay_channel is spawned.
Joins(x) == /\ session' = [session EXCEPT ![x] = "open"]
            /\ channel' = [channel EXCEPT ![x] = "connecting"]

ConnectLocal ==
  /\ start = "local"
  /\ Joins("local")
  /\ start' = "public"
  /\ UNCHANGED <<server, shut, broadcast, ready, handled, quit, failed, receiverVars>>

\* A refused join is reported (RelayFailed), and start goes on without.
ConnectPublic ==
  /\ start = "public"
  /\ Joins("public") \/ UNCHANGED <<session, channel>>
  /\ start' = "lan"
  /\ UNCHANGED <<server, shut, broadcast, ready, handled, quit, failed, receiverVars>>

\* A relay that cannot be reached makes start fail, and the client shuts down.
StartFails ==
  /\ start \in {"local", "public"}
  /\ start' = "failed"
  /\ ShutDown
  /\ UNCHANGED <<server, session, channel, broadcast, ready, handled, failed,
                 receiverVars>>

BroadcastRelayAddr ==
  /\ start = "lan"
  /\ broadcast' = IF LanBroadcast THEN "on" ELSE "off"
  /\ start' = "on"
  /\ UNCHANGED <<server, session, channel, shut, ready, handled, quit, failed,
                 receiverVars>>

BroadcastTimeout ==
  /\ broadcast = "on"
  /\ broadcast' = "done"
  /\ UNCHANGED <<start, server, session, channel, shut, ready, handled, quit, failed,
                 receiverVars>>

-----------------------------------------------------------------------------
(* The sender's relay_channel at each relay.                               *)

Serving == {"up", "closing"}
Reachable(x) == x = "local" => server \in Serving

\* channel() finds a session only while it is open.
Available(x) == Reachable(x) /\ session[x] = "open"

Establish(x) ==
  /\ channel[x] = "connecting" /\ Available(x)
  /\ channel' = [channel EXCEPT ![x] = "on"]
  /\ UNCHANGED <<start, server, session, shut, broadcast, ready, handled, quit, failed,
                 receiverVars>>

\* RelayFailed is sent to the client, whose loop begins when start has ended.
EstablishFails(x) ==
  /\ channel[x] = "connecting"
  /\ channel' = [channel EXCEPT ![x] = "ended"]
  /\ failed' = failed \cup {x}
  /\ UNCHANGED <<start, server, session, shut, broadcast, ready, handled, quit,
                 receiverVars>>

\* The client exits when the local relay failed, and leaves the share behind at the
\* public one; a failure of that is only shown.
Exit ==
  /\ start = "on" /\ "local" \in failed /\ ~quit
  /\ start' = "exited" /\ quit' = TRUE
  /\ server' = "down" /\ broadcast' = "off"
  /\ channel' = [x \in Relays |-> IF channel[x] = "none" THEN "none" ELSE "ended"]
  /\ session' = [session EXCEPT !["local"] = "closed"]
  /\ failed' = failed \cup {x \in Relays : channel[x] \in {"connecting", "on"}}
  /\ UNCHANGED <<shut, ready, handled, receiverVars>>

\* Mutant of Ready: the relay that reported Ready is shut.
ReadySwapped(x, r) ==
  /\ channel[x] = "on" /\ r \in ready[x]
  /\ ready' = [ready EXCEPT ![x] = @ \ {r}]
  /\ handled' = [handled EXCEPT ![x] = @ \cup {r}]
  /\ shut' = [shut EXCEPT ![x] = TRUE]
  /\ pc' = [pc EXCEPT ![r] = IF @ = "joined" THEN "asked" ELSE @]
  /\ UNCHANGED <<start, server, session, channel, broadcast, quit, failed, route, found,
                 deaf>>

\* Mutant of Ready: the signal reaches only a loop that is waiting for it.
ReadyForgets(x, r) ==
  /\ channel[x] = "on" /\ r \in ready[x]
  /\ ready' = [ready EXCEPT ![x] = @ \ {r}]
  /\ handled' = [handled EXCEPT ![x] = @ \cup {r}]
  /\ shut' = [shut EXCEPT ![Other(x)] = @ \/ channel[Other(x)] = "on"]
  /\ pc' = [pc EXCEPT ![r] = IF @ = "joined" THEN "asked" ELSE @]
  /\ UNCHANGED <<start, server, session, channel, broadcast, quit, failed, route, found,
                 deaf>>

\* Ready shuts the other relay's connection, and SendRequest asks the receiver.
Ready(x, r) ==
  /\ channel[x] = "on" /\ r \in ready[x]
  /\ ready' = [ready EXCEPT ![x] = @ \ {r}]
  /\ handled' = [handled EXCEPT ![x] = @ \cup {r}]
  /\ shut' = [shut EXCEPT ![Other(x)] = TRUE]
  /\ pc' = [pc EXCEPT ![r] = IF @ = "joined" THEN "asked" ELSE @]
  /\ UNCHANGED <<start, server, session, channel, broadcast, quit, failed, route, found,
                 deaf>>

\* The signal ends the loop, which closes the session at its relay.
Stop(x) ==
  /\ channel[x] = "on" /\ shut[x]
  /\ channel' = [channel EXCEPT ![x] = "ended"]
  /\ session' = [session EXCEPT ![x] = "closed"]
  /\ UNCHANGED <<start, server, shut, broadcast, ready, handled, quit, failed,
                 receiverVars>>

\* Terminated, from a receiver that left: OtherClose, on which the client shuts down.
OtherClose(x) ==
  /\ channel[x] = "on" /\ \E r \in Receivers : pc[r] = "left" /\ route[r] = x
  /\ start = "on" /\ ~quit
  /\ ShutDown
  /\ UNCHANGED <<start, server, session, channel, broadcast, ready, handled, failed,
                 receiverVars>>

\* The local relay is shut down three seconds after its signal.
ServerCloses ==
  /\ server = "up" /\ shut["local"]
  /\ server' = "closing"
  /\ UNCHANGED <<start, session, channel, shut, broadcast, ready, handled, quit, failed,
                 receiverVars>>

ServerStops ==
  /\ server = "closing"
  /\ server' = "down"
  /\ session' = [session EXCEPT !["local"] = IF @ = "open" THEN "closed" ELSE @]
  /\ UNCHANGED <<start, channel, shut, broadcast, ready, handled, quit, failed,
                 receiverVars>>

Quit ==
  /\ ~quit
  /\ ShutDown
  /\ UNCHANGED <<start, server, session, channel, broadcast, ready, handled, failed,
                 receiverVars>>

-----------------------------------------------------------------------------
(* A receiver.                                                             *)

Goes(r, next) == pc' = [pc EXCEPT ![r] = next]

Begin(r) ==
  /\ pc[r] = "idle"
  /\ Goes(r, "discover")
  /\ UNCHANGED <<senderVars, session, ready, route, found, deaf>>

\* Another share's packet: its buffer is cleared, and every later packet is
\* received into a buffer without room.
HearForeign(r) ==
  /\ pc[r] = "discover"
  /\ deaf' = [deaf EXCEPT ![r] = TRUE]
  /\ UNCHANGED <<senderVars, session, ready, pc, route, found>>

\* The sender's packet.  Its "ok" ends the broadcast, if it arrives.
Discovered(r) ==
  /\ pc[r] = "discover" /\ broadcast = "on" /\ ~deaf[r]
  /\ Goes(r, "join")
  /\ route' = [route EXCEPT ![r] = "local"]
  /\ found' = [found EXCEPT ![r] = TRUE]
  /\ broadcast' \in {"on", "done"}
  /\ UNCHANGED <<start, server, session, channel, shut, ready, handled, quit, failed,
                 deaf>>

NotDiscovered(r) ==
  /\ pc[r] = "discover"
  /\ Goes(r, "join")
  /\ UNCHANGED <<senderVars, session, ready, route, found, deaf>>

\* join: the relay looks the share code up.
Join(r) ==
  /\ pc[r] = "join"
  /\ Available(route[r])
  /\ Goes(r, IF route[r] = "public" /\ r \in Lan THEN "probe" ELSE "channel")
  /\ UNCHANGED <<senderVars, session, ready, route, found, deaf>>

\* --lan: the sender's relay, when it answers within a second.
Probe(r) ==
  /\ pc[r] = "probe"
  /\ \/ server \in Serving /\ route' = [route EXCEPT ![r] = "local"]
     \/ UNCHANGED route
  /\ Goes(r, "channel")
  /\ UNCHANGED <<senderVars, session, ready, found, deaf>>

\* Mutant of Channel: the relay does not report Ready.
ChannelUnannounced(r) ==
  /\ pc[r] = "channel"
  /\ Available(route[r])
  /\ Goes(r, "joined")
  /\ UNCHANGED <<senderVars, session, ready, route, found, deaf>>

Channel(r) ==
  /\ pc[r] = "channel"
  /\ Available(route[r])
  /\ Goes(r, "joined")
  /\ ready' = [ready EXCEPT ![route[r]] = @ \cup {r}]
  /\ UNCHANGED <<senderVars, session, route, found, deaf>>

\* Not found, or not to be reached.
ReceiveFails(r) ==
  /\ pc[r] \in {"join", "channel"}
  /\ ~Available(route[r]) \/ route[r] = "public"
  /\ Goes(r, "error")
  /\ UNCHANGED <<senderVars, session, ready, route, found, deaf>>

\* Terminated, or an error that says the session is terminated.
ReceiverTold(r) ==
  /\ pc[r] \in {"joined", "asked"} /\ session[route[r]] = "closed"
  /\ Goes(r, "over")
  /\ UNCHANGED <<senderVars, session, ready, route, found, deaf>>

\* The user of a receiver gives up: it closes the session.
Leave(r) ==
  /\ pc[r] \in {"joined", "asked"}
  /\ Goes(r, "left")
  /\ session' = [session EXCEPT ![route[r]] = "closed"]
  /\ UNCHANGED <<senderVars, ready, route, found, deaf>>

-----------------------------------------------------------------------------
Start == StartServer \/ ConnectLocal \/ ConnectPublic \/ BroadcastRelayAddr \/ Exit

RelayChannel(x) ==
  \/ Establish(x) \/ Stop(x) \/ OtherClose(x) \/ \E r \in Receivers : Ready(x, r)

LocalRelay == ServerCloses \/ ServerStops

Receive(r) ==
  \/ Discovered(r) \/ NotDiscovered(r) \/ Join(r) \/ Probe(r) \/ Channel(r)
  \/ ReceiveFails(r) \/ ReceiverTold(r)

Failure ==
  \/ StartFails \/ \E x \in Relays : EstablishFails(x)
  \/ \E r \in Receivers : HearForeign(r)

Users == Quit \/ \E r \in Receivers : Begin(r) \/ Leave(r)

Next ==
  \/ Start \/ LocalRelay \/ BroadcastTimeout \/ Failure \/ Users
  \/ \E x \in Relays : RelayChannel(x)
  \/ \E r \in Receivers : Receive(r)

\* The runtimes of all sides poll what can go on; users and failures are free.
Fairness ==
  /\ WF_vars(Start) /\ WF_vars(LocalRelay)
  /\ \A x \in Relays : /\ WF_vars(RelayChannel(x))
                       /\ WF_vars(~Available(x) /\ EstablishFails(x))
  /\ \A r \in Receivers : WF_vars(Receive(r))

Spec == Init /\ [][Next]_vars
FairSpec == Spec /\ Fairness

-----------------------------------------------------------------------------
(* Properties.                                                             *)

\* The share was ended by one of its two sides.
Ended == quit \/ \E r \in Receivers : pc[r] = "left"

\* A receiver that was asked keeps its relay, unless one of the sides ends the
\* share or another receiver came in over the other relay.
AskedIsKept ==
  \A r \in Receivers :
    pc[r] = "asked" /\ session[route[r]] = "closed"
      => Ended \/ handled[Other(route[r])] \ {r} # {}

\* The address is made known only when the share can be found there: a receiver
\* that has heard it, and comes in vain, was preceded by one over the public relay,
\* or the share has ended.
HeardIsFound ==
  \A r \in Receivers :
    found[r] /\ pc[r] = "error" => Ended \/ handled["public"] # {}

\* Once a receiver is there the connection to the other relay ends, however far the
\* sender's start has come.
OtherIsShut ==
  \A x \in Relays :
    handled[x] # {} ~> channel[Other(x)] \in {"none", "ended"} \/ Ended

\* A receiver that has joined is asked, or told that the share is over; nobody waits
\* for ever, unless the sender lost its own channel at that relay without a close.
JoinedIsAnswered ==
  \A r \in Receivers : pc[r] = "joined" ~> pc[r] # "joined" \/ route[r] \in failed
=============================================================================
