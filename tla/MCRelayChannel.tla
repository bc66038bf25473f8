--------------------------- MODULE MCRelayChannel ---------------------------
(* A small instance of RelayChannel for TLC. *)
EXTENDS RelayChannel

\* Bounds: three updates, the ask and two that follow an answer, overfill with Ready
\* a queue of two; the one update back is the answer.
MCThreeOne == [c \in Conns |-> IF c \in SenderConns THEN 3 ELSE 1]

MCSecond == \E c, d \in ReceiverConns : c # d /\ pc[c] # "new" /\ pc[d] # "new"
MCClosing == \E k \in Closers : closer[k] # "new"
MCPinged == \E c \in Conns : \/ held[c].kind = "pong"
                             \/ \E i \in DOMAIN stream[c] : stream[c][i].kind = "ping"
                             \/ \E i \in DOMAIN tx[c] : tx[c][i].kind = "pong"
MCExpired == terminated /\ ~MCClosing

\* Bound: beside a second connection of the receiver's side no close, ping or expiry,
\* and beside an expiry no ping; only a client with a connection leaves.
MCOneAtATime ==
  /\ MCSecond => ~MCClosing /\ ~MCPinged /\ ~MCExpired
  /\ MCExpired => ~MCPinged
  /\ \A c \in Conns : pc[c] = "new" => Alive(c)
=============================================================================
