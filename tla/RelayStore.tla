----------------------------- MODULE RelayStore -----------------------------
(***************************************************************************)
(* The relay's store of sessions: senders that join under a share code,    *)
(* clients that attach to the session of a code, `close` calls, the task   *)
(* that closes old sessions, and the shutdown of the relay.  close and the *)
(* task look a session up by its code and come back to the code later.     *)
(*                                                                         *)
(* What an attached connection does is RelayChannel.                       *)
(***************************************************************************)
EXTENDS Naturals, FiniteSets

CONSTANTS
  Codes,       \* share codes
  Closers,     \* calls of close
  MaxSessions  \* bound: sessions created

ASSUME MaxSessionsAssumption == MaxSessions \in Nat

Sessions == 1..MaxSessions

\* The sessions are numbered as they are created.
NoSession == 0

VARIABLES
  store,    \* the session of each code, or NoSession
  created,  \* the number of sessions created
  codeOf,   \* history: the code a session was created for
  served,   \* sessions with a handler that sees the pings of a client
  stale,    \* sessions not accessed for DISCONNECTED_SESSION_EXPIRY
  wasStale, \* history: sessions that ever were stale
  shut,     \* sessions whose shutdown was signalled
  closer,   \* each close: its control state, its code (as a set) and the
            \* session it removed
  sweeper,  \* control state of close_old_sessions
  stopping  \* the relay was told to shut down

clientVars == <<codeOf, served, stale, wasStale>>
vars == <<store, created, clientVars, shut, closer, sweeper, stopping>>

Idle == [pc |-> "wait", look |-> {}, toClose |-> {}, removed |-> NoSession]

Init ==
  /\ store = [c \in Codes |-> NoSession]
  /\ created = 0 /\ codeOf \in [Sessions -> Codes]
  /\ served = {} /\ stale = {} /\ wasStale = {} /\ shut = {}
  /\ closer = [k \in Closers |-> [pc |-> "new", codes |-> {}, removed |-> NoSession]]
  /\ sweeper = Idle
  /\ stopping = FALSE

-----------------------------------------------------------------------------
(* join and channel.                                                       *)

\* Mutant of Join: the session of a code is replaced.
JoinReplaces ==
  /\ created < MaxSessions
  /\ LET c == codeOf[created + 1] IN
     /\ store' = [store EXCEPT ![c] = created + 1]
     /\ shut' = shut \cup ({store[c]} \ {NoSession})
  /\ created' = created + 1
  /\ UNCHANGED <<clientVars, closer, sweeper, stopping>>

\* A sender joins: insert_if_absent.  (Under a code in use it is refused.)
Join ==
  /\ created < MaxSessions
  /\ store[codeOf[created + 1]] = NoSession
  /\ store' = [store EXCEPT ![codeOf[created + 1]] = created + 1]
  /\ created' = created + 1
  /\ UNCHANGED <<clientVars, shut, closer, sweeper, stopping>>

\* A client attaches to the session of its code, and its messages access it.
Attach(c) ==
  /\ store[c] # NoSession /\ store[c] \notin served
  /\ served' = served \cup {store[c]}
  /\ UNCHANGED <<store, created, codeOf, stale, wasStale, shut, closer, sweeper, stopping>>

Access(s) ==
  /\ s \in served
  /\ stale' = stale \ {s}
  /\ UNCHANGED <<store, created, codeOf, served, wasStale, shut, closer, sweeper, stopping>>

\* No handler of the session sees a client any more: they left or are blocked.
Desert(s) ==
  /\ s \in served
  /\ served' = served \ {s}
  /\ UNCHANGED <<store, created, codeOf, stale, wasStale, shut, closer, sweeper, stopping>>

Age(s) ==
  /\ s \in 1..created \ served /\ s \notin stale
  /\ stale' = stale \cup {s}
  /\ wasStale' = wasStale \cup {s}
  /\ UNCHANGED <<store, created, codeOf, served, shut, closer, sweeper, stopping>>

-----------------------------------------------------------------------------
(* close_session, in its two callers: remove the code's session, whichever *)
(* it is by now, and then signal its shutdown.                             *)

\* close looks the code up, broadcasts and waits 100 ms before that.
CloseBegin(k, c) ==
  /\ closer[k].pc = "new"
  /\ closer' = [closer EXCEPT ![k] = [pc |-> "waiting", codes |-> {c}, removed |-> NoSession]]
  /\ UNCHANGED <<store, created, clientVars, shut, sweeper, stopping>>

\* Mutant of CloseRemove: the session is shut down before it is removed.
CloseShutsFirst(k) ==
  /\ closer[k].pc = "waiting"
  /\ \E c \in closer[k].codes :
       IF store[c] \in shut \cup {NoSession}
         THEN /\ closer' = [closer EXCEPT ![k].pc = "removed"]
              /\ store' = [store EXCEPT ![c] = NoSession]
              /\ UNCHANGED shut
         ELSE shut' = shut \cup {store[c]} /\ UNCHANGED <<closer, store>>
  /\ UNCHANGED <<created, clientVars, sweeper, stopping>>

CloseRemove(k) ==
  /\ closer[k].pc = "waiting"
  /\ \E c \in closer[k].codes :
       /\ closer' = [closer EXCEPT ![k] = [pc |-> "removed", codes |-> {c}, removed |-> store[c]]]
       /\ store' = [store EXCEPT ![c] = NoSession]
  /\ UNCHANGED <<created, clientVars, shut, sweeper, stopping>>

CloseShut(k) ==
  /\ closer[k].pc = "removed"
  /\ shut' = shut \cup ({closer[k].removed} \ {NoSession})
  /\ closer' = [closer EXCEPT ![k].pc = "done"]
  /\ UNCHANGED <<store, created, clientVars, sweeper, stopping>>

\* close_old_sessions: collect the codes of the stale sessions, one entry at a
\* time, then close each code.  It ends with the relay.
SweepWake ==
  /\ sweeper.pc = "wait" /\ ~stopping
  /\ sweeper' = [pc |-> "look", look |-> Codes, toClose |-> {}, removed |-> NoSession]
  /\ UNCHANGED <<store, created, clientVars, shut, closer, stopping>>

SweepLook(c) ==
  /\ sweeper.pc = "look" /\ c \in sweeper.look
  /\ sweeper' = [sweeper EXCEPT
       !.pc = IF sweeper.look = {c} THEN "close" ELSE @,
       !.look = @ \ {c},
       !.toClose = IF store[c] \in stale THEN @ \cup {c} ELSE @]
  /\ UNCHANGED <<store, created, clientVars, shut, closer, stopping>>

\* Mutant of SweepRemove: the removed session is dropped without its signal.
SweepForgets(c) ==
  /\ sweeper.pc = "close" /\ c \in sweeper.toClose
  /\ sweeper' = [sweeper EXCEPT !.toClose = @ \ {c}]
  /\ store' = [store EXCEPT ![c] = NoSession]
  /\ UNCHANGED <<created, clientVars, shut, closer, stopping>>

SweepRemove(c) ==
  /\ sweeper.pc = "close" /\ c \in sweeper.toClose
  /\ sweeper' = [sweeper EXCEPT !.pc = "shut", !.toClose = @ \ {c}, !.removed = store[c]]
  /\ store' = [store EXCEPT ![c] = NoSession]
  /\ UNCHANGED <<created, clientVars, shut, closer, stopping>>

SweepShut ==
  /\ sweeper.pc = "shut"
  /\ shut' = shut \cup ({sweeper.removed} \ {NoSession})
  /\ sweeper' = [pc |-> "close", look |-> {}, toClose |-> sweeper.toClose, removed |-> NoSession]
  /\ UNCHANGED <<store, created, clientVars, closer, stopping>>

\* Mutant of SweepDone: the task ends after its first round.
SweepEnds ==
  /\ sweeper.pc = "close" /\ sweeper.toClose = {}
  /\ sweeper' = [Idle EXCEPT !.pc = "ended"]
  /\ UNCHANGED <<store, created, clientVars, shut, closer, stopping>>

SweepDone ==
  /\ sweeper.pc = "close" /\ sweeper.toClose = {}
  /\ sweeper' = Idle
  /\ UNCHANGED <<store, created, clientVars, shut, closer, stopping>>

\* Relay::shutdown signals every session and leaves it in the store.
Stop ==
  /\ ~stopping
  /\ stopping' = TRUE
  /\ UNCHANGED <<store, created, clientVars, shut, closer, sweeper>>

StopShut(c) ==
  /\ stopping /\ store[c] \notin shut \cup {NoSession}
  /\ shut' = shut \cup {store[c]}
  /\ UNCHANGED <<store, created, clientVars, closer, sweeper, stopping>>

-----------------------------------------------------------------------------
Close(k) == CloseRemove(k) \/ CloseShut(k)

Sweep == \/ SweepWake \/ SweepShut \/ SweepDone
         \/ \E c \in Codes : SweepLook(c) \/ SweepRemove(c)

Next == \/ Join \/ Sweep \/ Stop
        \/ \E c \in Codes : Attach(c) \/ StopShut(c) \/ \E k \in Closers : CloseBegin(k, c)
        \/ \E s \in Sessions : Access(s) \/ Desert(s) \/ Age(s)
        \/ \E k \in Closers : Close(k)

\* A running close goes on, the sweeper's timer fires while the relay runs, and
\* time passes for a session nobody accesses.
Fairness == /\ \A k \in Closers : WF_vars(Close(k))
            /\ WF_vars(Sweep)
            /\ \A s \in Sessions : WF_vars(Age(s))

Spec == Init /\ [][Next]_vars
FairSpec == Spec /\ Fairness

CloserState == [pc : {"new", "waiting", "removed", "done"}, codes : SUBSET Codes,
                removed : 0..MaxSessions]
SweeperState == [pc : {"wait", "look", "close", "shut"}, look : SUBSET Codes,
                 toClose : SUBSET Codes, removed : 0..MaxSessions]

TypeOK ==
  /\ store \in [Codes -> 0..MaxSessions]
  /\ created \in 0..MaxSessions
  /\ codeOf \in [Sessions -> Codes]
  /\ served \subseteq Sessions /\ stale \subseteq Sessions
  /\ wasStale \subseteq Sessions /\ shut \subseteq Sessions
  /\ closer \in [Closers -> CloserState]
  /\ sweeper \in SweeperState
  /\ stopping \in BOOLEAN

-----------------------------------------------------------------------------
(* Properties.                                                             *)

\* Nobody is led to a dead session: while the relay runs, a session that can be
\* found under a code has not been shut down, whatever close and the sweeper of
\* old sessions are in the middle of.
FoundIsOpen ==
  ~stopping => \A c \in Codes : store[c] \notin shut

\* No session is lost: one that cannot be found any more is shut down, so that
\* its handlers end.
Lost(s) == s <= created /\ store[codeOf[s]] # s

LostIsShut == \A s \in Sessions : Lost(s) ~> s \in shut

\* Shares do not end each other: a session that was shut down had been stale, or
\* close was called for its code, or the relay stops.
ShutForAReason ==
  \A s \in shut : \/ stopping \/ s \in wasStale
                  \/ \E k \in Closers : codeOf[s] \in closer[k].codes

\* A session that its clients have left for good does not stay.
DesertedIsShut ==
  \A s \in Sessions :
    <>[](s <= created /\ s \notin served /\ ~stopping) => <>(s \in shut)
=============================================================================
