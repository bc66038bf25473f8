-------------------------- MODULE RelayStoreProofs --------------------------
(***************************************************************************)
(* Proofs about the session store, for any codes, any number of sessions   *)
(* and any number of concurrent calls of close.                            *)
(***************************************************************************)
EXTENDS RelayStore, TLAPS

\* A session is stored under its own code only, once it was created.
Stored ==
  /\ created \in Nat
  /\ \A c \in Codes : store[c] # NoSession =>
        /\ store[c] \in 1..created
        /\ codeOf[store[c]] = c

\* What was taken out of the store, or shut down by a relay that goes on, is
\* not in it and never comes back: new sessions have new numbers.
Out(s) == s \in 1..created /\ store[codeOf[s]] # s

Removed ==
  /\ \A k \in Closers : closer[k].removed # NoSession => Out(closer[k].removed)
  /\ sweeper.removed # NoSession => Out(sweeper.removed)
  /\ \A s \in shut : s \in 1..created /\ (stopping \/ Out(s))

StoreInv == TypeOK /\ Stored /\ Removed

USE MaxSessionsAssumption
USE DEF vars, clientVars, NoSession, Sessions, Idle, CloserState

\* An empty store satisfies the invariant.
LEMMA InitStore == Init => StoreInv
<1> SUFFICES ASSUME Init PROVE StoreInv
  OBVIOUS
<1> USE DEF Init
<1>1. store \in [Codes -> 0..MaxSessions] /\ created \in 0..MaxSessions
  OBVIOUS
<1>2. closer \in [Closers -> CloserState]
  OBVIOUS
<1>3. sweeper \in SweeperState /\ sweeper.removed = NoSession
  BY DEF SweeperState
<1>4. TypeOK BY <1>1, <1>2, <1>3 DEF TypeOK
<1>5. Stored BY DEF Stored
<1>6. Removed BY <1>3 DEF Removed
<1>7. QED BY <1>4, <1>5, <1>6 DEF StoreInv

\* A step that takes sessions out of the store, and creates none, keeps
\* everything that is out of it out.
LEMMA OutStays ==
  ASSUME StoreInv, created' = created, codeOf' = codeOf,
         \A c \in Codes : store'[c] \in {store[c], NoSession}
  PROVE  Stored' /\ \A s : Out(s) => Out(s)'
<1>1. Stored'
  BY DEF StoreInv, Stored
<1>2. ASSUME NEW s, Out(s) PROVE Out(s)'
  <2>1. s \in Sessions /\ s # NoSession /\ codeOf[s] \in Codes
    BY <1>2 DEF StoreInv, TypeOK, Out
  <2>2. QED BY <1>2, <2>1 DEF Out
<1>3. QED BY <1>1, <1>2

\* What close_session removes is out: a session has one code.
LEMMA TakenIsOut ==
  ASSUME StoreInv, NEW c \in Codes, NEW s, s = store[c], s # NoSession,
         created' = created, codeOf' = codeOf,
         store' = [store EXCEPT ![c] = NoSession]
  PROVE  Out(s)'
<1>1. s \in 1..created /\ codeOf[s] = c
  BY DEF StoreInv, Stored
<1>2. store'[c] # s
  BY DEF StoreInv, TypeOK
<1>3. QED BY <1>1, <1>2 DEF Out

\* The parts of the state that the steps of close and of the sweeper leave alone.
LEMMA TypeStays ==
  ASSUME StoreInv, created' = created, UNCHANGED <<clientVars, stopping>>,
         store' = store \/ \E c \in Codes : store' = [store EXCEPT ![c] = NoSession],
         shut' \subseteq Sessions, closer' \in [Closers -> CloserState],
         sweeper' \in SweeperState
  PROVE  TypeOK' /\ Stored' /\ \A s : Out(s) => Out(s)'
<1>0. store \in [Codes -> 0..MaxSessions] BY DEF StoreInv, TypeOK
<1>1. store' \in [Codes -> 0..MaxSessions]
  <2>1. ASSUME NEW c \in Codes PROVE [store EXCEPT ![c] = NoSession] \in [Codes -> 0..MaxSessions]
    BY <1>0
  <2>2. QED BY <1>0, <2>1
<1>2. TypeOK' BY <1>1 DEF StoreInv, TypeOK
<1>3. \A c \in Codes : store'[c] \in {store[c], NoSession}
  BY DEF StoreInv, TypeOK
<1>4. QED BY <1>2, <1>3, OutStays

\* join stores a session that is fresh, for its own code.
LEMMA JoinStore == StoreInv /\ Join => StoreInv'
<1> SUFFICES ASSUME StoreInv, Join PROVE StoreInv'
  OBVIOUS
<1> USE DEF Join
<1> DEFINE n == created + 1
<1>1. n \in Sessions /\ codeOf[n] \in Codes /\ store[codeOf[n]] = NoSession
  BY DEF StoreInv, TypeOK
<1>2. TypeOK'
  BY <1>1 DEF StoreInv, TypeOK
<1>3. Stored'
  BY <1>1 DEF StoreInv, TypeOK, Stored
<1>4. ASSUME NEW s, Out(s) PROVE Out(s)'
  <2>1. s \in Sessions /\ s # n /\ codeOf[s] \in Codes
    BY <1>4 DEF StoreInv, TypeOK, Out
  <2>2. QED BY <1>1, <1>4, <2>1 DEF Out, StoreInv, TypeOK
<1>5. Removed'
  BY <1>4 DEF StoreInv, TypeOK, Removed
<1>6. QED BY <1>2, <1>3, <1>5 DEF StoreInv

\* A step of one close.
LEMMA CloserStep ==
  ASSUME StoreInv, NEW k \in Closers, NEW new \in CloserState,
         closer' = [closer EXCEPT ![k] = new]
  PROVE  /\ closer' \in [Closers -> CloserState]
         /\ \A j \in Closers :
              closer'[j].removed = IF j = k THEN new.removed ELSE closer[j].removed
  BY DEF StoreInv, TypeOK

\* Each step of a close keeps stored sessions open and removed ones out of reach.
LEMMA CloseStore ==
  ASSUME StoreInv, NEW k \in Closers, Close(k) \/ \E c \in Codes : CloseBegin(k, c)
  PROVE  StoreInv'
<1>0. closer \in [Closers -> CloserState] /\ closer[k] \in CloserState
  BY DEF StoreInv, TypeOK
<1>1. CASE \E c \in Codes : CloseBegin(k, c)
  <2>1. PICK c \in Codes : CloseBegin(k, c) BY <1>1
  <2> DEFINE new == [pc |-> "waiting", codes |-> {c}, removed |-> NoSession]
  <2>2. new \in CloserState /\ new.removed = NoSession
    OBVIOUS
  <2>3. closer' = [closer EXCEPT ![k] = new]
    BY <2>1 DEF CloseBegin
  <2>4. /\ closer' \in [Closers -> CloserState]
        /\ \A j \in Closers :
             closer'[j].removed = IF j = k THEN NoSession ELSE closer[j].removed
    <3> HIDE DEF new
    <3>1. QED BY <2>2, <2>3, CloserStep
  <2>5. TypeOK' /\ Stored' /\ \A s : Out(s) => Out(s)'
    BY <2>1, <2>4, TypeStays DEF CloseBegin, StoreInv, TypeOK
  <2>6. Removed' BY <2>1, <2>4, <2>5 DEF CloseBegin, StoreInv, Removed
  <2>7. QED BY <2>5, <2>6 DEF StoreInv
<1>2. CASE CloseRemove(k)
  <2>1. PICK c \in closer[k].codes :
          /\ closer' = [closer EXCEPT ![k] = [pc |-> "removed", codes |-> {c},
                                               removed |-> store[c]]]
          /\ store' = [store EXCEPT ![c] = NoSession]
    BY <1>2 DEF CloseRemove
  <2>2. c \in Codes /\ store[c] \in 0..MaxSessions
    BY <1>0 DEF StoreInv, TypeOK
  <2>4. /\ closer' \in [Closers -> CloserState]
        /\ \A j \in Closers :
             closer'[j].removed = IF j = k THEN store[c] ELSE closer[j].removed
    <3> DEFINE new == [pc |-> "removed", codes |-> {c}, removed |-> store[c]]
    <3>1. new \in CloserState /\ new.removed = store[c] BY <2>2
    <3>2. closer' = [closer EXCEPT ![k] = new] BY <2>1
    <3> HIDE DEF new
    <3>3. QED BY <3>1, <3>2, CloserStep
  <2>5. TypeOK' /\ Stored' /\ \A s : Out(s) => Out(s)'
    BY <1>2, <2>1, <2>2, <2>4, TypeStays DEF CloseRemove, StoreInv, TypeOK
  <2>6. \A s : s = store[c] /\ s # NoSession => Out(s)'
    BY <1>2, <2>1, <2>2, TakenIsOut DEF CloseRemove
  <2>7. Removed' BY <1>2, <2>4, <2>5, <2>6 DEF CloseRemove, StoreInv, Removed
  <2>8. QED BY <2>5, <2>7 DEF StoreInv
<1>3. CASE CloseShut(k)
  <2> DEFINE r == closer[k].removed
  <2> DEFINE new == [closer[k] EXCEPT !.pc = "done"]
  <2>1. new \in CloserState /\ new.removed = r
    BY <1>0
  <2>2. r \in 0..MaxSessions BY <1>0
  <2>3. /\ closer' \in [Closers -> CloserState]
        /\ \A j \in Closers : closer'[j].removed = closer[j].removed
    <3>1. closer' = [closer EXCEPT ![k] = new] BY <1>3 DEF CloseShut
    <3> HIDE DEF new
    <3>2. QED BY <2>1, <3>1, CloserStep
  <2>4. shut' \subseteq Sessions
    BY <1>3, <2>2 DEF CloseShut, StoreInv, TypeOK
  <2>5. TypeOK' /\ Stored' /\ \A s : Out(s) => Out(s)'
    BY <1>3, <2>3, <2>4, TypeStays DEF CloseShut, StoreInv, TypeOK
  <2>6. r # NoSession => Out(r) BY DEF StoreInv, Removed
  <2>7. \A s \in shut' : s \in shut \/ (s = r /\ r # NoSession)
    BY <1>3 DEF CloseShut
  <2>8. \A s : Out(s)' => s \in 1..created' BY DEF Out
  <2>9. Removed'
    BY <1>3, <2>3, <2>5, <2>6, <2>7, <2>8 DEF CloseShut, StoreInv, Removed
  <2>10. QED BY <2>5, <2>9 DEF StoreInv
<1>4. QED BY <1>1, <1>2, <1>3 DEF Close

\* The same of the sweeper, entry by entry.
LEMMA SweepStore == StoreInv /\ Sweep => StoreInv'
<1> SUFFICES ASSUME StoreInv, Sweep PROVE StoreInv'
  OBVIOUS
<1>0. sweeper \in SweeperState /\ closer \in [Closers -> CloserState]
  BY DEF StoreInv, TypeOK
<1>1. ASSUME NEW c \in Codes, SweepRemove(c) PROVE StoreInv'
  <2>1. sweeper' \in SweeperState /\ sweeper'.removed = store[c]
    BY <1>0, <1>1 DEF SweepRemove, SweeperState, StoreInv, TypeOK
  <2>2. TypeOK' /\ Stored' /\ \A s : Out(s) => Out(s)'
    BY <1>1, <2>1, TypeStays DEF SweepRemove, StoreInv, TypeOK
  <2>3. \A s : s = store[c] /\ s # NoSession => Out(s)'
    BY <1>1, TakenIsOut DEF SweepRemove
  <2>4. Removed' BY <1>1, <2>1, <2>2, <2>3 DEF SweepRemove, StoreInv, Removed
  <2>5. QED BY <2>2, <2>4 DEF StoreInv
<1>2. ASSUME SweepShut PROVE StoreInv'
  <2> DEFINE r == sweeper.removed
  <2>0. r \in 0..MaxSessions
    BY <1>0 DEF SweeperState
  <2>1. sweeper' \in SweeperState /\ sweeper'.removed = NoSession
    BY <1>0, <1>2 DEF SweepShut, SweeperState
  <2>2. shut' \subseteq Sessions
    <3>1. shut \subseteq Sessions BY DEF StoreInv, TypeOK
    <3>2. shut' = shut \cup ({r} \ {NoSession}) BY <1>2 DEF SweepShut
    <3> HIDE DEF r
    <3>3. QED BY <2>0, <3>1, <3>2
  <2>3. TypeOK' /\ Stored' /\ \A s : Out(s) => Out(s)'
    BY <1>0, <1>2, <2>1, <2>2, TypeStays DEF SweepShut
  <2>4. r # NoSession => Out(r) BY DEF StoreInv, Removed
  <2>5. \A s \in shut' : s \in shut \/ (s = r /\ r # NoSession)
    BY <1>2 DEF SweepShut
  <2>6. \A s : Out(s)' => s \in 1..created' BY DEF Out
  <2>7. Removed'
    BY <1>2, <2>1, <2>3, <2>4, <2>5, <2>6 DEF SweepShut, StoreInv, Removed
  <2>8. QED BY <2>3, <2>7 DEF StoreInv
<1>3. ASSUME SweepWake \/ SweepDone \/ \E c \in Codes : SweepLook(c)
      PROVE  StoreInv'
  <2> USE DEF SweepWake, SweepDone, SweepLook
  <2>1. sweeper' \in SweeperState /\ sweeper'.removed \in {NoSession, sweeper.removed}
    <3>1. CASE SweepWake \/ SweepDone BY <3>1 DEF SweeperState
    <3>2. ASSUME NEW c \in Codes, SweepLook(c)
          PROVE  sweeper' \in SweeperState /\ sweeper'.removed = sweeper.removed
      BY <1>0, <3>2 DEF SweeperState
    <3>3. QED BY <1>3, <3>1, <3>2
  <2>2. UNCHANGED <<store, created, clientVars, shut, closer, stopping>>
    BY <1>3
  <2>3. shut \subseteq Sessions BY DEF StoreInv, TypeOK
  <2>4. TypeOK' /\ Stored' /\ \A s : Out(s) => Out(s)'
    BY <1>0, <2>1, <2>2, <2>3, TypeStays
  <2>5. Removed' BY <2>1, <2>2, <2>4 DEF StoreInv, Removed
  <2>6. QED BY <2>4, <2>5 DEF StoreInv
<1>4. QED BY <1>1, <1>2, <1>3 DEF Sweep

\* The relay's own shutdown, which shuts everything at once.
LEMMA StopStore ==
  ASSUME StoreInv, Stop \/ \E c \in Codes : StopShut(c)
  PROVE  StoreInv'
<1> USE DEF Stop, StopShut
<1>1. UNCHANGED <<store, created, codeOf, served, stale, wasStale, closer, sweeper>>
  OBVIOUS
<1>2. stopping' = TRUE /\ \A s \in shut' : s \in shut \/ s \in 1..created
  BY DEF StoreInv, TypeOK, Stored
<1>3. shut' \subseteq Sessions
  <2>1. shut \subseteq Sessions /\ 1..created \subseteq Sessions
    BY DEF StoreInv, TypeOK
  <2>2. QED BY <1>2, <2>1
<1>4. TypeOK' BY <1>1, <1>2, <1>3 DEF StoreInv, TypeOK
<1>5. Stored' BY <1>1 DEF StoreInv, Stored
<1>6. Removed' BY <1>1, <1>2 DEF StoreInv, Removed, Out
<1>7. QED BY <1>4, <1>5, <1>6 DEF StoreInv

\* Clients that attach, leave or are told do not touch the map.
LEMMA ClientStore ==
  ASSUME StoreInv,
         \/ \E c \in Codes : Attach(c)
         \/ \E s \in Sessions : Access(s) \/ Desert(s) \/ Age(s)
         \/ UNCHANGED vars
  PROVE  StoreInv'
<1> USE DEF Attach, Access, Desert, Age
<1>1. UNCHANGED <<store, created, codeOf, shut, closer, sweeper, stopping>>
  OBVIOUS
<1>2. served' \subseteq Sessions
  <2>1. \A c \in Codes : store[c] # NoSession => store[c] \in Sessions
    BY DEF StoreInv, TypeOK
  <2>2. served \subseteq Sessions BY DEF StoreInv, TypeOK
  <2>3. \A x \in served' : x \in served \/ \E c \in Codes : store[c] # NoSession /\ x = store[c]
    OBVIOUS
  <2>4. QED BY <2>1, <2>2, <2>3
<1>3. stale' \subseteq Sessions /\ wasStale' \subseteq Sessions
  BY DEF StoreInv, TypeOK
<1>4. TypeOK' BY <1>1, <1>2, <1>3 DEF StoreInv, TypeOK
<1>5. Stored' BY <1>1 DEF StoreInv, Stored
<1>6. Removed' BY <1>1 DEF StoreInv, Removed, Out
<1>7. QED BY <1>4, <1>5, <1>6 DEF StoreInv

\* The invariant is inductive.
LEMMA NextStore == StoreInv /\ [Next]_vars => StoreInv'
  BY JoinStore, CloseStore, SweepStore, StopStore, ClientStore DEF Next

\* Hence it holds in every reachable state.
LEMMA AlwaysStore == Spec => []StoreInv
  BY InitStore, NextStore, PTL DEF Spec

\* Every variable of the store keeps its type.
THEOREM StoreTyping == Spec => []TypeOK
<1>1. StoreInv => TypeOK BY DEF StoreInv
<1>2. QED BY <1>1, AlwaysStore, PTL

\* While the relay runs, whoever finds a session under a share code finds one
\* that was not shut down, whatever close and the sweeper are in the middle of.
THEOREM FoundStaysOpen == Spec => []FoundIsOpen
<1>1. ASSUME StoreInv PROVE FoundIsOpen
  <2> SUFFICES ASSUME ~stopping, NEW c \in Codes, store[c] \in shut PROVE FALSE
    BY DEF FoundIsOpen
  <2>1. Out(store[c]) BY <1>1 DEF StoreInv, Removed
  <2>2. store[c] # NoSession BY <2>1 DEF Out
  <2>3. codeOf[store[c]] = c BY <1>1, <2>2 DEF StoreInv, Stored
  <2>4. QED BY <2>1, <2>3 DEF Out
<1>2. QED BY <1>1, AlwaysStore, PTL

-----------------------------------------------------------------------------
(* Why a session was shut down.                                            *)

\* The codes close was called for.
Called == UNION {closer[k].codes : k \in Closers}

\* A call of close has one code, for good.
OneCode ==
  \A k \in Closers : IF closer[k].pc = "new" THEN closer[k].codes = {}
                     ELSE \E c \in Codes : closer[k].codes = {c}

\* The reasons are there before the signal: a close removes the session of its
\* own code, and the session that the sweeper finds under a code it collected is
\* the old one, or close has taken the old one and others have come after it.
Reasons ==
  /\ stale \subseteq wasStale
  /\ OneCode
  /\ \A k \in Closers : closer[k].removed # NoSession =>
       codeOf[closer[k].removed] \in closer[k].codes
  /\ \A c \in sweeper.toClose : store[c] \in wasStale \/ c \in Called
  /\ sweeper.removed # NoSession =>
       sweeper.removed \in wasStale \/ codeOf[sweeper.removed] \in Called

ReasonInv == Reasons /\ ShutForAReason

\* A session that was shut down with a reason keeps it.
LEMMA ReasonStays ==
  ASSUME ShutForAReason, codeOf' = codeOf, wasStale \subseteq wasStale',
         stopping => stopping', Called \subseteq Called',
         \A s \in shut' : \/ s \in shut \/ stopping' \/ s \in wasStale'
                          \/ codeOf'[s] \in Called'
  PROVE  ShutForAReason'
<1> SUFFICES ASSUME NEW s \in shut'
             PROVE  stopping' \/ s \in wasStale' \/ codeOf'[s] \in Called'
  BY DEF ShutForAReason, Called
<1>1. CASE s \in shut
  <2>1. stopping \/ s \in wasStale \/ codeOf[s] \in Called
    BY <1>1 DEF ShutForAReason, Called
  <2>2. QED BY <2>1
<1>2. QED BY <1>1

\* Steps that leave close and the sweeper alone, and put no session in the place
\* of another.
LEMMA ReasonsStay ==
  ASSUME StoreInv, Reasons, codeOf' = codeOf, UNCHANGED <<closer, sweeper>>,
         wasStale \subseteq wasStale', stale' \subseteq wasStale',
         \A c \in Codes : store[c] = NoSession \/ store'[c] = store[c]
  PROVE  Reasons' /\ Called \subseteq Called'
<1>1. Called = Called'
  BY DEF Called
<1>2. OneCode'
  BY DEF Reasons, OneCode
<1>3. ASSUME NEW c \in sweeper.toClose PROVE store'[c] \in wasStale' \/ c \in Called'
  <2>1. c \in Codes /\ NoSession \notin wasStale
    BY DEF StoreInv, TypeOK, SweeperState
  <2>2. store[c] \in wasStale \/ c \in Called
    BY DEF Reasons
  <2>3. QED BY <1>1, <2>1, <2>2
<1>4. \A k \in Closers : closer'[k].removed # NoSession =>
        codeOf'[closer'[k].removed] \in closer'[k].codes
  BY DEF Reasons
<1>5. sweeper'.removed # NoSession =>
        sweeper'.removed \in wasStale' \/ codeOf'[sweeper'.removed] \in Called'
  <2>1. sweeper.removed # NoSession =>
          sweeper.removed \in wasStale \/ codeOf[sweeper.removed] \in Called
    BY DEF Reasons
  <2>2. QED BY <1>1, <2>1
<1>6. Reasons'
  <2>1. \A c \in sweeper'.toClose : store'[c] \in wasStale' \/ c \in Called'
    BY <1>3
  <2>2. QED BY <1>2, <1>4, <1>5, <2>1 DEF Reasons, Called
<1>7. QED BY <1>1, <1>6

\* A join, clients, ageing and the relay's shutdown shut no session without a reason.
LEMMA ClientReason ==
  ASSUME StoreInv, ReasonInv,
         \/ Join \/ Stop
         \/ \E c \in Codes : Attach(c) \/ StopShut(c)
         \/ \E s \in Sessions : Access(s) \/ Desert(s) \/ Age(s)
         \/ UNCHANGED vars
  PROVE  ReasonInv'
<1> USE DEF Join, Stop, Attach, StopShut, Access, Desert, Age
<1>1. UNCHANGED <<codeOf, closer, sweeper>> /\ (stopping => stopping')
  OBVIOUS
<1>2. wasStale \subseteq wasStale' /\ stale' \subseteq wasStale'
  BY DEF ReasonInv, Reasons
<1>3. \A c \in Codes : store[c] = NoSession \/ store'[c] = store[c]
  BY DEF StoreInv, TypeOK
<1>4. Reasons' /\ Called \subseteq Called'
  BY <1>1, <1>2, <1>3, ReasonsStay DEF ReasonInv
<1>5. \A s \in shut' : s \in shut \/ stopping'
  OBVIOUS
<1>6. ShutForAReason'
  BY <1>1, <1>2, <1>4, <1>5, ReasonStays DEF ReasonInv
<1>7. QED BY <1>4, <1>6 DEF ReasonInv

\* What a step of one close does to the codes of the calls.
LEMMA CloserCodes ==
  ASSUME StoreInv, Reasons, NEW k \in Closers, NEW new \in CloserState,
         closer' = [closer EXCEPT ![k] = new],
         IF new.pc = "new" THEN new.codes = {} ELSE \E c \in Codes : new.codes = {c},
         closer[k].codes \subseteq new.codes,
         new.removed # NoSession => codeOf[new.removed] \in new.codes,
         UNCHANGED codeOf
  PROVE  /\ OneCode'
         /\ Called \subseteq Called'
         /\ new.codes \subseteq Called'
         /\ \A j \in Closers : closer'[j].removed # NoSession =>
              codeOf'[closer'[j].removed] \in closer'[j].codes
<1>1. closer \in [Closers -> CloserState]
  BY DEF StoreInv, TypeOK
<1>2. closer'[k] = new /\ \A j \in Closers : j # k => closer'[j] = closer[j]
  BY <1>1
<1>3. OneCode'
  BY <1>2 DEF Reasons, OneCode
<1>4. \A j \in Closers : closer[j].codes \subseteq closer'[j].codes
  BY <1>2
<1>5. Called \subseteq Called'
  BY <1>4 DEF Called
<1>6. new.codes \subseteq Called'
  BY <1>2 DEF Called
<1>7. \A j \in Closers : closer'[j].removed # NoSession =>
              codeOf'[closer'[j].removed] \in closer'[j].codes
  BY <1>2 DEF Reasons
<1>8. QED BY <1>3, <1>5, <1>6, <1>7

\* A close shuts the session it took out of the map, and only that.
LEMMA CloseReason ==
  ASSUME StoreInv, ReasonInv, NEW k \in Closers,
         Close(k) \/ \E c \in Codes : CloseBegin(k, c)
  PROVE  ReasonInv'
<1>0. /\ closer \in [Closers -> CloserState] /\ closer[k] \in CloserState
      /\ Reasons /\ ShutForAReason
  BY DEF StoreInv, TypeOK, ReasonInv
<1>1. ASSUME NEW new \in CloserState,
             closer' = [closer EXCEPT ![k] = new],
             IF new.pc = "new" THEN new.codes = {} ELSE \E c \in Codes : new.codes = {c},
             closer[k].codes \subseteq new.codes,
             new.removed # NoSession => codeOf[new.removed] \in new.codes,
             UNCHANGED <<clientVars, sweeper, stopping>>,
             \A c \in Codes : store'[c] = store[c] \/ c \in new.codes,
             \A s \in shut' : s \in shut \/ codeOf[s] \in new.codes
      PROVE  ReasonInv'
  <2>1. /\ OneCode' /\ Called \subseteq Called'
        /\ new.codes \subseteq Called'
        /\ \A j \in Closers : closer'[j].removed # NoSession =>
             codeOf'[closer'[j].removed] \in closer'[j].codes
    BY <1>0, <1>1, CloserCodes
  <2>2. ShutForAReason'
    BY <1>0, <1>1, <2>1, ReasonStays
  <2>3. \A c \in sweeper'.toClose : store'[c] \in wasStale' \/ c \in Called'
    <3> SUFFICES ASSUME NEW c \in sweeper'.toClose
                 PROVE  store'[c] \in wasStale' \/ c \in Called'
      OBVIOUS
    <3>1. c \in Codes /\ sweeper' = sweeper
      BY <1>1 DEF StoreInv, TypeOK, SweeperState
    <3>2. store[c] \in wasStale \/ c \in Called
      BY <1>0, <3>1 DEF Reasons
    <3>3. QED BY <1>1, <2>1, <3>1, <3>2
  <2>4. sweeper'.removed # NoSession =>
          sweeper'.removed \in wasStale' \/ codeOf'[sweeper'.removed] \in Called'
    <3>1. sweeper.removed # NoSession =>
            sweeper.removed \in wasStale \/ codeOf[sweeper.removed] \in Called
      BY <1>0 DEF Reasons
    <3>2. QED BY <1>1, <2>1, <3>1
  <2>5. stale' \subseteq wasStale'
    BY <1>0, <1>1 DEF Reasons
  <2>6. Reasons'
    BY <2>1, <2>3, <2>4, <2>5 DEF Reasons, Called
  <2>7. QED BY <2>2, <2>6 DEF ReasonInv
<1>2. CASE \E c \in Codes : CloseBegin(k, c)
  <2>1. PICK c \in Codes : CloseBegin(k, c) BY <1>2
  <2> DEFINE new == [pc |-> "waiting", codes |-> {c}, removed |-> NoSession]
  <2>2. /\ new \in CloserState /\ new.removed = NoSession
        /\ new.pc # "new" /\ new.codes = {c}
    OBVIOUS
  <2>3. closer[k].codes = {}
    BY <1>0, <2>1 DEF CloseBegin, Reasons, OneCode
  <2>4. closer' = [closer EXCEPT ![k] = new] BY <2>1 DEF CloseBegin
  <2>5. UNCHANGED <<clientVars, sweeper, stopping, store, shut>>
    BY <2>1 DEF CloseBegin
  <2> HIDE DEF new
  <2>6. QED BY <1>1, <2>2, <2>3, <2>4, <2>5
<1>3. CASE CloseRemove(k)
  <2>1. PICK c \in closer[k].codes :
          /\ closer' = [closer EXCEPT ![k] = [pc |-> "removed", codes |-> {c},
                                               removed |-> store[c]]]
          /\ store' = [store EXCEPT ![c] = NoSession]
    BY <1>3 DEF CloseRemove
  <2>2. c \in Codes /\ store[c] \in 0..MaxSessions
    BY <1>0, <2>1 DEF StoreInv, TypeOK
  <2>3. closer[k].codes = {c}
    BY <1>0, <1>3, <2>1 DEF CloseRemove, Reasons, OneCode
  <2> DEFINE new == [pc |-> "removed", codes |-> {c}, removed |-> store[c]]
  <2>4. /\ new \in CloserState /\ new.removed = store[c]
        /\ new.pc # "new" /\ new.codes = {c}
    BY <2>2
  <2>5. store[c] # NoSession => codeOf[store[c]] = c
    BY <2>2 DEF StoreInv, Stored
  <2>6. closer' = [closer EXCEPT ![k] = new] BY <2>1
  <2>7. UNCHANGED <<clientVars, sweeper, stopping, shut>>
    BY <1>3 DEF CloseRemove
  <2>8. \A d \in Codes : store'[d] = store[d] \/ d = c
    BY <2>1 DEF StoreInv, TypeOK
  <2> HIDE DEF new
  <2>9. QED BY <1>1, <2>2, <2>3, <2>4, <2>5, <2>6, <2>7, <2>8
<1>4. CASE CloseShut(k)
  <2> DEFINE new == [closer[k] EXCEPT !.pc = "done"]
  <2>1. /\ new \in CloserState /\ new.removed = closer[k].removed
        /\ new.pc # "new" /\ new.codes = closer[k].codes
    BY <1>0
  <2>2. closer' = [closer EXCEPT ![k] = new] BY <1>4 DEF CloseShut
  <2>3. \E c \in Codes : closer[k].codes = {c}
    BY <1>0, <1>4 DEF CloseShut, Reasons, OneCode
  <2>4. closer[k].removed # NoSession => codeOf[closer[k].removed] \in closer[k].codes
    BY <1>0 DEF Reasons
  <2>5. UNCHANGED <<clientVars, sweeper, stopping, store>>
    BY <1>4 DEF CloseShut
  <2>6. \A s \in shut' : s \in shut \/ codeOf[s] \in closer[k].codes
    BY <1>4, <2>4 DEF CloseShut
  <2> HIDE DEF new
  <2>7. QED BY <1>1, <2>1, <2>2, <2>3, <2>4, <2>5, <2>6
<1>5. QED BY <1>2, <1>3, <1>4 DEF Close

\* The sweeper shuts what it found expired, or what a close had let go.
LEMMA SweepReason ==
  ASSUME StoreInv, ReasonInv, Sweep
  PROVE  ReasonInv'
<1>0. sweeper \in SweeperState /\ Reasons /\ ShutForAReason
  BY DEF StoreInv, TypeOK, ReasonInv
<1>1. UNCHANGED <<created, clientVars, closer, stopping>>
  BY DEF Sweep, SweepWake, SweepShut, SweepDone, SweepLook, SweepRemove
<1>2. Called' = Called
  BY <1>1 DEF Called
<1>3. /\ OneCode' /\ stale' \subseteq wasStale'
      /\ \A k \in Closers : closer'[k].removed # NoSession =>
           codeOf'[closer'[k].removed] \in closer'[k].codes
  BY <1>0, <1>1 DEF Reasons, OneCode
<1>4. ASSUME \A c \in sweeper'.toClose : store'[c] \in wasStale \/ c \in Called,
             sweeper'.removed # NoSession =>
               sweeper'.removed \in wasStale \/ codeOf[sweeper'.removed] \in Called,
             \A s \in shut' : s \in shut \/ s \in wasStale \/ codeOf[s] \in Called
      PROVE  ReasonInv'
  <2>1. ShutForAReason'
    BY <1>0, <1>1, <1>2, <1>4, ReasonStays
  <2>2. Reasons'
    <3>1. \A c \in sweeper'.toClose : store'[c] \in wasStale' \/ c \in Called'
      BY <1>1, <1>2, <1>4
    <3>2. sweeper'.removed # NoSession =>
            sweeper'.removed \in wasStale' \/ codeOf'[sweeper'.removed] \in Called'
      BY <1>1, <1>2, <1>4
    <3>3. QED BY <1>3, <3>1, <3>2 DEF Reasons, Called
  <2>3. QED BY <2>1, <2>2 DEF ReasonInv
<1>5. CASE SweepWake \/ SweepDone
  <2>1. sweeper'.toClose = {} /\ sweeper'.removed = NoSession /\ shut' = shut
    BY <1>5 DEF SweepWake, SweepDone
  <2>2. QED BY <1>4, <2>1
<1>6. ASSUME NEW c \in Codes, SweepLook(c) PROVE ReasonInv'
  <2>1. /\ sweeper'.removed = sweeper.removed /\ shut' = shut /\ store' = store
        /\ sweeper'.toClose =
             IF store[c] \in stale THEN sweeper.toClose \cup {c} ELSE sweeper.toClose
    BY <1>0, <1>6 DEF SweepLook, SweeperState
  <2>2. \A d \in sweeper'.toClose : store'[d] \in wasStale \/ d \in Called
    BY <1>0, <2>1 DEF Reasons
  <2>3. sweeper'.removed # NoSession =>
          sweeper'.removed \in wasStale \/ codeOf[sweeper'.removed] \in Called
    BY <1>0, <2>1 DEF Reasons
  <2>4. QED BY <1>4, <2>1, <2>2, <2>3
<1>7. ASSUME NEW c \in Codes, SweepRemove(c) PROVE ReasonInv'
  <2>1. /\ sweeper'.removed = store[c] /\ shut' = shut
        /\ sweeper'.toClose = sweeper.toClose \ {c}
        /\ store' = [store EXCEPT ![c] = NoSession]
    BY <1>0, <1>7 DEF SweepRemove, SweeperState
  <2>2. \A d \in Codes \ {c} : store'[d] = store[d]
    BY <2>1 DEF StoreInv, TypeOK
  <2>3. sweeper.toClose \subseteq Codes
    BY <1>0 DEF SweeperState
  <2>4. \A d \in sweeper'.toClose : store'[d] \in wasStale \/ d \in Called
    BY <1>0, <2>1, <2>2, <2>3 DEF Reasons
  <2>5. store[c] # NoSession => codeOf[store[c]] = c
    BY DEF StoreInv, Stored
  <2>6. store[c] \in wasStale \/ c \in Called
    BY <1>0, <1>7 DEF SweepRemove, Reasons
  <2>7. sweeper'.removed # NoSession =>
          sweeper'.removed \in wasStale \/ codeOf[sweeper'.removed] \in Called
    BY <2>1, <2>5, <2>6
  <2>8. QED BY <1>4, <2>1, <2>4, <2>7
<1>8. CASE SweepShut
  <2>1. /\ sweeper'.toClose = sweeper.toClose /\ sweeper'.removed = NoSession
        /\ store' = store /\ shut' = shut \cup ({sweeper.removed} \ {NoSession})
    BY <1>8 DEF SweepShut
  <2>2. \A c \in sweeper'.toClose : store'[c] \in wasStale \/ c \in Called
    BY <1>0, <2>1 DEF Reasons
  <2>3. sweeper.removed # NoSession =>
          sweeper.removed \in wasStale \/ codeOf[sweeper.removed] \in Called
    BY <1>0 DEF Reasons
  <2>4. \A s \in shut' : s \in shut \/ s \in wasStale \/ codeOf[s] \in Called
    BY <2>1, <2>3
  <2>5. QED BY <1>4, <2>1, <2>2, <2>4
<1>9. QED BY <1>5, <1>6, <1>7, <1>8 DEF Sweep

\* At the start no session is shut.
LEMMA InitReason == Init => ReasonInv
<1> SUFFICES ASSUME Init PROVE ReasonInv
  OBVIOUS
<1> USE DEF Init
<1>1. OneCode BY DEF OneCode
<1>2. Reasons BY <1>1 DEF Reasons
<1>3. QED BY <1>2 DEF ReasonInv, ShutForAReason

\* Shares do not end each other: a session is shut down because it had been
\* stale, because close was called for its code, or because the relay stops,
\* whatever sessions take each other's place under a code in the meantime.
THEOREM NoShareEndsAnother == Spec => []ShutForAReason
<1>1. StoreInv /\ ReasonInv /\ [Next]_vars => ReasonInv'
  BY ClientReason, CloseReason, SweepReason DEF Next
<1>2. ReasonInv => ShutForAReason BY DEF ReasonInv
<1>3. QED BY <1>1, <1>2, InitReason, AlwaysStore, PTL DEF Spec
=============================================================================
