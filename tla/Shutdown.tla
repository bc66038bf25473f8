------------------------------ MODULE Shutdown ------------------------------
(***************************************************************************)
(* The shutdown signal of flash-cat: an atomic flag and a tokio Notify.    *)
(* Callers run `shutdown`; each waiter runs the future of `wait` inside a  *)
(* select! loop, which may drop a pending future and start a new one.      *)
(*                                                                         *)
(* The flag is read and written with Ordering::Relaxed, so a load may miss *)
(* a store of another thread until the two synchronise; the Notify's own   *)
(* counter, which is SeqCst, is what makes them.                           *)
(***************************************************************************)
EXTENDS Naturals

CONSTANTS Callers, Waiters

VARIABLES
  flag,   \* the AtomicBool
  calls,  \* the Notify's count of notify_waiters calls
  caller, \* control state of each call of shutdown
  waiter, \* control state of each wait
  epoch,  \* the count a wait's Notified was created at
  synced  \* the thread of the wait has synchronised with a notify_waiters

signalVars == <<flag, calls, caller, waiter, epoch, synced>>

SignalInit ==
  /\ flag = FALSE /\ calls = 0
  /\ caller = [c \in Callers |-> "start"]
  /\ waiter = [w \in Waiters |-> "start"]
  /\ epoch = [w \in Waiters |-> 0]
  /\ synced = [w \in Waiters |-> FALSE]

-----------------------------------------------------------------------------
(* shutdown: set the flag, then wake who waits.                            *)

Swap(c) ==
  /\ caller[c] = "start"
  /\ flag' = TRUE
  /\ caller' = [caller EXCEPT ![c] = "swapped"]
  /\ UNCHANGED <<calls, waiter, epoch, synced>>

\* Mutant of NotifyWaiters: notify_one wakes a single waiter.
NotifyOne(c) ==
  /\ caller[c] = "swapped"
  /\ calls' = calls + 1
  /\ waiter' = LET w == CHOOSE v \in Waiters : waiter[v] = "parked" IN
               IF \E v \in Waiters : waiter[v] = "parked"
                 THEN [waiter EXCEPT ![w] = "woken"] ELSE waiter
  /\ caller' = [caller EXCEPT ![c] = "done"]
  /\ UNCHANGED <<flag, epoch, synced>>

\* notify_waiters: count the call and wake every registered waiter.
NotifyWaiters(c) ==
  /\ caller[c] = "swapped"
  /\ calls' = calls + 1
  /\ waiter' = [w \in Waiters |->
                  IF waiter[w] = "parked" THEN "woken" ELSE waiter[w]]
  /\ caller' = [caller EXCEPT ![c] = "done"]
  /\ UNCHANGED <<flag, epoch, synced>>

-----------------------------------------------------------------------------
(* wait: check, create the Notified, check again, await it.                *)

\* What a relaxed load of the flag by w can return.
Loads(w) == IF ~flag THEN {FALSE} ELSE IF synced[w] THEN {TRUE} ELSE BOOLEAN

FirstCheck(w) ==
  /\ waiter[w] = "start"
  /\ \E terminated \in Loads(w) :
       waiter' = [waiter EXCEPT ![w] = IF terminated THEN "done" ELSE "create"]
  /\ UNCHANGED <<flag, calls, caller, epoch, synced>>

\* notified() remembers the count of calls, and synchronises with the last one.
CreateNotified(w) ==
  /\ waiter[w] = "create"
  /\ epoch' = [epoch EXCEPT ![w] = calls]
  /\ synced' = [synced EXCEPT ![w] = @ \/ calls > 0]
  /\ waiter' = [waiter EXCEPT ![w] = "recheck"]
  /\ UNCHANGED <<flag, calls, caller>>

\* Mutant of SecondCheck: there is no second check.
NoSecondCheck(w) ==
  /\ waiter[w] = "recheck"
  /\ waiter' = [waiter EXCEPT ![w] = "await"]
  /\ UNCHANGED <<flag, calls, caller, epoch, synced>>

SecondCheck(w) ==
  /\ waiter[w] = "recheck"
  /\ \E terminated \in Loads(w) :
       waiter' = [waiter EXCEPT ![w] = IF terminated THEN "done" ELSE "await"]
  /\ UNCHANGED <<flag, calls, caller, epoch, synced>>

\* The first poll of the Notified: a call since its creation completes it,
\* otherwise it is registered.
Poll(w) ==
  /\ waiter[w] = "await"
  /\ waiter' = [waiter EXCEPT ![w] = IF calls = epoch[w] THEN "parked" ELSE "done"]
  /\ UNCHANGED <<flag, calls, caller, epoch, synced>>

Wake(w) ==
  /\ waiter[w] = "woken"
  /\ waiter' = [waiter EXCEPT ![w] = "done"]
  /\ UNCHANGED <<flag, calls, caller, epoch, synced>>

\* Another branch of the select! completes: the pending future is dropped, and
\* the next turn of the loop calls wait again.
Drop(w) ==
  /\ waiter[w] \in {"parked", "woken"}
  /\ waiter' = [waiter EXCEPT ![w] = "start"]
  /\ UNCHANGED <<flag, calls, caller, epoch, synced>>

-----------------------------------------------------------------------------
Call(c) == Swap(c) \/ NotifyWaiters(c)

Wait(w) == \/ FirstCheck(w) \/ CreateNotified(w) \/ SecondCheck(w)
           \/ Poll(w) \/ Wake(w)

Finished ==
  /\ \A c \in Callers : caller[c] = "done"
  /\ \A w \in Waiters : waiter[w] = "done"
  /\ UNCHANGED signalVars

SignalNext == \/ \E c \in Callers : Call(c)
              \/ \E w \in Waiters : Wait(w) \/ Drop(w)
              \/ Finished

\* A running call of shutdown goes on, a task that was woken is polled.
SignalFairness == /\ \A c \in Callers : WF_signalVars(NotifyWaiters(c))
                  /\ \A w \in Waiters : WF_signalVars(Wait(w))

SignalSpec == SignalInit /\ [][SignalNext]_signalVars
FairSignalSpec == SignalSpec /\ SignalFairness

TypeOK ==
  /\ flag \in BOOLEAN /\ calls \in Nat
  /\ caller \in [Callers -> {"start", "swapped", "done"}]
  /\ waiter \in [Waiters -> {"start", "create", "recheck", "await", "parked",
                             "woken", "done"}]
  /\ epoch \in [Waiters -> Nat]
  /\ synced \in [Waiters -> BOOLEAN]

-----------------------------------------------------------------------------
\* Once any call of shutdown has returned nobody sleeps in wait: the second
\* check and the Notify's count close the window between check and await.
NoMissedWakeup ==
  (\E c \in Callers : caller[c] = "done") => \A w \in Waiters : waiter[w] # "parked"

\* The signal is a latch: no wait ends early and none is left behind, however
\* often the select! loops drop their futures.
TheLatch == INSTANCE Latch WITH
  set <- flag, returned <- {w \in Waiters : waiter[w] = "done"}
LatchSpec == TheLatch!Spec
=============================================================================
