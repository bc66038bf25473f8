------------------------------ MODULE FileCopy ------------------------------
(***************************************************************************)
(* What a transfer promises for the receiver's disk, with nothing of how   *)
(* it is done: every file is copied by itself, chunk after chunk in order, *)
(* from a position the receiver chose, or is left as it was.               *)
(***************************************************************************)
EXTENDS Contents

CONSTANTS Files, NoFile, Source, EmptyDirs

VARIABLES
  disk,  \* content of each file of the receiver
  state, \* "pending", "copying", "done" or "kept"
  at     \* how many chunks of the sender's file the copy has reached

vars == <<disk, state, at>>

Init ==
  /\ disk \in [Files -> Seq(Chunk) \cup {NoFile}]
  /\ state = [f \in Files |-> "pending"]
  /\ at = [f \in Files |-> 0]

\* The copy starts: in a new file, over an existing one, in an existing one
\* cut to nothing, or behind the saved chunks of an interrupted copy.
Start(f) ==
  /\ state[f] = "pending"
  /\ f \notin EmptyDirs
  /\ state' = [state EXCEPT ![f] = "copying"]
  /\ \/ /\ disk' = [disk EXCEPT ![f] = <<>>]
        /\ UNCHANGED at
     \/ /\ disk[f] # NoFile
        /\ UNCHANGED <<disk, at>>
     \/ /\ disk[f] # NoFile
        /\ AtBreakPoint(disk[f], Source[f])
        /\ at' = [at EXCEPT ![f] = SavedChunks(disk[f])]
        /\ UNCHANGED disk

CopyChunk(f) ==
  /\ state[f] = "copying"
  /\ at[f] < Len(Source[f])
  /\ disk' = [disk EXCEPT ![f] = WriteAt(@, at[f], Source[f][at[f] + 1])]
  /\ at' = [at EXCEPT ![f] = @ + 1]
  /\ UNCHANGED state

Finish(f) ==
  /\ state[f] = "copying"
  /\ at[f] = Len(Source[f])
  /\ state' = [state EXCEPT ![f] = "done"]
  /\ UNCHANGED <<disk, at>>

MakeDir(f) ==
  /\ state[f] = "pending"
  /\ f \in EmptyDirs
  /\ state' = [state EXCEPT ![f] = "done"]
  /\ UNCHANGED <<disk, at>>

Keep(f) ==
  /\ state[f] = "pending"
  /\ disk[f] # NoFile
  /\ state' = [state EXCEPT ![f] = "kept"]
  /\ UNCHANGED <<disk, at>>

Next == \E f \in Files :
          Start(f) \/ CopyChunk(f) \/ Finish(f) \/ MakeDir(f) \/ Keep(f)

Spec == Init /\ [][Next]_vars
=============================================================================
