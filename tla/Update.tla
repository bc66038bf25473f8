------------------------------- MODULE Update -------------------------------
(***************************************************************************)
(* The self update of the command-line client: an archive is downloaded,   *)
(* its binary unpacked beside the running one, and renamed onto it, with   *)
(* the old one as a backup in between.  Updates may stop at any step, by   *)
(* an error or a crash, and be begun again from the binary or its backup;  *)
(* two of them may run at once.                                            *)
(*                                                                         *)
(* As on Unix a name leads to a file, and a file that was renamed or       *)
(* removed stays what it is for whoever has it open.                       *)
(***************************************************************************)
EXTENDS Integers

CONSTANT Updates  \* runs of flash-cat update

Old == "oldBinary"
None == "none"
Names == {"target", "target.old", "target.new"}

ASSUME UpdateAssumption == Updates \cap {Old, None} = {}

VARIABLES
  at,          \* the file under each name: Old, an update's new one, or None
  whole,       \* updates whose new file is completely written
  pc,          \* each update's next step
  exe,         \* the name each update takes for its own
  overlapped,  \* history: two updates ran at once
  cut          \* history: an update stopped between the two renames

vars == <<at, whole, pc, exe, overlapped, cut>>

Running(u) == pc[u] \notin {"new", "over"}

Init ==
  /\ at = [n \in Names |-> IF n = "target" THEN Old ELSE None]
  /\ whole = {}
  /\ pc = [u \in Updates |-> "new"]
  /\ exe = [u \in Updates |-> None]
  /\ overlapped = FALSE /\ cut = FALSE

Step(u, from, to) ==
  /\ pc[u] = from
  /\ pc' = [pc EXCEPT ![u] = to]
  /\ UNCHANGED <<overlapped, cut>>

\* A binary of the old version, under whatever name, finds that there is a newer
\* one and downloads it.  The newest version does nothing.
Begin(u) ==
  /\ pc[u] = "new" /\ \E n \in Names : at[n] = Old
  /\ pc' = [pc EXCEPT ![u] = "locate"]
  /\ overlapped' = (overlapped \/ \E v \in Updates : Running(v))
  /\ UNCHANGED <<at, whole, exe, cut>>

\* current_exe, read after the download: the name the running file has by now.
Locate(u) ==
  /\ \E n \in Names : at[n] = Old /\ exe' = [exe EXCEPT ![u] = n]
  /\ Step(u, "locate", "create")
  /\ UNCHANGED <<at, whole>>

\* A running file without a name gets an update no name of it leads to.
LocateRemoved(u) ==
  /\ ~\E n \in Names : at[n] = Old
  /\ Step(u, "locate", "over")
  /\ UNCHANGED <<at, whole, exe>>

\* Mutant of Create: the binary is unpacked onto the running one.
CreateInPlace(u) ==
  /\ Step(u, "create", "write")
  /\ at' = [at EXCEPT ![exe[u]] = u]
  /\ UNCHANGED <<whole, exe>>

\* entry.unpack takes an existing temporary file away and creates a new one.
Create(u) ==
  /\ Step(u, "create", "write")
  /\ at' = [at EXCEPT !["target.new"] = u]
  /\ UNCHANGED <<whole, exe>>

WriteAll(u) ==
  /\ Step(u, "write", "permissions")
  /\ whole' = whole \cup {u}
  /\ UNCHANGED <<at, exe>>

\* fs::metadata fails without a file.
SetPermissions(u) ==
  /\ Step(u, "permissions", IF at["target.new"] = None THEN "over" ELSE "exists")
  /\ UNCHANGED <<at, whole, exe>>

TargetExists(u) ==
  /\ Step(u, "exists", IF at[exe[u]] = None THEN "install" ELSE "unbackup")
  /\ UNCHANGED <<at, whole, exe>>

\* An update that runs from the backup removes itself here.
RemoveOldBackup(u) ==
  /\ Step(u, "unbackup", "backup")
  /\ at' = [at EXCEPT !["target.old"] = None]
  /\ UNCHANGED <<whole, exe>>

Rename(n, m) == at' = IF n = m THEN at ELSE [at EXCEPT ![m] = at[n], ![n] = None]

\* A rename of a file that is not there ends the update.
Backup(u) ==
  \/ /\ Step(u, "backup", "install") /\ at[exe[u]] # None
     /\ Rename(exe[u], "target.old")
     /\ UNCHANGED <<whole, exe>>
  \/ /\ Step(u, "backup", "over") /\ at[exe[u]] = None
     /\ UNCHANGED <<at, whole, exe>>

Install(u) ==
  \/ /\ Step(u, "install", "cleanup") /\ at["target.new"] # None
     /\ Rename("target.new", exe[u])
     /\ UNCHANGED <<whole, exe>>
  \/ /\ Step(u, "install", "over") /\ at["target.new"] = None
     /\ UNCHANGED <<at, whole, exe>>

RemoveBackup(u) ==
  /\ Step(u, "cleanup", "over")
  /\ at' = [at EXCEPT !["target.old"] = None]
  /\ UNCHANGED <<whole, exe>>

\* An error of any step, or a crash: nothing is rolled back.
Stops(u) ==
  /\ Running(u)
  /\ pc' = [pc EXCEPT ![u] = "over"]
  /\ cut' = (cut \/ pc[u] = "install")
  /\ UNCHANGED <<at, whole, exe, overlapped>>

Next ==
  \E u \in Updates :
    \/ Begin(u) \/ Locate(u) \/ LocateRemoved(u) \/ Create(u) \/ WriteAll(u)
    \/ SetPermissions(u) \/ TargetExists(u) \/ RemoveOldBackup(u) \/ Backup(u)
    \/ Install(u) \/ RemoveBackup(u) \/ Stops(u)

Spec == Init /\ [][Next]_vars
-----------------------------------------------------------------------------
Complete(f) == f = Old \/ f \in whole

\* Wherever an update stops and whatever it is begun again from, a complete binary
\* is left under one of the names, the client's own name never leads to half of
\* one, and leads to none only between the two renames of an update or after one
\* that stopped there: as long as no two updates run at once.
BinaryKept ==
  ~overlapped =>
    /\ \E n \in Names : Complete(at[n])
    /\ at["target"] # None => Complete(at["target"])
    /\ at["target"] = None => cut \/ \E u \in Updates : pc[u] = "install"
=============================================================================
