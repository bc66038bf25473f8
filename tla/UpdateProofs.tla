---------------------------- MODULE UpdateProofs ----------------------------
(***************************************************************************)
(* A complete binary is always left, for any number of updates, wherever   *)
(* they stop.                                                              *)
(***************************************************************************)
EXTENDS Update, TLAPS

Files == Updates \cup {Old, None}
Steps == {"new", "locate", "create", "write", "permissions", "exists",
          "unbackup", "backup", "install", "cleanup", "over"}

TypeOK ==
  /\ whole \in SUBSET Updates
  /\ at \in [Names -> Files]
  /\ pc \in [Updates -> Steps]
  /\ exe \in [Updates -> Names \cup {None}]
  /\ overlapped \in BOOLEAN
  /\ cut \in BOOLEAN
  /\ \A u \in Updates : pc[u] \notin {"new", "locate", "over"} => exe[u] \in Names

\* No two updates run at once.
OneRuns == \A u, v \in Updates : Running(u) /\ Running(v) => u = v

\* The old binary and its backup are never unfinished, and never the new file.
Placed ==
  /\ at["target"] \in whole \cup {Old, None}
  /\ at["target.old"] \in {Old, None}
  /\ at["target.new"] # Old

\* What a running update has, by its next step.
Unpacked(u) ==
  pc[u] \in {"write", "permissions", "exists", "unbackup", "backup", "install"}
  => at["target.new"] = u
Written(u) ==
  pc[u] \in {"permissions", "exists", "unbackup", "backup", "install", "cleanup"}
  => u \in whole
FromOld(u) ==
  pc[u] \in {"create", "write", "permissions", "exists", "unbackup"}
  => exe[u] \in {"target", "target.old"} /\ at[exe[u]] = Old
ToBackup(u) ==
  pc[u] = "backup" =>
    \/ exe[u] = "target" /\ at["target"] = Old
    \/ exe[u] = "target.old" /\ at["target.old"] = None
Installs(u) ==
  /\ pc[u] = "install" => exe[u] = "target"
  /\ pc[u] = "cleanup" => at["target"] = u
Stage(u) == Unpacked(u) /\ Written(u) /\ FromOld(u) /\ ToBackup(u) /\ Installs(u)

\* While no two updates have run at once.
UpdateInv ==
  /\ TypeOK
  /\ ~overlapped => /\ OneRuns /\ Placed /\ BinaryKept
                    /\ \A u \in Updates : Stage(u)

USE UpdateAssumption
USE DEF Old, None, Names

\* The installed binary is complete and no update runs.
LEMMA InitUpdate == Init => UpdateInv
<1> SUFFICES ASSUME Init PROVE UpdateInv
  OBVIOUS
<1> USE DEF Init
<1>1. TypeOK BY DEF TypeOK, Files, Steps
<1>2. OneRuns BY DEF OneRuns, Running
<1>3. Placed BY DEF Placed
<1>4. BinaryKept BY DEF BinaryKept, Complete
<1>5. \A u \in Updates : Stage(u)
  BY DEF Stage, Unpacked, Written, FromOld, ToBackup, Installs
<1>6. QED BY <1>1, <1>2, <1>3, <1>4, <1>5 DEF UpdateInv

\* While one update runs, the others claim nothing of the files.
LEMMA OthersIdle ==
  ASSUME UpdateInv, ~overlapped, NEW u \in Updates, Running(u),
         NEW p \in Steps, pc' = [pc EXCEPT ![u] = p],
         Stage(u)'
  PROVE  OneRuns' /\ \A v \in Updates : Stage(v)'
<1>1. \A v \in Updates : v # u => pc'[v] \in {"new", "over"}
  BY DEF UpdateInv, TypeOK, OneRuns, Running
<1>2. OneRuns' BY <1>1 DEF OneRuns, Running
<1>3. ASSUME NEW v \in Updates PROVE Stage(v)'
  <2>1. CASE v = u BY <2>1
  <2>2. CASE v # u
    BY <1>1, <2>2 DEF Stage, Unpacked, Written, FromOld, ToBackup, Installs
  <2>3. QED BY <2>1, <2>2
<1>4. QED BY <1>2, <1>3

\* A step of one update keeps the types.
LEMMA StepTypes ==
  ASSUME TypeOK, NEW u \in Updates, NEW from, NEW to \in Steps, Step(u, from, to),
         whole' \subseteq Updates, at' \in [Names -> Files],
         exe' = exe \/ \E n \in Names : exe' = [exe EXCEPT ![u] = n],
         to \in {"new", "locate", "over"} \/ exe'[u] \in Names
  PROVE  TypeOK'
<1>1. exe' \in [Updates -> Names \cup {None}] BY DEF TypeOK
<1>2. pc' \in [Updates -> Steps] BY DEF TypeOK, Step
<1>3. \A v \in Updates : pc'[v] \notin {"new", "locate", "over"} => exe'[v] \in Names
  BY DEF TypeOK, Step
<1>4. QED BY <1>1, <1>2, <1>3 DEF TypeOK, Step

\* An update begins with nothing in hand.
LEMMA BeginUpdate == ASSUME UpdateInv, NEW u \in Updates, Begin(u) PROVE UpdateInv'
<1> USE DEF Begin
<1>1. TypeOK' BY DEF UpdateInv, TypeOK, Steps
<1>2. ASSUME ~overlapped'
      PROVE  OneRuns' /\ Placed' /\ BinaryKept' /\ \A v \in Updates : Stage(v)'
  <2>1. \A v \in Updates : pc[v] \in {"new", "over"}
    BY <1>2 DEF UpdateInv, TypeOK, Running
  <2>2. pc'[u] = "locate" /\ \A v \in Updates : v # u => pc'[v] = pc[v]
    BY DEF UpdateInv, TypeOK
  <2>3. OneRuns' BY <2>1, <2>2 DEF OneRuns, Running
  <2>4. Placed' BY <1>2 DEF UpdateInv, Placed
  <2>5. BinaryKept' BY <1>2, <2>1 DEF UpdateInv, BinaryKept, Complete
  <2>6. ASSUME NEW v \in Updates PROVE Stage(v)'
    BY <2>1, <2>2 DEF Stage, Unpacked, Written, FromOld, ToBackup, Installs
  <2>7. QED BY <2>3, <2>4, <2>5, <2>6
<1>3. QED BY <1>1, <1>2 DEF UpdateInv

\* A step of a running update is about that update and the files only.
LEMMA StepKeeps ==
  ASSUME UpdateInv, NEW u \in Updates, NEW from, NEW to \in Steps,
         Step(u, from, to), from \notin {"new", "over"}, TypeOK',
         ~overlapped => Placed' /\ BinaryKept' /\ Stage(u)'
  PROVE  UpdateInv'
<1>1. pc[u] = from /\ pc' = [pc EXCEPT ![u] = to] /\ overlapped' = overlapped
  BY DEF Step
<1>2. Running(u) BY <1>1 DEF Running
<1>3. ASSUME ~overlapped PROVE OneRuns' /\ \A v \in Updates : Stage(v)'
  BY <1>1, <1>2, <1>3, OthersIdle
<1>4. QED BY <1>1, <1>3 DEF UpdateInv

\* What a running update has, from the invariant.
LEMMA RunningHas ==
  ASSUME UpdateInv, ~overlapped, NEW u \in Updates
  PROVE  /\ Placed /\ BinaryKept /\ Stage(u)
         /\ at \in [Names -> Files] /\ pc \in [Updates -> Steps]
         /\ whole \subseteq Updates /\ exe \in [Updates -> Names \cup {None}]
         /\ \A v \in Updates : v # u /\ Running(u) => pc[v] # "install"
BY DEF UpdateInv, TypeOK, OneRuns, Running

\* A step that moves no file keeps the binary.
LEMMA FilesStay ==
  ASSUME UpdateInv, ~overlapped, NEW u \in Updates, NEW from, NEW to \in Steps,
         Step(u, from, to), from \notin {"new", "over", "install"},
         at' = at, whole \subseteq whole'
  PROVE  Placed' /\ BinaryKept'
<1>1. pc[u] = from /\ cut' = cut /\ \A v \in Updates : v # u => pc'[v] = pc[v]
  BY RunningHas DEF Step
<1>2. Placed' BY RunningHas DEF Placed
<1>3. BinaryKept' BY <1>1, RunningHas DEF BinaryKept, Complete
<1>4. QED BY <1>2, <1>3

\* Looking up the running binary moves no file.
LEMMA LocateUpdate ==
  ASSUME UpdateInv, NEW u \in Updates, Locate(u) \/ LocateRemoved(u)
  PROVE  UpdateInv'
<1> USE DEF Locate, LocateRemoved
<1>1. CASE Locate(u)
  <2>1. PICK n \in Names : at[n] = Old /\ exe' = [exe EXCEPT ![u] = n] BY <1>1
  <2>2. exe'[u] = n BY <2>1 DEF UpdateInv, TypeOK
  <2>3. TypeOK'
    <3>1. Step(u, "locate", "create") /\ UNCHANGED <<at, whole>> BY <1>1
    <3>2. QED BY <2>1, <2>2, <3>1, StepTypes DEF UpdateInv, TypeOK, Steps
  <2>4. ASSUME ~overlapped PROVE Placed' /\ BinaryKept' /\ Stage(u)'
    <3>1. Placed' /\ BinaryKept' BY <1>1, <2>4, FilesStay DEF Steps
    <3>2. n # "target.new" BY <2>1, <2>4, RunningHas DEF Placed
    <3>3. pc'[u] = "create" BY <1>1, <2>4, RunningHas DEF Step
    <3>4. Stage(u)'
      BY <1>1, <2>1, <2>2, <3>2, <3>3
      DEF Stage, Unpacked, Written, FromOld, ToBackup, Installs
    <3>5. QED BY <3>1, <3>4
  <2>5. QED BY <1>1, <2>3, <2>4, StepKeeps DEF Steps
<1>2. CASE LocateRemoved(u)
  <2>1. TypeOK' BY <1>2, StepTypes DEF UpdateInv, TypeOK, Steps
  <2>2. ASSUME ~overlapped PROVE Placed' /\ BinaryKept' /\ Stage(u)'
    <3>1. Placed' /\ BinaryKept' BY <1>2, <2>2, FilesStay DEF Steps
    <3>2. pc'[u] = "over" BY <1>2, <2>2, RunningHas DEF Step
    <3>3. Stage(u)'
      BY <3>2 DEF Stage, Unpacked, Written, FromOld, ToBackup, Installs
    <3>4. QED BY <3>1, <3>3
  <2>3. QED BY <1>2, <2>1, <2>2, StepKeeps DEF Steps
<1>3. QED BY <1>1, <1>2

\* The unpacked file starts under a name of its own, and may be cut short.
LEMMA CreateUpdate ==
  ASSUME UpdateInv, NEW u \in Updates, Create(u) PROVE UpdateInv'
<1> USE DEF Create
<1>1. TypeOK' BY StepTypes DEF UpdateInv, TypeOK, Steps, Files, Step
<1>2. ASSUME ~overlapped PROVE Placed' /\ BinaryKept' /\ Stage(u)'
  <2>1. /\ pc[u] = "create" /\ pc'[u] = "write" /\ Running(u)
        /\ \A v \in Updates : v # u => pc'[v] = pc[v]
    BY <1>2, RunningHas DEF Step, Running
  <2>2. /\ at'["target.new"] = u
        /\ \A n \in Names \ {"target.new"} : at'[n] = at[n]
    BY <1>2, RunningHas
  <2>3. exe[u] \in {"target", "target.old"} /\ at[exe[u]] = Old
    BY <1>2, <2>1, RunningHas DEF Stage, FromOld
  <2>4. Placed' BY <1>2, <2>2, RunningHas DEF Placed
  <2>5. BinaryKept'
    BY <1>2, <2>1, <2>2, <2>3, RunningHas DEF BinaryKept, Complete, Step
  <2>6. Stage(u)'
    BY <2>1, <2>2, <2>3 DEF Stage, Unpacked, Written, FromOld, ToBackup, Installs
  <2>7. QED BY <2>4, <2>5, <2>6
<1>3. QED BY <1>1, <1>2, StepKeeps DEF Steps

\* The steps between the archive and the first rename.
LEMMA PrepareUpdate ==
  ASSUME UpdateInv, NEW u \in Updates,
         WriteAll(u) \/ SetPermissions(u) \/ TargetExists(u)
  PROVE  UpdateInv'
<1> USE DEF Stage, Unpacked, Written, FromOld, ToBackup, Installs
<1>1. CASE WriteAll(u)
  <2>1. TypeOK' BY <1>1, StepTypes DEF WriteAll, UpdateInv, TypeOK, Steps, Step
  <2>2. ASSUME ~overlapped PROVE Placed' /\ BinaryKept' /\ Stage(u)'
    <3>1. Placed' /\ BinaryKept' BY <1>1, <2>2, FilesStay DEF WriteAll, Steps
    <3>2. pc[u] = "write" /\ pc'[u] = "permissions"
      BY <1>1, <2>2, RunningHas DEF WriteAll, Step
    <3>3. Stage(u)' BY <1>1, <2>2, <3>2, RunningHas DEF WriteAll
    <3>4. QED BY <3>1, <3>3
  <2>3. QED BY <1>1, <2>1, <2>2, StepKeeps DEF WriteAll, Steps
<1>2. CASE SetPermissions(u)
  <2> DEFINE to == IF at["target.new"] = None THEN "over" ELSE "exists"
  <2>1. to \in Steps /\ Step(u, "permissions", to) /\ UNCHANGED <<at, whole, exe>>
    BY <1>2 DEF SetPermissions, Steps
  <2>2. TypeOK' BY <2>1, StepTypes DEF UpdateInv, TypeOK, Step
  <2>3. ASSUME ~overlapped PROVE Placed' /\ BinaryKept' /\ Stage(u)'
    <3>1. Placed' /\ BinaryKept' BY <2>1, <2>3, FilesStay
    <3>2. pc[u] = "permissions" /\ pc'[u] = to
      BY <2>1, <2>3, RunningHas DEF Step
    <3>3. Stage(u)' BY <2>1, <2>3, <3>2, RunningHas
    <3>4. QED BY <3>1, <3>3
  <2>4. QED BY <2>1, <2>2, <2>3, StepKeeps
<1>3. CASE TargetExists(u)
  <2> DEFINE to == IF at[exe[u]] = None THEN "install" ELSE "unbackup"
  <2>1. to \in Steps /\ Step(u, "exists", to) /\ UNCHANGED <<at, whole, exe>>
    BY <1>3 DEF TargetExists, Steps
  <2>2. TypeOK' BY <2>1, StepTypes DEF UpdateInv, TypeOK, Step
  <2>3. ASSUME ~overlapped PROVE Placed' /\ BinaryKept' /\ Stage(u)'
    <3>1. Placed' /\ BinaryKept' BY <2>1, <2>3, FilesStay
    <3>2. pc[u] = "exists" /\ pc'[u] = to
      BY <2>1, <2>3, RunningHas DEF Step
    <3>3. Stage(u)' BY <2>1, <2>3, <3>2, RunningHas
    <3>4. QED BY <3>1, <3>3
  <2>4. QED BY <2>1, <2>2, <2>3, StepKeeps
<1>4. QED BY <1>1, <1>2, <1>3

\* Removing a stale backup leaves the client's name alone.
LEMMA RemoveOldBackupUpdate ==
  ASSUME UpdateInv, NEW u \in Updates, RemoveOldBackup(u) PROVE UpdateInv'
<1> USE DEF RemoveOldBackup
<1>1. TypeOK' BY StepTypes DEF UpdateInv, TypeOK, Steps, Files, Step
<1>2. ASSUME ~overlapped PROVE Placed' /\ BinaryKept' /\ Stage(u)'
  <2>1. /\ pc[u] = "unbackup" /\ pc'[u] = "backup" /\ Running(u)
        /\ \A v \in Updates : v # u => pc'[v] = pc[v]
    BY <1>2, RunningHas DEF Step, Running
  <2>2. /\ at'["target.old"] = None
        /\ \A n \in Names \ {"target.old"} : at'[n] = at[n]
    BY <1>2, RunningHas
  <2>3. /\ exe[u] \in {"target", "target.old"} /\ at[exe[u]] = Old
        /\ at["target.new"] = u /\ u \in whole
    BY <1>2, <2>1, RunningHas DEF Stage, FromOld, Unpacked, Written
  <2>4. Placed' BY <1>2, <2>2, RunningHas DEF Placed
  <2>5. BinaryKept'
    BY <1>2, <2>1, <2>2, <2>3, RunningHas DEF BinaryKept, Complete, Step
  <2>6. Stage(u)'
    BY <2>1, <2>2, <2>3 DEF Stage, Unpacked, Written, FromOld, ToBackup, Installs
  <2>7. QED BY <2>4, <2>5, <2>6
<1>3. QED BY <1>1, <1>2, StepKeeps DEF Steps

\* The first rename: from here to the second one the name may lead to no file.
LEMMA BackupUpdate ==
  ASSUME UpdateInv, NEW u \in Updates, Backup(u) PROVE UpdateInv'
<1> USE DEF Backup, Rename
<1>0. CASE Step(u, "backup", "over") /\ at[exe[u]] = None /\ UNCHANGED <<at, whole, exe>>
  <2>1. TypeOK' BY <1>0, StepTypes DEF UpdateInv, TypeOK, Steps
  <2>2. ASSUME ~overlapped PROVE Placed' /\ BinaryKept' /\ Stage(u)'
    <3>1. Placed' /\ BinaryKept' BY <1>0, <2>2, FilesStay DEF Steps
    <3>2. pc'[u] = "over" BY <1>0, <2>2, RunningHas DEF Step
    <3>3. Stage(u)'
      BY <3>2 DEF Stage, Unpacked, Written, FromOld, ToBackup, Installs
    <3>4. QED BY <3>1, <3>3
  <2>3. QED BY <1>0, <2>1, <2>2, StepKeeps DEF Steps
<1>1. CASE /\ Step(u, "backup", "install") /\ at[exe[u]] # None
           /\ Rename(exe[u], "target.old") /\ UNCHANGED <<whole, exe>>
  <2>0. exe[u] \in Names /\ at \in [Names -> Files] /\ pc[u] = "backup"
    BY <1>1 DEF UpdateInv, TypeOK, Step
  <2>1. at' \in [Names -> Files] BY <1>1, <2>0 DEF Files
  <2>2. TypeOK' BY <1>1, <2>0, <2>1, StepTypes DEF UpdateInv, TypeOK, Steps
  <2>3. ASSUME ~overlapped PROVE Placed' /\ BinaryKept' /\ Stage(u)'
    <3>1. /\ pc'[u] = "install" /\ Running(u)
          /\ \A v \in Updates : v # u => pc'[v] = pc[v]
      BY <1>1, <2>0, <2>3, RunningHas DEF Step, Running
    <3>2. exe[u] = "target" /\ at["target"] = Old
      BY <1>1, <2>0, <2>3, RunningHas DEF Stage, ToBackup
    <3>3. at["target.new"] = u /\ u \in whole
      BY <2>0, <2>3, RunningHas DEF Stage, Unpacked, Written
    <3>4. at'["target"] = None /\ at'["target.old"] = Old /\ at'["target.new"] = u
      BY <1>1, <2>0, <3>2, <3>3
    <3>5. Placed' BY <3>4 DEF Placed
    <3>6. BinaryKept' BY <3>1, <3>4 DEF BinaryKept, Complete
    <3>7. Stage(u)'
      BY <1>1, <3>1, <3>2, <3>3, <3>4
      DEF Stage, Unpacked, Written, FromOld, ToBackup, Installs
    <3>8. QED BY <3>5, <3>6, <3>7
  <2>4. QED BY <1>1, <2>2, <2>3, StepKeeps DEF Steps
<1>2. QED BY <1>0, <1>1

\* The second rename puts the complete new binary in place.
LEMMA InstallUpdate ==
  ASSUME UpdateInv, NEW u \in Updates, Install(u) PROVE UpdateInv'
<1> USE DEF Install, Rename
<1>0. /\ exe[u] \in Names /\ at \in [Names -> Files] /\ pc[u] = "install"
      /\ Step(u, "install", "cleanup") \/ Step(u, "install", "over")
  BY DEF UpdateInv, TypeOK, Step
<1>1. CASE /\ Step(u, "install", "cleanup") /\ at["target.new"] # None
           /\ Rename("target.new", exe[u]) /\ UNCHANGED <<whole, exe>>
  <2>1. at' \in [Names -> Files] BY <1>0, <1>1 DEF Files
  <2>2. TypeOK' BY <1>0, <1>1, <2>1, StepTypes DEF UpdateInv, TypeOK, Steps
  <2>3. ASSUME ~overlapped PROVE Placed' /\ BinaryKept' /\ Stage(u)'
    <3>1. pc'[u] = "cleanup" BY <1>1, <2>3, RunningHas DEF Step
    <3>2. exe[u] = "target" /\ at["target.new"] = u /\ u \in whole
      BY <1>0, <2>3, RunningHas DEF Stage, Installs, Unpacked, Written
    <3>3. /\ at'["target"] = u /\ at'["target.new"] = None
          /\ at'["target.old"] = at["target.old"]
      BY <1>0, <1>1, <3>2
    <3>4. Placed' BY <1>1, <2>3, <3>2, <3>3, RunningHas DEF Placed
    <3>5. BinaryKept' BY <1>1, <3>2, <3>3 DEF BinaryKept, Complete
    <3>6. Stage(u)'
      BY <1>1, <3>1, <3>2, <3>3
      DEF Stage, Unpacked, Written, FromOld, ToBackup, Installs
    <3>7. QED BY <3>4, <3>5, <3>6
  <2>4. QED BY <1>1, <2>2, <2>3, StepKeeps DEF Steps
<1>2. CASE Step(u, "install", "over") /\ at["target.new"] = None /\ UNCHANGED <<at, whole, exe>>
  <2>1. TypeOK' BY <1>2, StepTypes DEF UpdateInv, TypeOK, Steps
  <2>2. overlapped
    BY <1>0, <1>2, RunningHas DEF Stage, Unpacked
  <2>3. QED BY <1>2, <2>1, <2>2, StepKeeps DEF Steps
<1>3. QED BY <1>1, <1>2

\* Removing the backup at the end leaves the new binary under the client's name.
LEMMA RemoveBackupUpdate ==
  ASSUME UpdateInv, NEW u \in Updates, RemoveBackup(u) PROVE UpdateInv'
<1> USE DEF RemoveBackup
<1>1. TypeOK' BY StepTypes DEF UpdateInv, TypeOK, Steps, Files, Step
<1>2. ASSUME ~overlapped PROVE Placed' /\ BinaryKept' /\ Stage(u)'
  <2>1. pc[u] = "cleanup" /\ pc'[u] = "over"
    BY <1>2, RunningHas DEF Step
  <2>2. /\ at'["target.old"] = None
        /\ \A n \in Names \ {"target.old"} : at'[n] = at[n]
    BY <1>2, RunningHas
  <2>3. at["target"] = u /\ u \in whole
    BY <1>2, <2>1, RunningHas DEF Stage, Installs, Written
  <2>4. Placed' BY <1>2, <2>2, RunningHas DEF Placed
  <2>5. BinaryKept' BY <2>2, <2>3 DEF BinaryKept, Complete
  <2>6. Stage(u)'
    BY <2>1 DEF Stage, Unpacked, Written, FromOld, ToBackup, Installs
  <2>7. QED BY <2>4, <2>5, <2>6
<1>3. QED BY <1>1, <1>2, StepKeeps DEF Steps

\* An update that stops leaves every file where it is.
LEMMA StopsUpdate ==
  ASSUME UpdateInv, NEW u \in Updates, Stops(u) PROVE UpdateInv'
<1> USE DEF Stops
<1>1. TypeOK' BY DEF UpdateInv, TypeOK, Steps
<1>2. ASSUME ~overlapped PROVE Placed' /\ BinaryKept' /\ Stage(u)'
  <2>1. pc'[u] = "over" /\ \A v \in Updates : v # u => pc'[v] = pc[v]
    BY <1>2, RunningHas
  <2>2. Placed' BY <1>2, RunningHas DEF Placed
  <2>3. BinaryKept' BY <1>2, <2>1, RunningHas DEF BinaryKept, Complete
  <2>4. Stage(u)'
    BY <2>1 DEF Stage, Unpacked, Written, FromOld, ToBackup, Installs
  <2>5. QED BY <2>2, <2>3, <2>4
<1>3. "over" \in Steps /\ UNCHANGED overlapped BY DEF Steps
<1>4. ASSUME ~overlapped PROVE OneRuns' /\ \A v \in Updates : Stage(v)'
  <2>1. Running(u) /\ pc' = [pc EXCEPT ![u] = "over"] /\ Stage(u)'
    BY <1>2, <1>4
  <2>2. QED BY <1>3, <1>4, <2>1, OthersIdle
<1>5. QED BY <1>1, <1>2, <1>3, <1>4 DEF UpdateInv

\* The invariant is inductive.
LEMMA NextUpdate == UpdateInv /\ [Next]_vars => UpdateInv'
<1> SUFFICES ASSUME UpdateInv, [Next]_vars PROVE UpdateInv'
  OBVIOUS
<1>1. CASE UNCHANGED vars
  BY <1>1 DEF vars, UpdateInv, TypeOK, OneRuns, Running, Placed, BinaryKept,
              Complete, Stage, Unpacked, Written, FromOld, ToBackup, Installs
<1>2. ASSUME NEW u \in Updates, Begin(u) PROVE UpdateInv'
  BY <1>2, BeginUpdate
<1>3. ASSUME NEW u \in Updates, Locate(u) \/ LocateRemoved(u) PROVE UpdateInv'
  BY <1>3, LocateUpdate
<1>4. ASSUME NEW u \in Updates, Create(u) PROVE UpdateInv'
  BY <1>4, CreateUpdate
<1>5. ASSUME NEW u \in Updates, WriteAll(u) \/ SetPermissions(u) \/ TargetExists(u)
      PROVE  UpdateInv'
  BY <1>5, PrepareUpdate
<1>6. ASSUME NEW u \in Updates, RemoveOldBackup(u) PROVE UpdateInv'
  BY <1>6, RemoveOldBackupUpdate
<1>7. ASSUME NEW u \in Updates, Backup(u) PROVE UpdateInv'
  BY <1>7, BackupUpdate
<1>8. ASSUME NEW u \in Updates, Install(u) PROVE UpdateInv'
  BY <1>8, InstallUpdate
<1>9. ASSUME NEW u \in Updates, RemoveBackup(u) PROVE UpdateInv'
  BY <1>9, RemoveBackupUpdate
<1>10. ASSUME NEW u \in Updates, Stops(u) PROVE UpdateInv'
  BY <1>10, StopsUpdate
<1>11. QED
  BY <1>1, <1>2, <1>3, <1>4, <1>5, <1>6, <1>7, <1>8, <1>9, <1>10 DEF Next

\* However many updates are begun one after another, from the binary or from its
\* backup, and wherever each of them stops: a complete binary is left, and the
\* client's own name never leads to half of one.
THEOREM BinaryStays == Spec => []BinaryKept
<1>1. UpdateInv => BinaryKept BY DEF UpdateInv, BinaryKept
<1>2. QED BY <1>1, InitUpdate, NextUpdate, PTL DEF Spec
=============================================================================
