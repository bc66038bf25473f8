------------------------------ MODULE FileTree ------------------------------
(***************************************************************************)
(* Which files a share holds and where they end up.  The sender may first  *)
(* pack every directory it was given into an archive, one task for each;   *)
(* it then walks what it was given and makes a list of files and empty     *)
(* directories with their relative paths.  The receiver places each of     *)
(* them below its output directory, at most MAX_CONCURRENT_FILES at once.  *)
(*                                                                         *)
(* Paths are sequences of names.  How the content of a placed file travels *)
(* is Transfer; here a file is the set of entries written into it.         *)
(***************************************************************************)
EXTENDS Integers, Sequences, SequencesExt, FiniteSets

CONSTANTS
  Shares,        \* what may be shared: tree, roots, zip or not, output directory
  Names,         \* what files and directories are called
  Cwd,           \* the sender's working directory
  ZipOf,         \* the name of a directory with ".zip" behind it
  Split,         \* what reset_path makes of a name: its parts between backslashes
  MaxConcurrent  \* MAX_CONCURRENT_FILES

Dirs == {"dir", "link", "locked"}

\* A file system: a finite set of paths and what is at each.  A path lies below
\* its prefixes, all of them directories.
IsTree(t, kinds) ==
  /\ IsFiniteSet(DOMAIN t) /\ DOMAIN t \subseteq Seq(Names) /\ t \in [DOMAIN t -> kinds]
  /\ <<>> \in DOMAIN t /\ t[<<>>] \in Dirs
  /\ \A p \in DOMAIN t : \A q \in Prefixes(p) \ {p} : q \in DOMAIN t /\ t[q] \in Dirs

ASSUME FileTreeAssumption ==
  /\ MaxConcurrent \in Nat \ {0}
  /\ ".zip" \in Names /\ Names \cap {".", ".."} = {}
  /\ DOMAIN ZipOf \subseteq Names /\ ZipOf \in [DOMAIN ZipOf -> Names]
  /\ \A n \in DOMAIN ZipOf : ZipOf[n] \in DOMAIN Split => n \in DOMAIN Split
  /\ \A s \in Shares :
       /\ IsTree(s.tree, Dirs \cup {"file", "other"}) /\ Cwd \in DOMAIN s.tree /\ s.tree[Cwd] \in Dirs
       /\ IsTree(s.old, {"dir", "file"}) /\ s.zip \in BOOLEAN
       /\ s.roots \in Seq([dir : Seq(Names), name : DOMAIN ZipOf \cup {".", ".."}])

VARIABLES
  share,    \* the share this behaviour is about; never changes
  tree,     \* the sender's directory tree: "file", "dir", "locked" (a directory
            \* that cannot be read), "link" (to a directory) or "other"
  packed,   \* the files packed into each archive
  zipping,  \* the archive task of each root
  files,    \* FileCollector.files: the entries of the share
  state,    \* the transfer of each entry
  out,      \* the receiver's output directory; 0 stands for its old contents
  phase     \* of the share

senderVars == <<share, tree, packed, zipping, files>>
vars == <<senderVars, state, out, phase>>

None == "none"
At(t, p) == IF p \in DOMAIN t THEN t[p] ELSE None
Set(t, p, v) == [q \in DOMAIN t \cup {p} |-> IF q = p THEN v ELSE t[q]]
Roots == DOMAIN share.roots

\* What a path given by the user stands for in the tree: its last name, in the
\* directory to which the names before that lead.
Resolve(root) ==
  CASE root.name = ".." -> Front(root.dir)
    [] root.name = "." -> root.dir
    [] OTHER -> Append(root.dir, root.name)

IsDir(t, i) == At(t, Resolve(share.roots[i])) \in Dirs
Zipped(t, i) == share.zip /\ IsDir(t, i)
ZipName(i) ==
  LET n == share.roots[i].name IN IF n \in {".", ".."} THEN ".zip" ELSE ZipOf[n]
Archive(i) == Append(Cwd, ZipName(i))

\* What a walk from root comes across, through directories of the given kinds:
\* entries that cannot be read are passed over in silence.
Walk(root, kinds) ==
  {p \in DOMAIN tree :
     /\ IsPrefix(root, p)
     /\ \A q \in DOMAIN tree :
          IsPrefix(root, q) /\ IsStrictPrefix(q, p) => tree[q] \in kinds \cup
            (IF q = root THEN {"link"} ELSE {})}
IsEmpty(p) == ~\E q \in DOMAIN tree : IsStrictPrefix(p, q)

Init ==
  /\ share \in Shares
  /\ tree = share.tree /\ packed = <<>>
  /\ zipping = [i \in Roots |-> "no"]
  /\ files = <<>> /\ state = <<>>
  /\ out = [p \in DOMAIN share.old |-> [kind |-> share.old[p], by |-> {0}]]
  /\ phase = "new"

-----------------------------------------------------------------------------
(* The sender: FlashCatSender::new and shutdown.                           *)

\* Every path must exist; the directories among them get an archive task each.
PathsExist ==
  /\ phase = "new"
  /\ \A i \in Roots : Resolve(share.roots[i]) \in DOMAIN tree
  /\ zipping' = [i \in Roots |-> IF Zipped(tree, i) THEN "check" ELSE "no"]
  /\ phase' = "zip"
  /\ UNCHANGED <<share, tree, packed, files, state, out>>

PathMissing ==
  /\ phase = "new"
  /\ \E i \in Roots : Resolve(share.roots[i]) \notin DOMAIN tree
  /\ phase' = "refused"
  /\ UNCHANGED <<senderVars, state, out>>

\* A task goes on when the start was refused because of another one.
ZipStep(i, from, to) ==
  /\ phase \in {"zip", "refused"} /\ zipping[i] = from
  /\ zipping' = [zipping EXCEPT ![i] = to]
  /\ UNCHANGED <<share, files, state, out, phase>>

\* Mutant of ZipCheck: an existing file is no reason to stop.
ZipCheckNothing(i) ==
  /\ ZipStep(i, "check", "create")
  /\ UNCHANGED <<tree, packed>>

\* A file of the archive's name is left alone.
ZipCheck(i) ==
  /\ ZipStep(i, "check", IF Archive(i) \in DOMAIN tree THEN "failed" ELSE "create")
  /\ UNCHANGED <<tree, packed>>

\* File::create, some time after the check: it truncates what is there by now.
ZipCreate(i) ==
  /\ ZipStep(i, "create", "write")
  /\ tree' = Set(tree, Archive(i), "file")
  /\ packed' = Set(packed, Archive(i), {})

\* This walk does not follow links to directories.
ToPack(i) == {p \in Walk(Resolve(share.roots[i]), {"dir"}) : tree[p] = "file"}

\* The handle stays valid when another task creates a file of the same name.
Pack(i, some) == packed' = [packed EXCEPT ![Archive(i)] = @ \cup some] /\ UNCHANGED tree

ZipWrite(i) == ZipStep(i, "write", "done") /\ Pack(i, ToPack(i))

\* A file cannot be created, or read: of the archive that was begun something stays.
ZipFails(i) ==
  \/ ZipStep(i, "create", "failed") /\ UNCHANGED <<tree, packed>>
  \/ ZipStep(i, "write", "broken") /\ \E some \in SUBSET ToPack(i) : Pack(i, some)

\* The tasks are awaited in order; the first one that failed ends it, and the
\* archives of the others stay where they are.
ZipFailed ==
  /\ phase = "zip"
  /\ \E i \in Roots : /\ zipping[i] \in {"failed", "broken"}
                      /\ \A j \in 1..i - 1 : zipping[j] \in {"no", "done"}
  /\ phase' = "refused"
  /\ UNCHANGED <<senderVars, state, out>>

\* Mutant of RelativePath: it does not begin with the directory's own name.
RelativeToRoot(root, p) ==
  IF p = Resolve(root) THEN <<root.name>>
  ELSE SubSeq(p, Len(Resolve(root)) + 1, Len(p))

\* The path below the parent of what the user gave.
RelativePath(root, p) ==
  <<root.name>> \o SubSeq(p, Len(Resolve(root)) + 1, Len(p))

\* An archive is sent in place of its directory.
Sent(i) == IF zipping[i] = "done" THEN [dir |-> Cwd, name |-> ZipName(i)] ELSE share.roots[i]

\* Mutant of Entries: linked directories are not followed.
EntriesUnlinked(i) ==
  LET root == Sent(i) IN
  {[root |-> i, path |-> p, relative |-> RelativePath(root, p), empty |-> tree[p] # "file"] :
     p \in {p \in Walk(Resolve(root), {"dir"}) :
              tree[p] = "file" \/ (tree[p] \in {"dir", "link"} /\ IsEmpty(p))}}

\* collect_files for one path: its files and its empty directories.
Entries(i) ==
  LET root == Sent(i) IN
  {[root |-> i, path |-> p, relative |-> RelativePath(root, p), empty |-> tree[p] # "file"] :
     p \in {p \in Walk(Resolve(root), {"dir", "link"}) :
              tree[p] = "file" \/ (tree[p] \in {"dir", "link"} /\ IsEmpty(p))}}

\* The list is in the order of the given paths, and below each in any order.
Collect ==
  /\ phase = "zip"
  /\ \A i \in Roots : zipping[i] \in {"no", "done"}
  /\ \E list \in SetToSeqs(UNION {Entries(i) : i \in Roots}) :
       /\ \A j, k \in DOMAIN list : j < k => list[j].root <= list[k].root
       /\ files' = list
       /\ state' = [k \in DOMAIN list |-> "new"]
  /\ phase' = "share"
  /\ UNCHANGED <<share, tree, packed, zipping, out>>

\* clean_zip_files stops at the first archive it cannot remove: one that it has
\* removed before.
Cleaned ==
  {Archive(i) : i \in {i \in Roots :
     /\ zipping[i] = "done"
     /\ \A j, k \in 1..i : zipping[j] = "done" /\ zipping[k] = "done" /\ j # k
                           => Archive(j) # Archive(k)}}

\* FlashCatSender::shutdown, at any time.
Shutdown ==
  /\ phase \in {"share", "failed"}
  /\ tree' = [p \in DOMAIN tree \ Cleaned |-> tree[p]]
  /\ phase' = "closed"
  /\ UNCHANGED <<share, packed, zipping, files, state, out>>

-----------------------------------------------------------------------------
(* The receiver: what it does with NewFileRequest and FileDone.            *)

Normal(path) == FlattenSeq([k \in DOMAIN path |->
  IF path[k] \in DOMAIN Split THEN Split[path[k]] ELSE <<path[k]>>])

\* safe_join_relative_path: a path that leaves the output directory, or names
\* the directory itself, ends the receiver.
Unsafe(path) == ".." \in ToSet(path) \/ path = <<>>

\* A path of plain names stays as it is.
Plain(path) == ToSet(path) \cap (DOMAIN Split \cup {"."}) = {}
Target(k) ==
  LET path == files[k].relative IN
  IF Plain(path) THEN path ELSE SelectSeq(Normal(path), LAMBDA n : n # ".")

Ended == {"done", "kept"}
Kind(p) == IF p \in DOMAIN out THEN out[p].kind ELSE None
Above(p) == Prefixes(p) \ {p}
\* create_dir_all finds a file on its way.
Blocked(p) == \E q \in Above(p) : Kind(q) = "file"

\* A request is handled once the task of the entry has a permit.
Requested(k) ==
  /\ phase = "share" /\ state[k] = "new"
  /\ Cardinality({j \in 1..k - 1 : state[j] \notin Ended}) < MaxConcurrent

Goes(k, to) == /\ state' = [state EXCEPT ![k] = to]
               /\ UNCHANGED <<senderVars, phase>>

Add(p, leaf) ==
  out' = [q \in DOMAIN out \cup Prefixes(p) |->
            IF q \in DOMAIN out THEN out[q]
            ELSE IF q = p THEN leaf ELSE [kind |-> "dir", by |-> {}]]

MakeDir(k) ==
  /\ Requested(k) /\ files[k].empty /\ ~Unsafe(Target(k))
  /\ ~Blocked(Target(k)) /\ Kind(Target(k)) # "file"
  /\ Add(Target(k), [kind |-> "dir", by |-> {}])
  /\ Goes(k, "done")

CreateFile(k) ==
  /\ Requested(k) /\ ~files[k].empty /\ ~Unsafe(Target(k))
  /\ ~Blocked(Target(k)) /\ Kind(Target(k)) = None
  /\ Add(Target(k), [kind |-> "file", by |-> {}])
  /\ Goes(k, "open")

\* An existing file is opened, and the user is asked.
Ask(k) ==
  /\ Requested(k) /\ ~files[k].empty /\ ~Unsafe(Target(k))
  /\ Kind(Target(k)) = "file"
  /\ Goes(k, "ask")
  /\ UNCHANGED out

Overwrite(k) == /\ phase = "share" /\ state[k] = "ask"
                /\ Goes(k, "open") /\ UNCHANGED out
Keep(k) == /\ phase = "share" /\ state[k] = "ask"
           /\ Goes(k, "kept") /\ UNCHANGED out

\* The entry's content has been written.
Finish(k) ==
  /\ phase = "share" /\ state[k] = "open"
  /\ out' = [out EXCEPT ![Target(k)].by = @ \cup {k}]
  /\ Goes(k, "done")

\* Errors of safe_join_relative_path, create_dir_all, open and create end the
\* receiver's loop, and with it the share.
RequestFails(k) ==
  /\ Requested(k)
  /\ \/ Unsafe(Target(k)) \/ Blocked(Target(k))
     \/ Kind(Target(k)) = IF files[k].empty THEN "file" ELSE "dir"
  /\ phase' = "failed"
  /\ UNCHANGED <<senderVars, state, out>>

Next ==
  \/ PathsExist \/ PathMissing \/ ZipFailed \/ Collect \/ Shutdown
  \/ \E i \in Roots : ZipCheck(i) \/ ZipCreate(i) \/ ZipWrite(i) \/ ZipFails(i)
  \/ \E k \in DOMAIN files :
       \/ MakeDir(k) \/ CreateFile(k) \/ Ask(k) \/ RequestFails(k)
       \/ Overwrite(k) \/ Keep(k) \/ Finish(k)

Spec == Init /\ [][Next]_vars
-----------------------------------------------------------------------------
\* The name under which the receiver sees a given path.
SentName(i) == IF Zipped(share.tree, i) THEN ZipName(i) ELSE share.roots[i].name

\* No two of the paths the user gave are sent under one name, none of them ends
\* in "." or "..", and no name holds a backslash.
Distinct ==
  /\ \A i, j \in Roots : SentName(i) = SentName(j) => i = j
  /\ \A i \in Roots : share.roots[i].name \notin {".", ".."}
  /\ \A p \in DOMAIN share.tree : ToSet(p) \cap DOMAIN Split = {}

\* What can be read at or below a given path, through directories and links.
Readable(i) ==
  LET root == Resolve(share.roots[i]) IN
  {p \in DOMAIN share.tree :
     /\ IsPrefix(root, p)
     /\ \A q \in Prefixes(p) \ {p} : IsPrefix(root, q) => share.tree[q] \in {"dir", "link"}}
\* The files and the empty directories among it.
Wanted(i) ==
  {p \in Readable(i) :
     \/ share.tree[p] = "file"
     \/ /\ share.tree[p] \in {"dir", "link"}
        /\ ~\E q \in DOMAIN share.tree : IsStrictPrefix(p, q)}
\* Where a user looks for it: under the name of the path that was given.
Place(i, p) == SubSeq(p, Len(Resolve(share.roots[i])), Len(p))

\* A share that ran to its end with nothing kept has brought every file and every
\* empty directory that can be read, through links too, to its place, every new
\* file made of the sender's file alone, and nothing besides: unless two given
\* paths end in the same name, or a backslash in a name makes a directory.
ArrivesWhole ==
  /\ phase = "share" /\ ~share.zip /\ Distinct
  /\ \A k \in DOMAIN files : state[k] = "done"
  => /\ \A i \in Roots : \A p \in Wanted(i) :
          LET t == Place(i, p) IN
          /\ Kind(t) = IF share.tree[p] = "file" THEN "file" ELSE "dir"
          /\ Kind(t) = "file" =>
               \E k \in DOMAIN files : files[k].path = p /\ out[t].by \ {0} = {k}
     /\ \A t \in DOMAIN out \ DOMAIN share.old :
          \E i \in Roots : \E p \in Wanted(i) : IsPrefix(t, Place(i, p))

\* Entries of a share never get into each other's way: a question, or an error
\* that ends the receiver, is always about what its directory held before.
OnlyOldInTheWay ==
  Distinct =>
    /\ \A k \in DOMAIN files : state[k] = "ask" => Target(k) \in DOMAIN share.old
    /\ phase = "failed" => \E k \in DOMAIN files : \E t \in Prefixes(Target(k)) :
         t # <<>> /\ t \in DOMAIN share.old

\* What the sender's archive of a root should hold: all of its files that can be
\* read without following a link below it.
Packable(i) ==
  {p \in Readable(i) :
     /\ share.tree[p] = "file"
     /\ \A q \in Prefixes(p) : IsStrictPrefix(Resolve(share.roots[i]), q)
                              => share.tree[q] # "link"}

\* Archives are made by concurrent tasks in the user's own directory: still no file
\* of the user is ever written to or removed, each archive that is sent holds the
\* files of its directory (archives are in the way only if that directory holds the
\* working directory), and after the sender's shutdown its tree is as before.
ArchivesAreSound ==
  /\ \A p \in DOMAIN share.tree : At(tree, p) = share.tree[p] /\ p \notin DOMAIN packed
  /\ phase = "share" /\ Distinct =>
       \A i \in Roots : zipping[i] = "done" /\ ~IsPrefix(Resolve(share.roots[i]), Cwd)
                        => packed[Archive(i)] = Packable(i)
  /\ phase = "closed" /\ Distinct => tree = share.tree
=============================================================================
