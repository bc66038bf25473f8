--------------------------- MODULE FileTreeProofs ---------------------------
(***************************************************************************)
(* The three invariants of FileTree, for every finite tree, every set of   *)
(* given paths and every number of tasks.  The argument follows the share: *)
(* while the archive tasks run, the sender's tree is the user's and the    *)
(* archives, each where the user has nothing (ArchiveInv); from such a     *)
(* tree the list is made, whose paths, given distinct names, the receiver  *)
(* takes as they are and none of which is another's prefix (ListInv);      *)
(* hence each requested entry has its place for itself, and what is new in *)
(* the output directory lies on the way to one of them (OutInv).           *)
(***************************************************************************)
EXTENDS FileTree, FiniteSetTheorems, SequenceTheorems, TLAPS

Path == Seq(Names)

-----------------------------------------------------------------------------
(* Paths and their prefixes.                                               *)

\* A prefix, name by name.
LEMMA PrefixByName ==
  ASSUME NEW p \in Path, NEW q \in Path
  PROVE  IsPrefix(p, q) <=> Len(p) <= Len(q) /\ \A n \in 1..Len(p) : p[n] = q[n]
<1>1. Len(p) \in Nat /\ Len(q) \in Nat /\ p = SubSeq(p, 1, Len(p))
  BY DEF Path
<1>2. ASSUME Len(p) <= Len(q)
      PROVE  SubSeq(p, 1, Len(p)) = SubSeq(q, 1, Len(p)) <=> \A n \in 1..Len(p) : p[n] = q[n]
  BY <1>1, <1>2 DEF Path
<1>3. QED BY <1>1, <1>2 DEF IsPrefix

\* Every path is a prefix of itself, and so is the empty one.
LEMMA PrefixOfItself ==
  ASSUME NEW p \in Path
  PROVE  IsPrefix(p, p) /\ IsPrefix(<<>>, p)
<1>1. <<>> \in Path BY DEF Path
<1>2. Len(p) \in Nat /\ Len(<<>>) = 0 BY DEF Path
<1>3. QED BY <1>1, <1>2, PrefixByName

\* A prefix of a prefix is one.
LEMMA PrefixTransitive ==
  ASSUME NEW p \in Path, NEW q \in Path, NEW r \in Path, IsPrefix(p, q), IsPrefix(q, r)
  PROVE  IsPrefix(p, r)
<1>1. Len(p) \in Nat /\ Len(q) \in Nat /\ Len(r) \in Nat BY DEF Path
<1>2. QED BY <1>1, PrefixByName

\* Two prefixes of one path: one is a prefix of the other.
LEMMA PrefixesCompare ==
  ASSUME NEW p \in Path, NEW q \in Path, NEW r \in Path, IsPrefix(p, r), IsPrefix(q, r)
  PROVE  IsPrefix(p, q) \/ IsPrefix(q, p)
<1>1. Len(p) \in Nat /\ Len(q) \in Nat /\ Len(r) \in Nat BY DEF Path
<1>2. CASE Len(p) <= Len(q) BY <1>1, <1>2, PrefixByName
<1>3. CASE Len(q) <= Len(p) BY <1>1, <1>3, PrefixByName
<1>4. QED BY <1>1, <1>2, <1>3

\* Prefixes of each other are the same.
LEMMA PrefixBothWays ==
  ASSUME NEW p \in Path, NEW q \in Path, IsPrefix(p, q), IsPrefix(q, p)
  PROVE  p = q
<1>1. Len(p) \in Nat /\ Len(q) \in Nat BY DEF Path
<1>2. Len(p) = Len(q) /\ \A n \in 1..Len(p) : p[n] = q[n] BY <1>1, PrefixByName
<1>3. QED BY <1>1, <1>2, SeqEqual DEF Path

\* What Prefixes lists.
LEMMA PrefixesAre ==
  ASSUME NEW p \in Path, NEW q
  PROVE  q \in Prefixes(p) <=> q \in Path /\ IsPrefix(q, p)
<1>1. Len(p) \in Nat BY DEF Path
<1>2. ASSUME NEW l \in 0..Len(p), NEW s, s = SubSeq(p, 1, l)
      PROVE  s \in Path /\ IsPrefix(s, p)
  <2>1. s \in Path BY <1>1, <1>2 DEF Path
  <2>2. Len(s) = l /\ \A n \in 1..l : s[n] = p[n]
    BY <1>1, <1>2 DEF Path
  <2>3. QED BY <1>1, <2>1, <2>2, PrefixByName
<1>3. ASSUME q \in Path, IsPrefix(q, p)
      PROVE  Len(q) \in 0..Len(p) /\ q = SubSeq(p, 1, Len(q))
  <2>1. Len(q) \in Nat /\ q = SubSeq(q, 1, Len(q)) BY <1>3 DEF Path
  <2>2. QED BY <1>1, <1>3, <2>1 DEF IsPrefix
<1>4. QED BY <1>2, <1>3 DEF Prefixes

\* The names of a prefix are names of the path.
LEMMA PrefixNames ==
  ASSUME NEW p \in Path, NEW q \in Path, IsPrefix(p, q)
  PROVE  ToSet(p) \subseteq ToSet(q)
<1>1. Len(p) \in Nat /\ Len(q) \in Nat /\ DOMAIN p = 1..Len(p) /\ DOMAIN q = 1..Len(q) BY DEF Path
<1>2. QED BY <1>1, PrefixByName DEF ToSet

\* Where a path p below the path r arrives: under the last name of r.
Arrival(r, p) == <<r[Len(r)]>> \o SubSeq(p, Len(r) + 1, Len(p))

\* That is what p has from the last name of r on.
LEMMA ArrivalIsEnd ==
  ASSUME NEW r \in Path, r # <<>>, NEW p \in Path, IsPrefix(r, p)
  PROVE  Len(r) \in 1..Len(p) /\ Arrival(r, p) = SubSeq(p, Len(r), Len(p))
<1>1. Len(p) \in Nat /\ Len(r) \in 1..Len(p) /\ r[Len(r)] = p[Len(r)]
  BY PrefixByName DEF Path
<1>2. QED BY <1>1, SubSeqRecursiveFirst DEF Path, Arrival

\* The same, name by name.
LEMMA ArrivalByName ==
  ASSUME NEW r \in Path, r # <<>>, NEW p \in Path, IsPrefix(r, p)
  PROVE  /\ Arrival(r, p) \in Path /\ Len(Arrival(r, p)) = Len(p) - Len(r) + 1
         /\ \A j \in 1..Len(p) - Len(r) + 1 : Arrival(r, p)[j] = p[Len(r) + j - 1]
<1>1. Len(p) \in Nat /\ Len(r) \in 1..Len(p) BY ArrivalIsEnd DEF Path
<1>2. /\ SubSeq(p, Len(r), Len(p)) \in Path
      /\ Len(SubSeq(p, Len(r), Len(p))) = Len(p) - Len(r) + 1
      /\ \A j \in 1..Len(p) - Len(r) + 1 : SubSeq(p, Len(r), Len(p))[j] = p[Len(r) + j - 1]
  BY <1>1 DEF Path
<1>3. QED BY <1>2, ArrivalIsEnd

\* Of two paths below r, only a prefix of the other arrives at a prefix.
LEMMA ArrivalKeepsApart ==
  ASSUME NEW r \in Path, r # <<>>, NEW p \in Path, NEW q \in Path,
         IsPrefix(r, p), IsPrefix(r, q), IsPrefix(Arrival(r, p), Arrival(r, q))
  PROVE  IsPrefix(p, q)
<1> DEFINE s == Arrival(r, p)
           t == Arrival(r, q)
<1>1. /\ s \in Path /\ Len(s) = Len(p) - Len(r) + 1 /\ Len(r) \in 1..Len(p)
      /\ \A j \in 1..Len(p) - Len(r) + 1 : s[j] = p[Len(r) + j - 1]
  BY ArrivalByName, ArrivalIsEnd
<1>2. /\ t \in Path /\ Len(t) = Len(q) - Len(r) + 1 /\ Len(r) \in 1..Len(q)
      /\ \A j \in 1..Len(q) - Len(r) + 1 : t[j] = q[Len(r) + j - 1]
  BY ArrivalByName, ArrivalIsEnd
<1>3. IsPrefix(s, t) OBVIOUS
<1>4. Len(p) \in Nat /\ Len(q) \in Nat /\ Len(r) \in Nat BY DEF Path
<1> HIDE DEF s, t
<1>5. Len(s) <= Len(t) /\ \A j \in 1..Len(s) : s[j] = t[j]
  BY <1>1, <1>2, <1>3, PrefixByName
<1>6. Len(p) <= Len(q)
  BY <1>1, <1>2, <1>4, <1>5
<1>7. \A m \in 1..Len(r) : p[m] = q[m]
  BY <1>4, PrefixByName
<1>8. ASSUME NEW m \in Len(r)..Len(p) PROVE p[m] = q[m]
  <2> DEFINE j == m - Len(r) + 1
  <2>1. j \in 1..Len(p) - Len(r) + 1 /\ j \in 1..Len(q) - Len(r) + 1 /\ Len(r) + j - 1 = m
    BY <1>4, <1>6
  <2> HIDE DEF j
  <2>2. s[j] = p[Len(r) + j - 1] /\ t[j] = q[Len(r) + j - 1] /\ s[j] = t[j]
    BY <1>1, <1>2, <1>5, <2>1
  <2>3. QED BY <2>1, <2>2
<1>9. \A m \in 1..Len(p) : p[m] = q[m] BY <1>4, <1>7, <1>8
<1>10. QED BY <1>6, <1>9, PrefixByName

\* The prefixes of a path with one more name.
LEMMA PrefixOfLonger ==
  ASSUME NEW p \in Path, NEW n \in Names, NEW q \in Path, IsPrefix(q, Append(p, n))
  PROVE  q = Append(p, n) \/ IsPrefix(q, p)
<1> DEFINE l == Append(p, n)
<1>1. l \in Path /\ Len(l) = Len(p) + 1 /\ \A j \in 1..Len(p) : l[j] = p[j]
  BY DEF Path
<1>2. IsPrefix(q, l) OBVIOUS
<1>3. Len(p) \in Nat /\ Len(q) \in Nat BY DEF Path
<1> HIDE DEF l
<1>4. Len(q) <= Len(l) /\ \A j \in 1..Len(q) : q[j] = l[j] BY <1>1, <1>2, PrefixByName
<1>5. CASE Len(q) <= Len(p)
  <2>1. \A j \in 1..Len(q) : q[j] = p[j] BY <1>1, <1>3, <1>4, <1>5
  <2>2. QED BY <1>5, <2>1, PrefixByName
<1>6. CASE Len(q) = Len(l)
  <2>1. q = l BY <1>1, <1>4, <1>6, SeqEqual DEF Path
  <2>2. QED BY <2>1 DEF l
<1>7. Len(q) <= Len(p) \/ Len(q) = Len(l) BY <1>1, <1>3, <1>4
<1>8. QED BY <1>5, <1>6, <1>7

\* In a tree, what a path lies below is there, and is a directory.
LEMMA TreeIsClosed ==
  ASSUME NEW t, NEW kinds, IsTree(t, kinds), NEW p \in DOMAIN t, NEW q \in Path, IsPrefix(q, p)
  PROVE  q \in DOMAIN t /\ (q # p => t[q] \in Dirs)
<1>1. p \in Path BY DEF IsTree, Path
<1>2. q \in Prefixes(p) BY <1>1, PrefixesAre
<1>3. QED BY <1>2 DEF IsTree

-----------------------------------------------------------------------------
(* The archives.                                                           *)

Stages == {"no", "check", "create", "write", "done", "failed", "broken"}
Phases == {"new", "zip", "refused", "share", "failed", "closed"}
Shared == {"share", "failed", "closed"}
Given(i) == Resolve(share.roots[i])
Made(i) == zipping[i] \in {"write", "done", "broken"}

\* The tasks are those of the given directories, and none runs once the share is on.
Zipping ==
  /\ zipping \in [Roots -> Stages]
  /\ phase = "new" => \A i \in Roots : zipping[i] = "no"
  /\ phase \in Shared => \A i \in Roots : zipping[i] \in {"no", "done"}
  /\ \A i \in Roots : zipping[i] # "no" => Zipped(share.tree, i)
  /\ phase \notin {"new", "refused"} =>
       \A i \in Roots : Zipped(share.tree, i) => zipping[i] # "no"

\* The tree is the user's and the archives; none of them is where the user has
\* something.
WithArchives ==
  [p \in DOMAIN share.tree \cup DOMAIN packed |->
     IF p \in DOMAIN share.tree THEN share.tree[p] ELSE "file"]
Untouched ==
  /\ DOMAIN packed = {Archive(i) : i \in {j \in Roots : Made(j)}}
  /\ \A i \in Roots : zipping[i] = "create" \/ Made(i) => Archive(i) \notin DOMAIN share.tree
  /\ phase # "closed" => tree = WithArchives
  /\ phase = "closed" => /\ \A p \in DOMAIN share.tree : At(tree, p) = share.tree[p]
                         /\ Distinct => tree = share.tree

\* An archive is empty when it is created, and is written once.
Packed ==
  Distinct => \A i \in Roots :
    ~IsPrefix(Given(i), Cwd) =>
      /\ zipping[i] = "write" => packed[Archive(i)] = {}
      /\ zipping[i] = "done" => packed[Archive(i)] = Packable(i)

ArchiveInv ==
  share \in Shares /\ phase \in Phases /\ Zipping /\ Untouched /\ Packed

\* What the assumption says of a share.
LEMMA ShareFacts ==
  ASSUME share \in Shares
  PROVE  /\ IsTree(share.tree, Dirs \cup {"file", "other"}) /\ IsTree(share.old, {"dir", "file"})
         /\ Cwd \in DOMAIN share.tree /\ Cwd \in Path /\ share.tree[Cwd] \in Dirs
         /\ share.zip \in BOOLEAN
         /\ DOMAIN share.tree \subseteq Path
         /\ \A i \in Roots : /\ share.roots[i].dir \in Path
                             /\ share.roots[i].name \in DOMAIN ZipOf \cup {".", ".."}
                             /\ ZipName(i) \in Names
                             /\ Archive(i) \in Path /\ IsPrefix(Cwd, Archive(i))
<1> USE FileTreeAssumption
<1>1. IsTree(share.tree, Dirs \cup {"file", "other"}) /\ IsTree(share.old, {"dir", "file"})
      /\ Cwd \in DOMAIN share.tree /\ share.tree[Cwd] \in Dirs /\ share.zip \in BOOLEAN
  OBVIOUS
<1>2. DOMAIN share.tree \subseteq Path BY <1>1 DEF IsTree, Path
<1>3. Cwd \in Path BY <1>1, <1>2
<1>4. ASSUME NEW i \in Roots
      PROVE  /\ share.roots[i].dir \in Path
             /\ share.roots[i].name \in DOMAIN ZipOf \cup {".", ".."}
             /\ ZipName(i) \in Names
             /\ Archive(i) \in Path /\ IsPrefix(Cwd, Archive(i))
  <2> DEFINE Roads == [dir : Path, name : DOMAIN ZipOf \cup {".", ".."}]
  <2>1. share.roots \in Seq(Roads)
    BY DEF Path
  <2> HIDE DEF Roads
  <2>2. share.roots[i] \in Roads
    BY <2>1 DEF Roots
  <2> USE DEF Roads
  <2>3. ZipName(i) \in Names
    BY <2>2 DEF ZipName
  <2>4. /\ Archive(i) \in Path /\ Len(Archive(i)) = Len(Cwd) + 1
        /\ \A j \in 1..Len(Cwd) : Archive(i)[j] = Cwd[j]
    BY <1>3, <2>3 DEF Archive, Path
  <2>5. IsPrefix(Cwd, Archive(i))
    BY <1>3, <2>4, PrefixByName DEF Path
  <2>6. QED BY <2>2, <2>3, <2>4, <2>5
<1>5. QED BY <1>1, <1>2, <1>3, <1>4

\* The sender's tree, before it shuts down.
LEMMA TreeNow ==
  ASSUME share \in Shares, Untouched, phase # "closed"
  PROVE  /\ DOMAIN tree = DOMAIN share.tree \cup DOMAIN packed /\ DOMAIN tree \subseteq Path
         /\ \A p \in DOMAIN share.tree : tree[p] = share.tree[p] /\ p \notin DOMAIN packed
         /\ \A p \in DOMAIN packed : /\ tree[p] = "file"
                                     /\ \E j \in Roots : p = Archive(j)
<1>1. tree = WithArchives BY DEF Untouched
<1>2. DOMAIN tree = DOMAIN share.tree \cup DOMAIN packed
  BY <1>1 DEF WithArchives
<1>3. \A p \in DOMAIN packed : p \notin DOMAIN share.tree /\ \E j \in Roots : p = Archive(j)
  BY DEF Untouched
<1>4. \A p \in DOMAIN packed : p \in Path BY <1>3, ShareFacts
<1>5. DOMAIN share.tree \subseteq Path BY ShareFacts
<1>6. \A p \in DOMAIN tree : tree[p] = IF p \in DOMAIN share.tree THEN share.tree[p] ELSE "file"
  BY <1>1 DEF WithArchives
<1>7. QED BY <1>2, <1>3, <1>4, <1>5, <1>6

\* What a task reads below its directory are the user's files: only a directory
\* that holds the working directory holds archives.
LEMMA WalkIsPackable ==
  ASSUME share \in Shares, Untouched, phase # "closed", NEW i \in Roots,
         Given(i) \in DOMAIN share.tree, ~IsPrefix(Given(i), Cwd)
  PROVE  {p \in Walk(Given(i), {"dir"}) : tree[p] = "file"} = Packable(i)
<1> DEFINE root == Given(i)
           walk == Walk(root, {"dir"})
<1>1. root \in Path /\ ~IsPrefix(root, Cwd) /\ root \in DOMAIN share.tree BY ShareFacts
<1>2. ASSUME NEW p \in walk, tree[p] = "file" PROVE p \in Packable(i)
  <2>1. /\ p \in DOMAIN tree /\ p \in Path /\ IsPrefix(root, p)
        /\ \A q \in DOMAIN tree : IsPrefix(root, q) /\ IsStrictPrefix(q, p)
             => tree[q] \in {"dir"} \cup (IF q = root THEN {"link"} ELSE {})
    BY <1>2, TreeNow DEF Walk
  <2>2. p \notin DOMAIN packed
    <3>1. SUFFICES ASSUME NEW j \in Roots, p = Archive(j), p \in DOMAIN packed PROVE FALSE
      BY TreeNow
    <3>2. root = p \/ IsPrefix(root, Cwd)
      BY <1>1, <2>1, <3>1, ShareFacts, PrefixOfLonger DEF Archive
    <3>3. QED BY <1>1, <3>1, <3>2, TreeNow
  <2>3. p \in DOMAIN share.tree /\ share.tree[p] = "file" BY <1>2, <2>1, <2>2, TreeNow
  <2>4. ASSUME NEW q \in Prefixes(p), q # p, IsPrefix(root, q)
        PROVE  share.tree[q] = "dir" \/ (q = root /\ share.tree[q] = "link")
    <3>1. q \in Path /\ IsPrefix(q, p) BY <2>1, <2>4, PrefixesAre
    <3>2. q \in DOMAIN share.tree BY <2>3, <3>1, ShareFacts, TreeIsClosed
    <3>3. q \in DOMAIN tree /\ tree[q] = share.tree[q] BY <3>2, TreeNow
    <3>4. IsStrictPrefix(q, p) BY <2>4, <3>1 DEF IsStrictPrefix
    <3>5. QED BY <2>1, <2>4, <3>3, <3>4
  <2>5. p \in Readable(i) BY <2>1, <2>3, <2>4 DEF Readable, Given
  <2>6. ASSUME NEW q \in Prefixes(p), IsStrictPrefix(root, q) PROVE share.tree[q] # "link"
    <3>1. IsPrefix(root, q) /\ q # root BY <2>6 DEF IsStrictPrefix
    <3>2. QED BY <2>3, <2>4, <2>6, <3>1
  <2>7. QED BY <2>3, <2>5, <2>6 DEF Packable, Given
<1>3. ASSUME NEW p \in Packable(i) PROVE p \in walk /\ tree[p] = "file"
  <2>1. /\ p \in DOMAIN share.tree /\ p \in Path /\ IsPrefix(root, p) /\ share.tree[p] = "file"
        /\ \A q \in Prefixes(p) \ {p} : IsPrefix(root, q) => share.tree[q] \in {"dir", "link"}
        /\ \A q \in Prefixes(p) : IsStrictPrefix(root, q) => share.tree[q] # "link"
    BY ShareFacts DEF Packable, Readable, Given
  <2>2. p \in DOMAIN tree /\ tree[p] = "file" BY <2>1, TreeNow
  <2>3. ASSUME NEW q \in DOMAIN tree, IsPrefix(root, q), IsStrictPrefix(q, p)
        PROVE  tree[q] \in {"dir"} \cup (IF q = root THEN {"link"} ELSE {})
    <3>1. q \in Path /\ IsPrefix(q, p) /\ q # p BY <2>3, TreeNow DEF IsStrictPrefix
    <3>2. q \in Prefixes(p) BY <2>1, <3>1, PrefixesAre
    <3>3. q \in DOMAIN share.tree BY <2>1, <3>1, ShareFacts, TreeIsClosed
    <3>4. tree[q] = share.tree[q] /\ share.tree[q] \in {"dir", "link"}
      BY <2>1, <2>3, <3>1, <3>2, <3>3, TreeNow
    <3>5. q # root => share.tree[q] # "link" BY <2>1, <2>3, <3>2 DEF IsStrictPrefix
    <3>6. QED BY <3>4, <3>5
  <2>4. QED BY <2>1, <2>2, <2>3 DEF Walk
<1>4. QED BY <1>2, <1>3

\* What speaks of the share alone stays.
LEMMA ShareStays ==
  ASSUME share' = share
  PROVE  /\ Distinct' = Distinct /\ Roots' = Roots
         /\ \A i \in Roots : /\ Given(i)' = Given(i) /\ Archive(i)' = Archive(i)
                             /\ Packable(i)' = Packable(i) /\ Readable(i)' = Readable(i)
                             /\ Wanted(i)' = Wanted(i)
                             /\ SentName(i)' = SentName(i)
                             /\ Zipped(share.tree, i)' = Zipped(share.tree, i)
  BY DEF Distinct, Roots, Given, Archive, Packable, Readable, Wanted, SentName, Zipped, IsDir, ZipName

\* Given paths that become archives are in the tree.
LEMMA ZippedIsThere ==
  ASSUME NEW i \in Roots, Zipped(share.tree, i)
  PROVE  Given(i) \in DOMAIN share.tree
  BY DEF Zipped, IsDir, Given, At, None, Dirs

\* Under Distinct, two given directories get two archives.
LEMMA ArchivesDiffer ==
  ASSUME share \in Shares, Distinct, NEW i \in Roots, NEW j \in Roots,
         Zipped(share.tree, i), Zipped(share.tree, j), Archive(i) = Archive(j)
  PROVE  i = j
<1>1. Cwd \in Path /\ ZipName(i) \in Names /\ ZipName(j) \in Names BY ShareFacts
<1>2. ZipName(i) = ZipName(j)
  <2>1. Archive(i)[Len(Cwd) + 1] = ZipName(i) /\ Archive(j)[Len(Cwd) + 1] = ZipName(j)
    BY <1>1 DEF Archive, Path
  <2>2. QED BY <2>1
<1>3. QED BY <1>2 DEF Distinct, SentName

\* At the start there are no archives.
LEMMA InitArchives == Init => ArchiveInv
<1> SUFFICES ASSUME Init PROVE ArchiveInv OBVIOUS
<1>1. share \in Shares /\ phase \in Phases BY DEF Init, Phases
<1>2. Zipping BY DEF Init, Zipping, Stages, Shared
<1>3. Untouched
  <2>1. DOMAIN packed = {} BY DEF Init
  <2>2. tree = [p \in DOMAIN share.tree |-> share.tree[p]]
    BY <1>1, ShareFacts DEF Init, IsTree
  <2>3. tree = WithArchives BY <2>1, <2>2 DEF WithArchives
  <2>4. \A i \in Roots : zipping[i] = "no" BY DEF Init
  <2>5. QED BY <2>1, <2>3, <2>4 DEF Init, Untouched, Made
<1>4. Packed BY DEF Init, Packed
<1>5. QED BY <1>1, <1>2, <1>3, <1>4 DEF ArchiveInv

\* The receiver takes no part in it, nor do steps that change nothing of the sender.
LEMMA OthersArchives ==
  ASSUME ArchiveInv, UNCHANGED senderVars,
         \/ phase' = phase \/ (phase = "new" /\ phase' = "refused")
         \/ (phase = "zip" /\ phase' = "refused") \/ (phase = "share" /\ phase' = "failed")
  PROVE  ArchiveInv'
<1>1. share' = share /\ tree' = tree /\ packed' = packed /\ zipping' = zipping BY DEF senderVars
<1>2. share' \in Shares /\ phase' \in Phases BY <1>1 DEF ArchiveInv, Phases
<1>3. Zipping' BY <1>1, ShareStays DEF ArchiveInv, Zipping, Shared
<1>4. Untouched'
  BY <1>1, ShareStays DEF ArchiveInv, Untouched, WithArchives, Made
<1>5. Packed' BY <1>1, ShareStays DEF ArchiveInv, Packed
<1>6. QED BY <1>2, <1>3, <1>4, <1>5 DEF ArchiveInv

\* Tasks start for the given directories, none has an archive yet.
LEMMA PathsExistArchives == ArchiveInv /\ PathsExist => ArchiveInv'
<1> SUFFICES ASSUME ArchiveInv, PathsExist PROVE ArchiveInv' OBVIOUS
<1>1. /\ share' = share /\ tree' = tree /\ packed' = packed /\ phase = "new" /\ phase' = "zip"
      /\ zipping' = [i \in Roots |-> IF Zipped(tree, i) THEN "check" ELSE "no"]
  BY DEF PathsExist
<1>2. DOMAIN packed = {} /\ tree = share.tree
  <2>1. DOMAIN packed = {} BY <1>1 DEF ArchiveInv, Untouched, Zipping, Made
  <2>2. tree = [p \in DOMAIN share.tree |-> share.tree[p]]
    BY <1>1, <2>1 DEF ArchiveInv, Untouched, WithArchives
  <2>3. QED BY <2>1, <2>2, ShareFacts DEF ArchiveInv, IsTree
<1>3. \A i \in Roots : zipping'[i] = IF Zipped(share.tree, i) THEN "check" ELSE "no"
  BY <1>1, <1>2
<1>4. share' \in Shares /\ phase' \in Phases BY <1>1 DEF ArchiveInv, Phases
<1>5. Zipping'
  <2>1. zipping' \in [Roots -> Stages] BY <1>1 DEF Stages
  <2>2. QED BY <1>1, <1>3, <2>1, ShareStays DEF Zipping, Shared
<1>6. Untouched'
  <2>1. \A i \in Roots : ~(zipping'[i] = "create" \/ zipping'[i] \in {"write", "done", "broken"}) BY <1>3
  <2>2. DOMAIN packed' = {Archive(i)' : i \in {j \in Roots' : Made(j)'}}
    BY <1>1, <1>2, <2>1, ShareStays DEF Made
  <2>3. tree' = WithArchives' BY <1>1 DEF ArchiveInv, Untouched, WithArchives
  <2>4. QED BY <1>1, <2>1, <2>2, <2>3, ShareStays DEF Untouched, Made
<1>7. Packed' BY <1>1, <1>3, ShareStays DEF Packed
<1>8. QED BY <1>4, <1>5, <1>6, <1>7 DEF ArchiveInv

\* The look for a file of the archive's name.
LEMMA CheckArchives ==
  ASSUME ArchiveInv, NEW i \in Roots, ZipCheck(i)
  PROVE  ArchiveInv'
<1>1. /\ share' = share /\ tree' = tree /\ packed' = packed
      /\ phase \in {"zip", "refused"} /\ phase' = phase
      /\ zipping[i] = "check"
      /\ zipping' = [zipping EXCEPT ![i] = IF Archive(i) \in DOMAIN tree THEN "failed" ELSE "create"]
  BY DEF ZipCheck, ZipStep
<1>2. share' \in Shares /\ phase' \in Phases BY <1>1 DEF ArchiveInv
<1>3. Zipping'
  BY <1>1, ShareStays DEF ArchiveInv, Zipping, Stages, Shared
<1>4. zipping' \in [Roots -> Stages] /\ zipping \in [Roots -> Stages]
  BY <1>1, <1>3, ShareStays DEF ArchiveInv, Zipping
<1>5. \A j \in Roots : Made(j)' <=> Made(j) BY <1>1, <1>4 DEF Made
<1>6. Untouched'
  <2>1. DOMAIN packed' = {Archive(j)' : j \in {j \in Roots' : Made(j)'}}
    BY <1>1, <1>5, ShareStays DEF ArchiveInv, Untouched
  <2>2. zipping'[i] = "create" => Archive(i) \notin DOMAIN share.tree
    BY <1>1, <1>4, TreeNow DEF ArchiveInv
  <2>3. \A j \in Roots : zipping'[j] = "create" \/ Made(j)' => Archive(j) \notin DOMAIN share.tree
    BY <1>1, <1>4, <1>5, <2>2 DEF ArchiveInv, Untouched
  <2>4. tree' = WithArchives' BY <1>1 DEF ArchiveInv, Untouched, WithArchives
  <2>5. QED BY <1>1, <2>1, <2>3, <2>4, ShareStays DEF Untouched
<1>7. Packed'
  <2>1. \A j \in Roots : zipping'[j] \in {"write", "done"} => zipping'[j] = zipping[j]
    BY <1>1, <1>4
  <2>2. QED BY <1>1, <2>1, ShareStays DEF ArchiveInv, Packed
<1>8. QED BY <1>2, <1>3, <1>6, <1>7 DEF ArchiveInv

\* An archive comes into being where the user has nothing.
LEMMA CreateArchives ==
  ASSUME ArchiveInv, NEW i \in Roots, ZipCreate(i)
  PROVE  ArchiveInv'
<1>1. /\ share' = share /\ phase \in {"zip", "refused"} /\ phase' = phase /\ zipping[i] = "create"
      /\ zipping' = [zipping EXCEPT ![i] = "write"]
      /\ tree' = Set(tree, Archive(i), "file") /\ packed' = Set(packed, Archive(i), {})
  BY DEF ZipCreate, ZipStep
<1>2. share' \in Shares /\ phase' \in Phases BY <1>1 DEF ArchiveInv
<1>3. Zipping'
  BY <1>1, ShareStays DEF ArchiveInv, Zipping, Stages, Shared
<1>4. zipping' \in [Roots -> Stages] /\ zipping \in [Roots -> Stages]
  BY <1>1, <1>3, ShareStays DEF ArchiveInv, Zipping
<1>5. \A j \in Roots : Made(j)' <=> Made(j) \/ j = i BY <1>1, <1>4 DEF Made
<1>6. DOMAIN packed' = DOMAIN packed \cup {Archive(i)} BY <1>1 DEF Set
<1>7. Untouched'
  <2>1. DOMAIN packed' = {Archive(j) : j \in {j \in Roots : Made(j) \/ j = i}}
    BY <1>6 DEF ArchiveInv, Untouched
  <2>2. DOMAIN packed' = {Archive(j)' : j \in {j \in Roots' : Made(j)'}}
    BY <1>1, <1>5, <2>1, ShareStays
  <2>3. Archive(i) \notin DOMAIN share.tree BY <1>1 DEF ArchiveInv, Untouched
  <2>4. \A j \in Roots : zipping'[j] = "create" \/ Made(j)' => Archive(j) \notin DOMAIN share.tree
    BY <1>1, <1>4, <1>5, <2>3 DEF ArchiveInv, Untouched
  <2>5. tree' = WithArchives'
    <3>1. tree = [p \in DOMAIN share.tree \cup DOMAIN packed |->
                    IF p \in DOMAIN share.tree THEN share.tree[p] ELSE "file"]
      BY <1>1 DEF ArchiveInv, Untouched, WithArchives
    <3>2. tree' = [p \in DOMAIN share.tree \cup DOMAIN packed' |->
                     IF p \in DOMAIN share.tree THEN share.tree[p] ELSE "file"]
      BY <1>1, <1>6, <2>3, <3>1 DEF Set
    <3>3. QED BY <1>1, <3>2 DEF WithArchives
  <2>6. QED BY <1>1, <2>2, <2>4, <2>5, ShareStays DEF Untouched
<1>8. Packed'
  <2>1. SUFFICES ASSUME Distinct, NEW j \in Roots, ~IsPrefix(Given(j), Cwd)
                 PROVE  /\ zipping'[j] = "write" => packed'[Archive(j)] = {}
                        /\ zipping'[j] = "done" => packed'[Archive(j)] = Packable(j)
    BY <1>1, ShareStays DEF Packed
  <2>2. CASE j = i
    BY <1>1, <1>4, <2>2 DEF Set
  <2>3. CASE j # i /\ Made(j)
    <3>1. Archive(j) # Archive(i)
      BY <1>1, <2>1, <2>3, ArchivesDiffer DEF ArchiveInv, Zipping, Made
    <3>2. Archive(j) \in DOMAIN packed BY <2>3 DEF ArchiveInv, Untouched
    <3>3. packed'[Archive(j)] = packed[Archive(j)] BY <1>1, <3>1, <3>2 DEF Set
    <3>4. QED BY <1>1, <1>4, <2>1, <2>3, <3>3 DEF ArchiveInv, Packed
  <2>4. CASE j # i /\ ~Made(j)
    BY <1>1, <1>4, <2>4 DEF Made
  <2>5. QED BY <2>2, <2>3, <2>4
<1>9. QED BY <1>2, <1>3, <1>7, <1>8 DEF ArchiveInv

\* An archive takes in the files of its directory, or its task fails while it does.
LEMMA WriteArchives ==
  ASSUME ArchiveInv, NEW i \in Roots, NEW to \in {"done", "broken"}, ZipStep(i, "write", to),
         NEW some, Pack(i, some), to = "done" => some = ToPack(i)
  PROVE  ArchiveInv'
<1>1. /\ share' = share /\ phase \in {"zip", "refused"} /\ phase' = phase /\ zipping[i] = "write"
      /\ zipping' = [zipping EXCEPT ![i] = to] /\ tree' = tree
      /\ packed' = [packed EXCEPT ![Archive(i)] = packed[Archive(i)] \cup some]
  BY DEF ZipStep, Pack
<1>2. share' \in Shares /\ phase' \in Phases BY <1>1 DEF ArchiveInv
<1>3. Zipping'
  BY <1>1, ShareStays DEF ArchiveInv, Zipping, Stages, Shared
<1>4. zipping' \in [Roots -> Stages] /\ zipping \in [Roots -> Stages]
  BY <1>1, <1>3, ShareStays DEF ArchiveInv, Zipping
<1>5. \A j \in Roots : Made(j)' <=> Made(j) BY <1>1, <1>4 DEF Made
<1>6. DOMAIN packed' = DOMAIN packed BY <1>1
<1>7. Untouched'
  <2>1. DOMAIN packed' = {Archive(j)' : j \in {j \in Roots' : Made(j)'}}
    BY <1>1, <1>5, <1>6, ShareStays DEF ArchiveInv, Untouched
  <2>2. \A j \in Roots : zipping'[j] = "create" \/ Made(j)' => Archive(j) \notin DOMAIN share.tree
    BY <1>1, <1>4, <1>5 DEF ArchiveInv, Untouched
  <2>3. tree' = WithArchives' BY <1>1, <1>6 DEF ArchiveInv, Untouched, WithArchives
  <2>4. QED BY <1>1, <2>1, <2>2, <2>3, ShareStays DEF Untouched
<1>8. Packed'
  <2>1. SUFFICES ASSUME Distinct, NEW j \in Roots, ~IsPrefix(Given(j), Cwd)
                 PROVE  /\ zipping'[j] = "write" => packed'[Archive(j)] = {}
                        /\ zipping'[j] = "done" => packed'[Archive(j)] = Packable(j)
    BY <1>1, ShareStays DEF Packed
  <2>2. CASE j = i /\ to = "done"
    <3>1. Given(i) \in DOMAIN share.tree
      BY <1>1, ZippedIsThere DEF ArchiveInv, Zipping
    <3>2. ToPack(i) = Packable(i)
      BY <1>1, <2>1, <2>2, <3>1, WalkIsPackable DEF ArchiveInv, ToPack, Given
    <3>3. packed[Archive(i)] = {} /\ Archive(i) \in DOMAIN packed
      BY <1>1, <2>1, <2>2 DEF ArchiveInv, Packed, Untouched, Made
    <3>4. packed'[Archive(i)] = Packable(i) /\ zipping'[i] = "done"
      BY <1>1, <1>4, <2>2, <3>2, <3>3
    <3>5. QED BY <2>2, <3>4
  <2>3. CASE j # i /\ Made(j)
    <3>1. Archive(j) # Archive(i)
      BY <1>1, <2>1, <2>3, ArchivesDiffer DEF ArchiveInv, Zipping, Made
    <3>2. Archive(j) \in DOMAIN packed BY <2>3 DEF ArchiveInv, Untouched
    <3>3. packed'[Archive(j)] = packed[Archive(j)] BY <1>1, <3>1, <3>2
    <3>4. QED BY <1>1, <1>4, <2>1, <2>3, <3>3 DEF ArchiveInv, Packed
  <2>4. CASE j # i /\ ~Made(j)
    BY <1>1, <1>4, <2>4 DEF Made
  <2>5. CASE j = i /\ to = "broken" BY <1>1, <1>4, <2>5
  <2>6. QED BY <2>2, <2>3, <2>4, <2>5
<1>9. QED BY <1>2, <1>3, <1>7, <1>8 DEF ArchiveInv

\* An archive cannot be created.
LEMMA NotCreated ==
  ASSUME ArchiveInv, NEW i \in Roots, ZipStep(i, "create", "failed"), UNCHANGED <<tree, packed>>
  PROVE  ArchiveInv'
<1>1. /\ share' = share /\ tree' = tree /\ packed' = packed
      /\ phase \in {"zip", "refused"} /\ phase' = phase
      /\ zipping[i] = "create" /\ zipping' = [zipping EXCEPT ![i] = "failed"]
  BY DEF ZipStep
<1>2. share' \in Shares /\ phase' \in Phases BY <1>1 DEF ArchiveInv
<1>3. Zipping'
  BY <1>1, ShareStays DEF ArchiveInv, Zipping, Stages, Shared
<1>4. zipping' \in [Roots -> Stages] /\ zipping \in [Roots -> Stages]
  BY <1>1, <1>3, ShareStays DEF ArchiveInv, Zipping
<1>5. \A j \in Roots : (Made(j)' <=> Made(j)) /\ (zipping'[j] = "create" => zipping[j] = "create")
  BY <1>1, <1>4 DEF Made
<1>6. Untouched'
  <2>1. DOMAIN packed' = {Archive(j)' : j \in {j \in Roots' : Made(j)'}}
    BY <1>1, <1>5, ShareStays DEF ArchiveInv, Untouched
  <2>2. \A j \in Roots : zipping'[j] = "create" \/ Made(j)' => Archive(j) \notin DOMAIN share.tree
    BY <1>5 DEF ArchiveInv, Untouched
  <2>3. tree' = WithArchives' BY <1>1 DEF ArchiveInv, Untouched, WithArchives
  <2>4. QED BY <1>1, <2>1, <2>2, <2>3, ShareStays DEF Untouched
<1>7. Packed'
  <2>1. \A j \in Roots : zipping'[j] \in {"write", "done"} => zipping'[j] = zipping[j]
    BY <1>1, <1>4
  <2>2. QED BY <1>1, <2>1, ShareStays DEF ArchiveInv, Packed
<1>8. QED BY <1>2, <1>3, <1>6, <1>7 DEF ArchiveInv

\* The list is made when no task runs.
LEMMA CollectArchives == ArchiveInv /\ Collect => ArchiveInv'
<1> SUFFICES ASSUME ArchiveInv, Collect PROVE ArchiveInv' OBVIOUS
<1>1. /\ share' = share /\ tree' = tree /\ packed' = packed /\ zipping' = zipping
      /\ phase = "zip" /\ phase' = "share" /\ \A i \in Roots : zipping[i] \in {"no", "done"}
  BY DEF Collect
<1>2. share' \in Shares /\ phase' \in Phases BY <1>1 DEF ArchiveInv, Phases
<1>3. Zipping' BY <1>1, ShareStays DEF ArchiveInv, Zipping
<1>4. Untouched' BY <1>1, ShareStays DEF ArchiveInv, Untouched, WithArchives, Made
<1>5. Packed' BY <1>1, ShareStays DEF ArchiveInv, Packed
<1>6. QED BY <1>2, <1>3, <1>4, <1>5 DEF ArchiveInv

\* What the sender removes are archives, under Distinct all of them.
LEMMA ShutdownArchives == ArchiveInv /\ Shutdown => ArchiveInv'
<1> SUFFICES ASSUME ArchiveInv, Shutdown PROVE ArchiveInv' OBVIOUS
<1>1. /\ share' = share /\ packed' = packed /\ zipping' = zipping /\ phase \in {"share", "failed"}
      /\ phase' = "closed" /\ tree' = [p \in DOMAIN tree \ Cleaned |-> tree[p]]
  BY DEF Shutdown
<1>2. share' \in Shares /\ phase' \in Phases BY <1>1 DEF ArchiveInv, Phases
<1>3. Zipping' BY <1>1, ShareStays DEF ArchiveInv, Zipping, Shared
<1>4. Cleaned \subseteq DOMAIN packed BY DEF ArchiveInv, Untouched, Cleaned, Made
<1>5. \A p \in DOMAIN share.tree : p \in DOMAIN tree' /\ tree'[p] = share.tree[p]
  BY <1>1, <1>4, TreeNow DEF ArchiveInv
<1>6. ASSUME Distinct PROVE tree' = share.tree
  <2>1. \A i \in Roots : Made(i) => zipping[i] = "done" /\ Zipped(share.tree, i)
    BY <1>1 DEF ArchiveInv, Zipping, Shared, Made
  <2>2. ASSUME NEW i \in Roots, Made(i) PROVE Archive(i) \in Cleaned
    <3>1. ASSUME NEW j \in 1..i, NEW k \in 1..i, zipping[j] = "done", zipping[k] = "done", j # k
          PROVE  Archive(j) # Archive(k)
      <4>1. j \in Roots /\ k \in Roots
        BY <1>2, <2>2, FileTreeAssumption DEF Roots, ArchiveInv
      <4>2. QED BY <1>6, <2>1, <3>1, <4>1, ArchivesDiffer DEF ArchiveInv, Made
    <3>2. QED BY <2>1, <2>2, <3>1 DEF Cleaned
  <2>3. DOMAIN packed = Cleaned BY <1>4, <2>2 DEF ArchiveInv, Untouched
  <2>4. DOMAIN tree \ Cleaned = DOMAIN share.tree
    BY <1>1, <2>3, TreeNow DEF ArchiveInv
  <2>5. tree' = [p \in DOMAIN share.tree |-> share.tree[p]]
    BY <1>1, <2>4, TreeNow DEF ArchiveInv
  <2>6. QED BY <2>5, ShareFacts DEF ArchiveInv, IsTree
<1>7. Untouched'
  BY <1>1, <1>5, <1>6, ShareStays DEF ArchiveInv, Untouched, Made, At
<1>8. Packed' BY <1>1, ShareStays DEF ArchiveInv, Packed
<1>9. QED BY <1>2, <1>3, <1>7, <1>8 DEF ArchiveInv

\* A receiver's step, seen from the sender.
LEMMA ReceiverKeeps ==
  ASSUME NEW k \in DOMAIN files,
         \/ MakeDir(k) \/ CreateFile(k) \/ Ask(k) \/ RequestFails(k)
         \/ Overwrite(k) \/ Keep(k) \/ Finish(k)
  PROVE  /\ UNCHANGED senderVars
         /\ phase' = phase \/ (phase = "share" /\ phase' = "failed")
  BY DEF MakeDir, CreateFile, Ask, RequestFails, Overwrite, Keep, Finish, Goes, Requested

\* The invariant is inductive.
LEMMA NextArchives == ArchiveInv /\ [Next]_vars => ArchiveInv'
<1> SUFFICES ASSUME ArchiveInv, [Next]_vars PROVE ArchiveInv' OBVIOUS
<1>1. CASE PathMissing \/ ZipFailed
  BY <1>1, OthersArchives DEF PathMissing, ZipFailed
<1>2. CASE PathsExist \/ Collect \/ Shutdown
  BY <1>2, PathsExistArchives, CollectArchives, ShutdownArchives
<1>3. ASSUME NEW i \in Roots, ZipCheck(i) \/ ZipCreate(i) \/ ZipWrite(i) \/ ZipFails(i)
      PROVE  ArchiveInv'
  <2>1. CASE ZipCheck(i) \/ ZipCreate(i) BY <2>1, CheckArchives, CreateArchives
  <2>2. CASE ZipWrite(i) BY <2>2, WriteArchives DEF ZipWrite
  <2>3. CASE ZipFails(i) BY <2>3, WriteArchives, NotCreated DEF ZipFails
  <2>4. QED BY <1>3, <2>1, <2>2, <2>3
<1>4. ASSUME NEW k \in DOMAIN files,
             \/ MakeDir(k) \/ CreateFile(k) \/ Ask(k) \/ RequestFails(k)
             \/ Overwrite(k) \/ Keep(k) \/ Finish(k)
      PROVE  ArchiveInv'
  BY <1>4, ReceiverKeeps, OthersArchives
<1>5. CASE UNCHANGED vars
  BY <1>5, OthersArchives DEF vars
<1>6. QED BY <1>1, <1>2, <1>3, <1>4, <1>5 DEF Next

\* Hence it holds in every reachable state.
LEMMA AlwaysArchives == Spec => []ArchiveInv
  BY InitArchives, NextArchives, PTL DEF Spec

\* However the archive tasks interleave, and whichever of them fails: no file of the
\* user is written to or removed; under Distinct each archive that is sent holds the
\* files of its directory, and after the shutdown the tree is as before.
THEOREM ArchivesStaySound == Spec => []ArchivesAreSound
<1>1. ArchiveInv => ArchivesAreSound
  <2> SUFFICES ASSUME ArchiveInv PROVE ArchivesAreSound OBVIOUS
  <2>1. ASSUME NEW p \in DOMAIN share.tree PROVE At(tree, p) = share.tree[p] /\ p \notin DOMAIN packed
    <3>1. p \notin DOMAIN packed BY DEF ArchiveInv, Untouched, Made
    <3>2. CASE phase = "closed" BY <3>1, <3>2 DEF ArchiveInv, Untouched
    <3>3. CASE phase # "closed" BY <3>1, <3>3, TreeNow DEF ArchiveInv, At
    <3>4. QED BY <3>2, <3>3
  <2>2. QED BY <2>1 DEF ArchiveInv, Untouched, Packed, ArchivesAreSound, Given
<1>2. QED BY <1>1, AlwaysArchives, PTL

-----------------------------------------------------------------------------
(* The list.                                                               *)

\* What the sender walks for the i-th path: below it, and with what name.
Walked(i) == Resolve(Sent(i))

\* A path the receiver takes as it is.
Harmless(path) ==
  path \in Path /\ path # <<>> /\ Plain(path) /\ ~Unsafe(path)

\* The sender is about to make its list.
Ready == ArchiveInv /\ phase = "zip" /\ \A i \in Roots : zipping[i] \in {"no", "done"}

\* The name of what is walked is the one under which it is sent.
LEMMA WalkedName ==
  ASSUME Ready, Distinct, NEW i \in Roots
  PROVE  /\ Walked(i) \in Path /\ Walked(i) # <<>>
         /\ Walked(i)[Len(Walked(i))] = SentName(i) /\ Sent(i).name = SentName(i)
<1> DEFINE dir == Sent(i).dir
           name == Sent(i).name
<1>1. dir \in Path /\ name \in Names /\ name = SentName(i) /\ name \notin {".", ".."}
  <2> USE FileTreeAssumption
  <2>1. CASE zipping[i] = "done"
    <3>1. Zipped(share.tree, i) BY <2>1 DEF Ready, ArchiveInv, Zipping
    <3>2. dir = Cwd /\ name = ZipName(i) BY <2>1 DEF Sent
    <3>3. name \in Names /\ dir \in Path BY <3>2, ShareFacts DEF Ready, ArchiveInv
    <3>4. QED BY <3>1, <3>2, <3>3 DEF SentName
  <2>2. CASE zipping[i] = "no"
    <3>1. ~Zipped(share.tree, i) BY <2>2 DEF Ready, ArchiveInv, Zipping
    <3>2. dir = share.roots[i].dir /\ name = share.roots[i].name BY <2>2 DEF Sent
    <3>3. name \notin {".", ".."} BY <3>2 DEF Distinct
    <3>4. name \in Names /\ dir \in Path BY <3>2, <3>3, ShareFacts DEF Ready, ArchiveInv
    <3>5. QED BY <3>1, <3>2, <3>3, <3>4 DEF SentName
  <2>3. QED BY <2>1, <2>2 DEF Ready
<1> HIDE DEF dir, name
<1>2. Walked(i) = Append(dir, name) BY <1>1 DEF Walked, Resolve, dir, name
<1>3. /\ Append(dir, name) \in Path /\ Len(Append(dir, name)) = Len(dir) + 1
      /\ Append(dir, name)[Len(dir) + 1] = name /\ Append(dir, name) # <<>>
  BY <1>1, AppendProperties DEF Path
<1>4. QED BY <1>1, <1>2, <1>3 DEF name

\* Under Distinct no name in the sender's tree holds a backslash, nor one of an archive.
LEMMA TreeIsPlain ==
  ASSUME Ready, Distinct, NEW p \in DOMAIN tree
  PROVE  p \in Path /\ Plain(p) /\ ".." \notin ToSet(p)
<1> USE FileTreeAssumption
<1>1. p \in Path BY TreeNow DEF Ready, ArchiveInv
<1>2. ToSet(p) \subseteq Names BY <1>1 DEF Path, ToSet
<1>3. ToSet(p) \cap DOMAIN Split = {}
  <2>1. CASE p \in DOMAIN share.tree BY <2>1 DEF Distinct
  <2>2. CASE p \in DOMAIN packed
    <3>1. PICK j \in Roots : p = Archive(j) /\ Made(j) BY <2>2 DEF Ready, ArchiveInv, Untouched
    <3>2. Given(j) \in DOMAIN share.tree
      BY <3>1, ZippedIsThere DEF Ready, ArchiveInv, Zipping, Made
    <3> DEFINE dir == share.roots[j].dir
               name == share.roots[j].name
    <3>3. dir \in Path /\ name \in DOMAIN ZipOf /\ name \in Names
      BY ShareFacts DEF Ready, ArchiveInv, Distinct
    <3>4. Given(j) = Append(dir, name) BY DEF Given, Resolve, Distinct
    <3> HIDE DEF dir, name
    <3>5. name \in ToSet(Append(dir, name))
      <4>1. /\ Append(dir, name) \in Path /\ Len(Append(dir, name)) = Len(dir) + 1
            /\ Append(dir, name)[Len(dir) + 1] = name
        BY <3>3, AppendProperties DEF Path
      <4>2. Len(dir) + 1 \in DOMAIN Append(dir, name) BY <3>3, <4>1 DEF Path
      <4>3. QED BY <4>1, <4>2 DEF ToSet
    <3>6. name \notin DOMAIN Split BY <3>2, <3>4, <3>5 DEF Distinct
    <3>7. ZipName(j) = ZipOf[name] BY DEF ZipName, Distinct, name
    <3>8. ZipName(j) \notin DOMAIN Split /\ ZipName(j) \in Names BY <3>3, <3>6, <3>7
    <3>9. Cwd \in Path /\ ToSet(Cwd) \cap DOMAIN Split = {}
      BY ShareFacts DEF Ready, ArchiveInv, Distinct
    <3>10. \A n \in DOMAIN p : p[n] = ZipName(j) \/ p[n] \in ToSet(Cwd)
      <4>1. /\ p \in Path /\ Len(p) = Len(Cwd) + 1 /\ p[Len(Cwd) + 1] = ZipName(j)
            /\ \A n \in 1..Len(Cwd) : p[n] = Cwd[n]
        BY <3>1, <3>8, <3>9, AppendProperties DEF Path, Archive
      <4>2. DOMAIN p = 1..Len(Cwd) + 1 /\ DOMAIN Cwd = 1..Len(Cwd) /\ Len(Cwd) \in Nat
        BY <3>9, <4>1 DEF Path
      <4>3. QED BY <4>1, <4>2 DEF ToSet
    <3>11. QED BY <3>8, <3>9, <3>10 DEF ToSet
  <2>3. QED BY <2>1, <2>2, TreeNow DEF Ready, ArchiveInv
<1>4. QED BY <1>1, <1>2, <1>3 DEF Plain

\* In the sender's tree too, what has something below it is a directory.
LEMMA TreeNowIsClosed ==
  ASSUME Ready, NEW p \in DOMAIN tree, NEW q \in Path, IsPrefix(q, p), q # p
  PROVE  q \in DOMAIN tree /\ tree[q] # "file"
<1>1. q \in DOMAIN share.tree /\ share.tree[q] \in Dirs
  <2>1. CASE p \in DOMAIN share.tree
    BY <2>1, ShareFacts, TreeIsClosed DEF Ready, ArchiveInv
  <2>2. CASE p \in DOMAIN packed
    <3>1. PICK j \in Roots : p = Archive(j) BY <2>2, TreeNow DEF Ready, ArchiveInv
    <3>2. Cwd \in Path /\ ZipName(j) \in Names /\ Cwd \in DOMAIN share.tree /\ share.tree[Cwd] \in Dirs
      BY ShareFacts DEF Ready, ArchiveInv
    <3>3. IsPrefix(q, Cwd) BY <3>1, <3>2, PrefixOfLonger DEF Archive
    <3>4. QED BY <3>2, <3>3, ShareFacts, TreeIsClosed DEF Ready, ArchiveInv
  <2>3. QED BY <2>1, <2>2, TreeNow DEF Ready, ArchiveInv
<1>2. QED BY <1>1, TreeNow DEF Ready, ArchiveInv, Dirs

\* What an entry of the list says.
LEMMA EntryFacts ==
  ASSUME Ready, Distinct, NEW i \in Roots, NEW e \in Entries(i)
  PROVE  /\ e.root = i /\ e.path \in DOMAIN tree /\ e.path \in Path /\ IsPrefix(Walked(i), e.path)
         /\ e.relative = Arrival(Walked(i), e.path)
         /\ e.empty = (tree[e.path] # "file") /\ (e.empty => IsEmpty(e.path))
         /\ e = [root |-> i, path |-> e.path, relative |-> e.relative, empty |-> e.empty]
         /\ Harmless(e.relative) /\ e.relative[1] = SentName(i)
<1> DEFINE r == Walked(i)
           p == e.path
<1>1. /\ e = [root |-> i, path |-> p, relative |-> RelativePath(Sent(i), p),
              empty |-> tree[p] # "file"]
      /\ p \in Walk(r, {"dir", "link"})
      /\ tree[p] = "file" \/ (tree[p] \in {"dir", "link"} /\ IsEmpty(p))
  BY DEF Entries, Walked
<1>2. e.root = i /\ e.relative = RelativePath(Sent(i), p) /\ e.empty = (tree[p] # "file")
  BY <1>1
<1>3. p \in DOMAIN tree /\ IsPrefix(r, p) BY <1>1 DEF Walk
<1>4. p \in Path /\ Plain(p) /\ ".." \notin ToSet(p) BY <1>3, TreeIsPlain
<1>5. r \in Path /\ r # <<>> /\ r[Len(r)] = SentName(i) /\ Sent(i).name = SentName(i)
  BY WalkedName
<1>6. e.relative = Arrival(r, p) BY <1>2, <1>5 DEF RelativePath, Arrival, Walked
<1> HIDE DEF r, p
<1>7. /\ Arrival(r, p) \in Path /\ Len(Arrival(r, p)) = Len(p) - Len(r) + 1 /\ Len(r) \in 1..Len(p)
      /\ \A j \in 1..Len(p) - Len(r) + 1 : Arrival(r, p)[j] = p[Len(r) + j - 1]
  BY <1>3, <1>4, <1>5, ArrivalByName, ArrivalIsEnd
<1>8. Len(p) \in Nat /\ DOMAIN p = 1..Len(p) /\ DOMAIN Arrival(r, p) = 1..Len(Arrival(r, p))
  BY <1>4, <1>7 DEF Path
<1>9. Arrival(r, p)[1] = SentName(i) /\ Arrival(r, p) # <<>>
  <2>1. 1 \in 1..Len(p) - Len(r) + 1 /\ Len(r) + 1 - 1 = Len(r) BY <1>7, <1>8
  <2>2. p[Len(r)] = r[Len(r)] BY <1>3, <1>4, <1>5, <1>7, PrefixByName
  <2>3. Len(Arrival(r, p)) # 0 BY <1>7, <1>8
  <2>4. Arrival(r, p)[1] = p[Len(r)] BY <1>7, <2>1
  <2>5. Arrival(r, p) # <<>> BY <2>3, EmptySeq
  <2>6. QED BY <1>5, <2>2, <2>4, <2>5
<1>10. ToSet(Arrival(r, p)) \subseteq ToSet(p)
  <2>1. SUFFICES ASSUME NEW j \in 1..Len(p) - Len(r) + 1 PROVE Arrival(r, p)[j] \in ToSet(p)
    BY <1>7, <1>8 DEF ToSet
  <2>2. Len(r) + j - 1 \in 1..Len(p) BY <1>7, <1>8
  <2>3. QED BY <1>7, <1>8, <2>2 DEF ToSet
<1>11. Harmless(Arrival(r, p)) BY <1>4, <1>7, <1>9, <1>10 DEF Harmless, Plain, Unsafe
<1>12. e.empty => IsEmpty(p) BY <1>1, <1>2 DEF p
<1>13. e = [root |-> i, path |-> p, relative |-> e.relative, empty |-> e.empty]
  BY <1>1, <1>2 DEF p
<1>14. QED BY <1>2, <1>3, <1>4, <1>6, <1>9, <1>11, <1>12, <1>13 DEF r, p

\* No entry arrives where another one does, or below it.
LEMMA EntriesApart ==
  ASSUME Ready, Distinct, NEW i \in Roots, NEW j \in Roots,
         NEW e \in Entries(i), NEW f \in Entries(j), IsPrefix(e.relative, f.relative)
  PROVE  e = f
<1>1. e.relative \in Path /\ f.relative \in Path /\ e.relative # <<>> BY EntryFacts DEF Harmless
<1>2. i = j
  <2>1. e.relative[1] = f.relative[1]
    <3>1. 1 \in 1..Len(e.relative) BY <1>1 DEF Path
    <3>2. QED BY <1>1, <3>1, PrefixByName
  <2>2. SentName(i) = SentName(j) BY <2>1, EntryFacts
  <2>3. QED BY <2>2 DEF Distinct
<1> DEFINE r == Walked(i)
<1>3. r \in Path /\ r # <<>> BY WalkedName
<1>4. /\ e.path \in Path /\ e.path \in DOMAIN tree /\ IsPrefix(r, e.path)
      /\ e.relative = Arrival(r, e.path)
  BY EntryFacts
<1>5. /\ f.path \in Path /\ f.path \in DOMAIN tree /\ IsPrefix(r, f.path)
      /\ f.relative = Arrival(r, f.path)
  BY <1>2, EntryFacts
<1> HIDE DEF r
<1>6. IsPrefix(e.path, f.path) BY <1>3, <1>4, <1>5, ArrivalKeepsApart
<1>7. e.path = f.path
  <2>1. SUFFICES ASSUME e.path # f.path PROVE FALSE OBVIOUS
  <2>2. tree[e.path] # "file" BY <1>4, <1>5, <1>6, <2>1, TreeNowIsClosed
  <2>3. e.empty BY <2>2, EntryFacts
  <2>4. IsEmpty(e.path) BY <2>3, EntryFacts
  <2>5. QED BY <1>5, <1>6, <2>1, <2>4 DEF IsEmpty, IsStrictPrefix
<1>8. e.empty = f.empty /\ e.relative = f.relative /\ e.root = f.root
  BY <1>2, <1>4, <1>5, <1>7, EntryFacts
<1>9. QED
  <2>1. e = [root |-> i, path |-> e.path, relative |-> e.relative, empty |-> e.empty]
    BY EntryFacts
  <2>2. f = [root |-> i, path |-> f.path, relative |-> f.relative, empty |-> f.empty]
    BY <1>2, EntryFacts
  <2>3. QED BY <1>7, <1>8, <2>1, <2>2

\* There are finitely many entries.
LEMMA EntriesFinite ==
  ASSUME Ready, NEW all, all = UNION {Entries(i) : i \in Roots}
  PROVE  IsFiniteSet(all)
<1>1. IsFiniteSet(Roots)
  <2>1. Len(share.roots) \in Nat /\ Roots = 1..Len(share.roots)
    BY FileTreeAssumption DEF Ready, ArchiveInv, Roots
  <2>2. QED BY <2>1, FS_Interval
<1>2. IsFiniteSet(DOMAIN packed)
  <2> DEFINE made == {j \in Roots : Made(j)}
             f == [i \in made |-> Archive(i)]
  <2>1. IsFiniteSet(made) BY <1>1, FS_Subset
  <2>2. DOMAIN packed = {Archive(i) : i \in made} BY DEF Ready, ArchiveInv, Untouched
  <2> HIDE DEF made
  <2>3. f \in Surjection(made, DOMAIN packed) BY <2>2 DEF Surjection
  <2> HIDE DEF f
  <2>4. QED BY <2>1, <2>3, FS_Surjection
<1>3. IsFiniteSet(DOMAIN tree)
  <2>1. IsFiniteSet(DOMAIN share.tree) BY ShareFacts DEF Ready, ArchiveInv, IsTree
  <2>2. DOMAIN tree = DOMAIN share.tree \cup DOMAIN packed BY TreeNow DEF Ready, ArchiveInv
  <2>3. QED BY <1>2, <2>1, <2>2, FS_Union
<1>4. IsFiniteSet(Roots \X DOMAIN tree) BY <1>1, <1>3, FS_Product
<1> DEFINE g == [e \in all |-> <<e.root, e.path>>]
<1>5. ASSUME NEW e \in all
      PROVE  \E i \in Roots : \E p \in DOMAIN tree :
               e = [root |-> i, path |-> p, relative |-> RelativePath(Sent(i), p),
                    empty |-> tree[p] # "file"]
  BY DEF Entries, Walk
<1>6. g \in Injection(all, Roots \X DOMAIN tree)
  <2>1. \A e \in all : e.root \in Roots /\ e.path \in DOMAIN tree BY <1>5
  <2>2. g \in [all -> Roots \X DOMAIN tree] BY <2>1
  <2>3. ASSUME NEW d \in all, NEW e \in all, g[d] = g[e] PROVE d = e
    <3>1. d.root = e.root /\ d.path = e.path BY <2>3
    <3>2. d = [root |-> d.root, path |-> d.path, relative |-> RelativePath(Sent(d.root), d.path),
               empty |-> tree[d.path] # "file"]
      BY <1>5
    <3>3. e = [root |-> e.root, path |-> e.path, relative |-> RelativePath(Sent(e.root), e.path),
               empty |-> tree[e.path] # "file"]
      BY <1>5
    <3>4. QED BY <3>1, <3>2, <3>3
  <2>4. QED BY <2>2, <2>3 DEF Injection, IsInjective
<1> HIDE DEF g
<1>7. QED BY <1>4, <1>6, FS_Injection

\* A list of a finite set without repetition holds each of its elements.
LEMMA ListIsWhole ==
  ASSUME NEW all, IsFiniteSet(all), NEW list \in SetToSeqs(all)
  PROVE  /\ DOMAIN list \subseteq Nat \ {0} /\ \A k \in DOMAIN list : list[k] \in all
         /\ \A k, l \in DOMAIN list : list[k] = list[l] => k = l
         /\ \A e \in all : \E k \in DOMAIN list : list[k] = e
<1> DEFINE n == Cardinality(all)
<1>1. n \in Nat BY FS_CardinalityType
<1>2. list \in [1..n -> all] /\ \A k, l \in 1..n : k # l => list[k] # list[l] BY DEF SetToSeqs
<1> HIDE DEF n
<1>3. list \in Injection(1..n, all) BY <1>2 DEF Injection, IsInjective
<1>4. Cardinality(1..n) = n BY <1>1, FS_Interval
<1>5. list \in Surjection(1..n, all) BY <1>3, <1>4, FS_Injection DEF n
<1>6. QED BY <1>1, <1>2, <1>5 DEF Surjection

\* The k-th entry brings the path p of the i-th given path to its place.
Brings(k, i, p) ==
  /\ files[k].path = p /\ files[k].relative = Place(i, p)
  /\ files[k].empty = (share.tree[p] # "file")

\* The list is made once.  Under Distinct the receiver takes its paths as they are,
\* and none is another's prefix; without archives it is what can be read.
Apart ==
  \A k \in DOMAIN files :
    /\ Harmless(files[k].relative)
    /\ \A l \in DOMAIN files : IsPrefix(files[k].relative, files[l].relative) => k = l
Whole ==
  /\ \A k \in DOMAIN files : \E i \in Roots : \E p \in Wanted(i) : Brings(k, i, p)
  /\ \A i \in Roots : \A p \in Wanted(i) : \E k \in DOMAIN files : Brings(k, i, p)
ListInv ==
  /\ DOMAIN files \subseteq Nat \ {0} /\ (phase \notin Shared => DOMAIN files = {})
  /\ \A k \in DOMAIN files : files[k].empty \in BOOLEAN
  /\ Distinct => Apart
  /\ phase \in Shared /\ ~share.zip /\ Distinct => Whole

\* The walk without archives.
LEMMA WalkIsReadable ==
  ASSUME share \in Shares, tree = share.tree, NEW i \in Roots
  PROVE  Walk(Given(i), {"dir", "link"}) = Readable(i)
<1> DEFINE root == Given(i)
           walk == Walk(root, {"dir", "link"})
<1>1. DOMAIN share.tree \subseteq Path BY ShareFacts
<1>2. ASSUME NEW p \in walk PROVE p \in Readable(i)
  <2>1. /\ p \in DOMAIN share.tree /\ p \in Path /\ IsPrefix(root, p)
        /\ \A q \in DOMAIN share.tree : IsPrefix(root, q) /\ IsStrictPrefix(q, p)
             => share.tree[q] \in {"dir", "link"}
    BY <1>1, <1>2 DEF Walk
  <2>2. ASSUME NEW q \in Prefixes(p), q # p, IsPrefix(root, q)
        PROVE  share.tree[q] \in {"dir", "link"}
    <3>1. q \in Path /\ IsPrefix(q, p) BY <2>1, <2>2, PrefixesAre
    <3>2. q \in DOMAIN share.tree BY <2>1, <3>1, ShareFacts, TreeIsClosed
    <3>3. QED BY <2>1, <2>2, <3>1, <3>2 DEF IsStrictPrefix
  <2>3. QED BY <2>1, <2>2 DEF Readable, Given
<1>3. ASSUME NEW p \in Readable(i) PROVE p \in walk
  <2>1. /\ p \in DOMAIN share.tree /\ p \in Path /\ IsPrefix(root, p)
        /\ \A q \in Prefixes(p) \ {p} : IsPrefix(root, q) => share.tree[q] \in {"dir", "link"}
    BY <1>1 DEF Readable, Given
  <2>2. ASSUME NEW q \in DOMAIN share.tree, IsPrefix(root, q), IsStrictPrefix(q, p)
        PROVE  share.tree[q] \in {"dir", "link"}
    <3>1. q \in Prefixes(p) /\ q # p BY <1>1, <2>1, <2>2, PrefixesAre DEF IsStrictPrefix
    <3>2. QED BY <2>1, <2>2, <3>1
  <2>3. QED BY <2>1, <2>2 DEF Walk
<1>4. QED BY <1>2, <1>3

\* Without archives the entries are what can be read, each at its place.
LEMMA EntriesAreWanted ==
  ASSUME Ready, Distinct, ~share.zip, NEW i \in Roots
  PROVE  /\ \A e \in Entries(i) : /\ e.path \in Wanted(i) /\ e.relative = Place(i, e.path)
                                  /\ e.empty = (share.tree[e.path] # "file")
         /\ \A p \in Wanted(i) : \E e \in Entries(i) : e.path = p
<1>1. \A j \in Roots : zipping[j] = "no"
  BY DEF Ready, ArchiveInv, Zipping, Zipped
<1>2. tree = share.tree
  <2>1. DOMAIN packed = {} BY <1>1 DEF Ready, ArchiveInv, Untouched, Made
  <2>2. tree = [p \in DOMAIN share.tree |-> share.tree[p]]
    BY <2>1 DEF Ready, ArchiveInv, Untouched, WithArchives
  <2>3. QED BY <2>2, ShareFacts DEF Ready, ArchiveInv, IsTree
<1>3. Sent(i) = share.roots[i] /\ Walked(i) = Given(i) BY <1>1 DEF Sent, Walked, Given
<1>4. Walk(Walked(i), {"dir", "link"}) = Readable(i)
  BY <1>2, <1>3, WalkIsReadable DEF Ready, ArchiveInv
<1>5. \A p : IsEmpty(p) <=> ~\E q \in DOMAIN share.tree : IsStrictPrefix(p, q)
  BY <1>2 DEF IsEmpty
<1>6. Wanted(i) = {p \in Walk(Walked(i), {"dir", "link"}) :
                     tree[p] = "file" \/ (tree[p] \in {"dir", "link"} /\ IsEmpty(p))}
  BY <1>2, <1>4, <1>5 DEF Wanted
<1>7. ASSUME NEW e \in Entries(i)
      PROVE  /\ e.path \in Wanted(i) /\ e.relative = Place(i, e.path)
             /\ e.empty = (share.tree[e.path] # "file")
  <2>1. e.path \in Wanted(i) BY <1>6 DEF Entries, Walked
  <2>2. /\ e.path \in Path /\ IsPrefix(Walked(i), e.path)
        /\ e.relative = Arrival(Walked(i), e.path) /\ e.empty = (share.tree[e.path] # "file")
    BY <1>2, EntryFacts
  <2>3. Walked(i) \in Path /\ Walked(i) # <<>> BY WalkedName
  <2>4. Arrival(Walked(i), e.path) = Place(i, e.path)
    BY <1>3, <2>2, <2>3, ArrivalIsEnd DEF Place, Given
  <2>5. QED BY <2>1, <2>2, <2>4
<1>8. ASSUME NEW p \in Wanted(i) PROVE \E e \in Entries(i) : e.path = p
  <2> DEFINE e == [root |-> i, path |-> p, relative |-> RelativePath(Sent(i), p),
                   empty |-> tree[p] # "file"]
  <2>1. e \in Entries(i) BY <1>6 DEF Entries, Walked
  <2>2. e.path = p OBVIOUS
  <2>3. QED BY <2>1, <2>2
<1>9. QED BY <1>7, <1>8

\* The list is made with these properties.
LEMMA CollectList == ArchiveInv /\ Collect => ListInv'
<1> SUFFICES ASSUME ArchiveInv, Collect PROVE ListInv' OBVIOUS
<1> DEFINE all == UNION {Entries(i) : i \in Roots}
<1>1. Ready BY DEF Collect, Ready
<1>2. PICK list \in SetToSeqs(all) : files' = list BY DEF Collect
<1>3. share' = share /\ phase' = "share" BY DEF Collect
<1>4. \A e \in all : \E i \in Roots : e \in Entries(i) OBVIOUS
<1>5. \A i \in Roots : \A e \in Entries(i) : e \in all OBVIOUS
<1>6. IsFiniteSet(all) BY <1>1, EntriesFinite
<1> HIDE DEF all
<1>7. /\ DOMAIN list \subseteq Nat \ {0} /\ \A k \in DOMAIN list : list[k] \in all
      /\ \A k, l \in DOMAIN list : list[k] = list[l] => k = l
      /\ \A e \in all : \E k \in DOMAIN list : list[k] = e
  BY <1>2, <1>6, ListIsWhole
<1>8. ASSUME NEW k \in DOMAIN list PROVE list[k].empty \in BOOLEAN
  <2>1. PICK i \in Roots : list[k] \in Entries(i) BY <1>4, <1>7
  <2>2. PICK p : list[k] = [root |-> i, path |-> p, relative |-> RelativePath(Sent(i), p),
                            empty |-> tree[p] # "file"]
    BY <2>1 DEF Entries
  <2>3. list[k].empty = (tree[p] # "file") BY <2>2
  <2>4. QED BY <2>3
<1>9. ASSUME Distinct, NEW k \in DOMAIN list
      PROVE  /\ Harmless(list[k].relative)
             /\ \A l \in DOMAIN list : IsPrefix(list[k].relative, list[l].relative) => k = l
  BY <1>1, <1>4, <1>7, <1>9, EntryFacts, EntriesApart
<1>10. ASSUME ~share.zip, Distinct
       PROVE  /\ \A k \in DOMAIN list : \E i \in Roots : \E p \in Wanted(i) :
                    /\ list[k].path = p /\ list[k].relative = Place(i, p)
                    /\ list[k].empty = (share.tree[p] # "file")
              /\ \A i \in Roots : \A p \in Wanted(i) : \E k \in DOMAIN list :
                    /\ list[k].path = p /\ list[k].relative = Place(i, p)
                    /\ list[k].empty = (share.tree[p] # "file")
  BY <1>1, <1>4, <1>5, <1>7, <1>10, EntriesAreWanted
<1>11. Apart' <=> \A k \in DOMAIN list :
         /\ Harmless(list[k].relative)
         /\ \A l \in DOMAIN list : IsPrefix(list[k].relative, list[l].relative) => k = l
  BY <1>2 DEF Apart, Harmless, Plain, Unsafe
<1>12. ASSUME ~share.zip, Distinct PROVE Whole'
  BY <1>2, <1>3, <1>10, <1>12, ShareStays DEF Whole, Brings, Place
<1>13. QED BY <1>2, <1>3, <1>7, <1>8, <1>9, <1>11, <1>12, ShareStays DEF ListInv, Shared

\* Steps that leave the list alone.
LEMMA KeptList ==
  ASSUME ListInv, share' = share, files' = files, phase' \in Shared <=> phase \in Shared
  PROVE  ListInv'
<1>1. Apart => Apart' BY DEF Apart, Harmless, Plain, Unsafe
<1>2. Whole => Whole' BY ShareStays DEF Whole, Brings, Place
<1>3. QED BY <1>1, <1>2, ShareStays DEF ListInv

\* The invariant of the list is inductive.
LEMMA NextList == ArchiveInv /\ ListInv /\ [Next]_vars => ListInv'
<1> SUFFICES ASSUME ArchiveInv, ListInv, [Next]_vars PROVE ListInv' OBVIOUS
<1>1. CASE Collect BY <1>1, CollectList
<1>2. CASE PathsExist \/ PathMissing \/ ZipFailed \/ Shutdown
  BY <1>2, KeptList DEF PathsExist, PathMissing, ZipFailed, Shutdown, senderVars, Shared
<1>3. ASSUME NEW i \in Roots, ZipCheck(i) \/ ZipCreate(i) \/ ZipWrite(i) \/ ZipFails(i)
      PROVE  ListInv'
  BY <1>3, KeptList DEF ZipCheck, ZipCreate, ZipWrite, ZipFails, ZipStep
<1>4. ASSUME NEW k \in DOMAIN files,
             \/ MakeDir(k) \/ CreateFile(k) \/ Ask(k) \/ RequestFails(k)
             \/ Overwrite(k) \/ Keep(k) \/ Finish(k)
      PROVE  ListInv'
  BY <1>4, ReceiverKeeps, KeptList DEF senderVars, Shared
<1>5. CASE UNCHANGED vars BY <1>5, KeptList DEF vars, senderVars
<1>6. QED BY <1>1, <1>2, <1>3, <1>4, <1>5 DEF Next

\* It holds at the start, when there is no list.
LEMMA InitList == Init => ListInv
  BY DEF Init, ListInv, Apart, Shared

-----------------------------------------------------------------------------
(* The receiver's output directory.                                        *)

Old == DOMAIN share.old
Relative(k) == files[k].relative
Node == [kind : {"dir", "file"}, by : SUBSET Nat]

\* What the states of the entries can be, and what the directory holds.
Kinds ==
  /\ DOMAIN state = DOMAIN files
  /\ \A k \in DOMAIN files :
       state[k] \in {"new", "done"} \/ (state[k] \in {"open", "ask", "kept"} /\ ~files[k].empty)
  /\ DOMAIN out \subseteq Path /\ \A t \in DOMAIN out : out[t] \in Node

\* What was there stays; what is new is on the way to an entry that was requested.
OldStays == \A t \in Old : t \in DOMAIN out /\ out[t].kind = share.old[t]
NewIsRequested ==
  \A t \in DOMAIN out \ Old : \E k \in DOMAIN files :
    /\ state[k] # "new" /\ IsPrefix(t, Relative(k))
    /\ out[t].kind = IF t = Relative(k) /\ ~files[k].empty THEN "file" ELSE "dir"

\* Questions and errors are about what was there.
OldIsAsked ==
  /\ \A k \in DOMAIN files : state[k] = "ask" => Relative(k) \in Old
  /\ phase = "failed" =>
       \E k \in DOMAIN files : \E t \in Prefixes(Relative(k)) : t # <<>> /\ t \in Old

\* An entry that was requested is at its place, and when it is done it was written
\* there, and nowhere else.
Written ==
  /\ \A k \in DOMAIN files : state[k] # "new" =>
       /\ Relative(k) \in DOMAIN out
       /\ out[Relative(k)].kind = IF files[k].empty THEN "dir" ELSE "file"
       /\ state[k] = "done" /\ ~files[k].empty => k \in out[Relative(k)].by
  /\ \A t \in DOMAIN out : \A k \in out[t].by \ {0} : k \in DOMAIN files /\ t = Relative(k)

Arrived == Kinds /\ OldStays /\ NewIsRequested /\ OldIsAsked /\ Written
OutInv == Distinct => Arrived

\* At the start there is what was there.
LEMMA InitOut == Init => OutInv
<1> SUFFICES ASSUME Init PROVE Arrived BY DEF OutInv
<1>1. IsTree(share.old, {"dir", "file"}) BY ShareFacts DEF Init
<1>2. /\ files = <<>> /\ state = <<>> /\ phase = "new"
      /\ out = [p \in DOMAIN share.old |-> [kind |-> share.old[p], by |-> {0}]]
  BY DEF Init
<1>3. \A p \in DOMAIN share.old : share.old[p] \in {"dir", "file"} BY <1>1 DEF IsTree
<1>4. Kinds BY <1>1, <1>2, <1>3 DEF Kinds, IsTree, Path, Node
<1>5. OldStays /\ NewIsRequested BY <1>2 DEF OldStays, NewIsRequested, Old
<1>6. OldIsAsked /\ Written BY <1>2 DEF OldIsAsked, Written
<1>7. QED BY <1>4, <1>5, <1>6 DEF Arrived

\* Under Distinct an entry arrives where its relative path says.
LEMMA TargetIsRelative ==
  ASSUME Apart, NEW k \in DOMAIN files
  PROVE  /\ Target(k) = Relative(k) /\ Relative(k) \in Path /\ Relative(k) # <<>>
         /\ ~Unsafe(Target(k)) /\ Relative(k) \in Prefixes(Relative(k))
<1>1. Harmless(Relative(k)) BY DEF Apart, Relative
<1>2. Target(k) = Relative(k) BY <1>1 DEF Harmless, Target, Relative
<1>3. QED BY <1>1, <1>2, PrefixesAre, PrefixOfItself DEF Harmless

\* No entry finds another in its way.
LEMMA OthersAreNotInTheWay ==
  ASSUME Apart, Arrived, NEW k \in DOMAIN files, state[k] = "new",
         NEW t \in DOMAIN out, IsPrefix(t, Relative(k)), t = Relative(k) \/ out[t].kind = "file"
  PROVE  t \in Old
<1>1. SUFFICES ASSUME t \notin Old PROVE FALSE OBVIOUS
<1>2. PICK l \in DOMAIN files :
        /\ state[l] # "new" /\ IsPrefix(t, Relative(l))
        /\ out[t].kind = IF t = Relative(l) /\ ~files[l].empty THEN "file" ELSE "dir"
  BY <1>1 DEF Arrived, NewIsRequested
<1>3. CASE t = Relative(k) BY <1>2, <1>3 DEF Apart, Relative
<1>4. CASE out[t].kind = "file"
  <2>1. t = Relative(l) BY <1>2, <1>4
  <2>2. l = k BY <2>1 DEF Apart, Relative
  <2>3. QED BY <1>2, <2>2
<1>5. QED BY <1>3, <1>4

\* What a receiver's step leaves alone.
Same == share' = share /\ files' = files

\* A directory or file is created, with the directories above it.
LEMMA AddArrives ==
  ASSUME ListInv, Apart, Arrived, Same, phase' = phase, NEW k \in DOMAIN files, state[k] = "new",
         state' = [state EXCEPT ![k] = IF files[k].empty THEN "done" ELSE "open"],
         NEW leaf, leaf = [kind |-> IF files[k].empty THEN "dir" ELSE "file", by |-> {}],
         Add(Relative(k), leaf),
         Relative(k) \in DOMAIN out => files[k].empty /\ out[Relative(k)].kind = "dir"
  PROVE  Arrived'
<1> DEFINE p == Relative(k)
<1>1. p \in Path /\ p \in Prefixes(p) BY TargetIsRelative
<1>2. \A q \in Prefixes(p) : q \in Path /\ IsPrefix(q, p) BY <1>1, PrefixesAre
<1>3. DOMAIN out' = DOMAIN out \cup Prefixes(p) BY DEF Add
<1>4. \A t \in DOMAIN out : out'[t] = out[t] BY DEF Add
<1>5. \A t \in Prefixes(p) \ DOMAIN out :
        out'[t] = IF t = p THEN leaf ELSE [kind |-> "dir", by |-> {}]
  BY DEF Add
<1>6. /\ DOMAIN state' = DOMAIN files /\ state'[k] = IF files[k].empty THEN "done" ELSE "open"
      /\ \A l \in DOMAIN files \ {k} : state'[l] = state[l]
  BY DEF Arrived, Kinds
<1>7. /\ files' = files /\ Old' = Old /\ files[k].empty \in BOOLEAN
      /\ \A l \in DOMAIN files : Relative(l)' = Relative(l)
  BY DEF Same, Old, Relative, ListInv
<1>8. leaf \in Node /\ [kind |-> "dir", by |-> {}] \in Node BY DEF Node
<1>9. leaf.kind = (IF files[k].empty THEN "dir" ELSE "file") /\ leaf.by = {} OBVIOUS
<1> HIDE DEF p
<1>10. Kinds'
  <2>1. DOMAIN out' \subseteq Path BY <1>2, <1>3 DEF Arrived, Kinds
  <2>2. \A t \in DOMAIN out' : out'[t] \in Node BY <1>3, <1>4, <1>5, <1>8 DEF Arrived, Kinds
  <2>3. \A l \in DOMAIN files :
          state'[l] \in {"new", "done"} \/ (state'[l] \in {"open", "ask", "kept"} /\ ~files[l].empty)
    BY <1>6, <1>7 DEF Arrived, Kinds
  <2>4. QED BY <1>6, <1>7, <2>1, <2>2, <2>3 DEF Kinds
<1>11. OldStays'
  BY <1>3, <1>4, <1>7 DEF Arrived, OldStays, Same
<1>12. p \in DOMAIN out' /\ out'[p].kind = IF files[k].empty THEN "dir" ELSE "file"
  BY <1>1, <1>3, <1>4, <1>5, <1>9 DEF p
<1>13. NewIsRequested'
  <2>1. SUFFICES ASSUME NEW t \in DOMAIN out' \ Old
                 PROVE  \E l \in DOMAIN files :
                          /\ state'[l] # "new" /\ IsPrefix(t, Relative(l))
                          /\ out'[t].kind = IF t = Relative(l) /\ ~files[l].empty
                                            THEN "file" ELSE "dir"
    BY <1>7 DEF NewIsRequested
  <2>2. CASE t \in DOMAIN out
    <3>1. PICK l \in DOMAIN files :
            /\ state[l] # "new" /\ IsPrefix(t, Relative(l))
            /\ out[t].kind = IF t = Relative(l) /\ ~files[l].empty THEN "file" ELSE "dir"
      BY <2>1, <2>2 DEF Arrived, NewIsRequested
    <3>2. l # k BY <3>1
    <3>3. QED BY <1>4, <1>6, <2>2, <3>1, <3>2
  <2>3. CASE t \notin DOMAIN out
    <3>1. t \in Prefixes(p) /\ IsPrefix(t, p) BY <1>2, <1>3, <2>1, <2>3
    <3>2. out'[t].kind = IF t = p /\ ~files[k].empty THEN "file" ELSE "dir"
      BY <1>5, <1>7, <1>9, <2>3, <3>1
    <3>3. state'[k] # "new" BY <1>6
    <3>4. QED BY <3>1, <3>2, <3>3 DEF p
  <2>4. QED BY <2>2, <2>3
<1>14. OldIsAsked'
  <2>1. \A l \in DOMAIN files : state'[l] = "ask" => Relative(l) \in Old
    BY <1>6 DEF Arrived, OldIsAsked
  <2>2. QED BY <1>7, <2>1 DEF Arrived, OldIsAsked
<1>15. Written'
  <2>1. ASSUME NEW l \in DOMAIN files, state'[l] # "new"
        PROVE  /\ Relative(l) \in DOMAIN out'
               /\ out'[Relative(l)].kind = IF files[l].empty THEN "dir" ELSE "file"
               /\ state'[l] = "done" /\ ~files[l].empty => l \in out'[Relative(l)].by
    <3>1. CASE l = k BY <1>6, <1>12, <3>1 DEF p
    <3>2. CASE l # k BY <1>3, <1>4, <1>6, <2>1, <3>2 DEF Arrived, Written
    <3>3. QED BY <3>1, <3>2
  <2>2. ASSUME NEW t \in DOMAIN out', NEW b \in out'[t].by \ {0}
        PROVE  b \in DOMAIN files /\ t = Relative(b)
    <3>1. CASE t \in DOMAIN out BY <1>4, <2>2, <3>1 DEF Arrived, Written
    <3>2. CASE t \notin DOMAIN out BY <1>3, <1>5, <1>9, <2>2, <3>2
    <3>3. QED BY <3>1, <3>2
  <2>3. QED BY <1>7, <2>1, <2>2 DEF Written
<1>16. QED BY <1>10, <1>11, <1>13, <1>14, <1>15 DEF Arrived

\* An entry changes its state, and nothing else changes.
LEMMA StateArrives ==
  ASSUME Arrived, Same, phase' = phase, out' = out, NEW k \in DOMAIN files, ~files[k].empty,
         NEW to \in {"open", "ask", "kept"}, state' = [state EXCEPT ![k] = to],
         \/ state[k] # "new"
         \/ Relative(k) \in DOMAIN out /\ out[Relative(k)].kind = "file",
         to = "ask" => Relative(k) \in Old
  PROVE  Arrived'
<1>1. /\ DOMAIN state' = DOMAIN files /\ state'[k] = to
      /\ \A l \in DOMAIN files \ {k} : state'[l] = state[l]
  BY DEF Arrived, Kinds
<1>2. /\ files' = files /\ Old' = Old /\ share' = share
      /\ \A l \in DOMAIN files : Relative(l)' = Relative(l)
  BY DEF Same, Old, Relative
<1>3. Kinds' BY <1>1, <1>2 DEF Arrived, Kinds
<1>4. OldStays' BY <1>2 DEF Arrived, OldStays
<1>5. NewIsRequested'
  <2>1. \A l \in DOMAIN files : state[l] # "new" => state'[l] # "new" BY <1>1
  <2>2. QED BY <1>2, <2>1 DEF Arrived, NewIsRequested
<1>6. OldIsAsked'
  <2>1. \A l \in DOMAIN files : state'[l] = "ask" => Relative(l) \in Old
    BY <1>1 DEF Arrived, OldIsAsked
  <2>2. QED BY <1>2, <2>1 DEF Arrived, OldIsAsked
<1>7. Written'
  <2>1. ASSUME NEW l \in DOMAIN files, state'[l] # "new"
        PROVE  /\ Relative(l) \in DOMAIN out
               /\ out[Relative(l)].kind = IF files[l].empty THEN "dir" ELSE "file"
               /\ state'[l] = "done" /\ ~files[l].empty => l \in out[Relative(l)].by
    BY <1>1, <2>1 DEF Arrived, Written
  <2>2. \A t \in DOMAIN out : \A b \in out[t].by \ {0} : b \in DOMAIN files /\ t = Relative(b)
    BY DEF Arrived, Written
  <2>3. QED BY <1>2, <2>1, <2>2 DEF Written
<1>8. QED BY <1>3, <1>4, <1>5, <1>6, <1>7 DEF Arrived

\* An entry's content is written to its place.
LEMMA FinishArrives ==
  ASSUME ListInv, Apart, Arrived, NEW k \in DOMAIN files, Finish(k)
  PROVE  Arrived'
<1> DEFINE p == Relative(k)
<1>1. /\ Same /\ phase' = phase /\ state[k] = "open" /\ state' = [state EXCEPT ![k] = "done"]
      /\ p \in DOMAIN out /\ out[p] \in Node /\ k \in Nat
  BY DEF Finish, Goes, Same, senderVars, Arrived, Kinds, Written, ListInv
<1>2. out' = [out EXCEPT ![p] = [out[p] EXCEPT !.by = out[p].by \cup {k}]]
  <2>1. Target(k) = p BY TargetIsRelative
  <2>2. QED BY <2>1 DEF Finish
<1> HIDE DEF p
<1>3. /\ out'[p].kind = out[p].kind /\ out'[p].by = out[p].by \cup {k} /\ out'[p] \in Node
      /\ DOMAIN out' = DOMAIN out /\ \A t \in DOMAIN out \ {p} : out'[t] = out[t]
  BY <1>1, <1>2 DEF Node
<1>4. /\ DOMAIN state' = DOMAIN files /\ state'[k] = "done"
      /\ \A l \in DOMAIN files \ {k} : state'[l] = state[l]
  BY <1>1 DEF Arrived, Kinds
<1>5. /\ files' = files /\ Old' = Old /\ share' = share
      /\ \A l \in DOMAIN files : Relative(l)' = Relative(l)
  BY <1>1 DEF Same, Old, Relative
<1>6. \A t \in DOMAIN out : out'[t].kind = out[t].kind /\ out[t].by \subseteq out'[t].by
  BY <1>1, <1>3
<1>7. Kinds'
  <2>1. \A t \in DOMAIN out' : out'[t] \in Node BY <1>3 DEF Arrived, Kinds
  <2>2. \A l \in DOMAIN files :
          state'[l] \in {"new", "done"} \/ (state'[l] \in {"open", "ask", "kept"} /\ ~files[l].empty)
    BY <1>4 DEF Arrived, Kinds
  <2>3. QED BY <1>3, <1>4, <1>5, <2>1, <2>2 DEF Arrived, Kinds
<1>8. OldStays' BY <1>3, <1>5, <1>6 DEF Arrived, OldStays, Old
<1>9. NewIsRequested'
  <2>1. \A l \in DOMAIN files : state[l] # "new" => state'[l] # "new" BY <1>4
  <2>2. QED BY <1>3, <1>5, <1>6, <2>1 DEF Arrived, NewIsRequested
<1>10. OldIsAsked'
  <2>1. \A l \in DOMAIN files : state'[l] = "ask" => Relative(l) \in Old
    BY <1>4 DEF Arrived, OldIsAsked
  <2>2. QED BY <1>1, <1>5, <2>1 DEF Arrived, OldIsAsked
<1>11. Written'
  <2>1. ASSUME NEW l \in DOMAIN files, state'[l] # "new"
        PROVE  /\ Relative(l) \in DOMAIN out'
               /\ out'[Relative(l)].kind = IF files[l].empty THEN "dir" ELSE "file"
               /\ state'[l] = "done" /\ ~files[l].empty => l \in out'[Relative(l)].by
    <3>1. state[l] # "new" BY <1>1, <1>4, <2>1
    <3>2. Relative(l) \in DOMAIN out /\ out[Relative(l)].kind = IF files[l].empty THEN "dir" ELSE "file"
      BY <3>1 DEF Arrived, Written
    <3>3. CASE l = k BY <1>3, <1>6, <3>2, <3>3 DEF p
    <3>4. CASE l # k
      <4>1. state[l] = "done" /\ ~files[l].empty => l \in out[Relative(l)].by
        BY <3>1 DEF Arrived, Written
      <4>2. QED BY <1>3, <1>4, <1>6, <3>2, <3>4, <4>1
    <3>5. QED BY <3>3, <3>4
  <2>2. ASSUME NEW t \in DOMAIN out', NEW b \in out'[t].by \ {0}
        PROVE  b \in DOMAIN files /\ t = Relative(b)
    BY <1>3, <2>2 DEF Arrived, Written, p
  <2>3. QED BY <1>5, <2>1, <2>2 DEF Written
<1>12. QED BY <1>7, <1>8, <1>9, <1>10, <1>11 DEF Arrived

\* Whatever ends the receiver was there before.
LEMMA FailArrives ==
  ASSUME share \in Shares, Apart, Arrived, NEW k \in DOMAIN files, RequestFails(k)
  PROVE  Arrived'
<1>1. /\ Same /\ state' = state /\ out' = out /\ phase' = "failed" /\ state[k] = "new"
      /\ \/ Unsafe(Target(k)) \/ Blocked(Target(k))
         \/ Kind(Target(k)) = IF files[k].empty THEN "file" ELSE "dir"
  BY DEF RequestFails, Requested, Same, senderVars
<1>2. /\ Target(k) = Relative(k) /\ ~Unsafe(Target(k)) /\ Relative(k) \in Path
      /\ Relative(k) # <<>> /\ Relative(k) \in Prefixes(Relative(k))
  BY TargetIsRelative
<1>3. \E t \in Prefixes(Relative(k)) : t # <<>> /\ t \in Old
  <2>1. CASE Blocked(Target(k))
    <3>1. PICK t \in Above(Relative(k)) : Kind(t) = "file" BY <1>2, <2>1 DEF Blocked
    <3>2. t \in Prefixes(Relative(k)) /\ IsPrefix(t, Relative(k))
      BY <1>2, <3>1, PrefixesAre DEF Above
    <3>3. t \in DOMAIN out /\ out[t].kind = "file" BY <3>1 DEF Kind, None
    <3>4. t \in Old BY <1>1, <3>2, <3>3, OthersAreNotInTheWay
    <3>5. share.old[t] = "file" BY <3>3, <3>4 DEF Arrived, OldStays
    <3>6. share.old[<<>>] \in {"dir", "file"} \cap Dirs BY ShareFacts DEF IsTree
    <3>7. t # <<>> BY <3>5, <3>6 DEF Dirs
    <3>8. QED BY <3>2, <3>4, <3>7
  <2>2. CASE Kind(Target(k)) = IF files[k].empty THEN "file" ELSE "dir"
    <3>1. Relative(k) \in DOMAIN out BY <1>2, <2>2 DEF Kind, None
    <3>2. Relative(k) \in Old BY <1>1, <1>2, <3>1, PrefixOfItself, OthersAreNotInTheWay
    <3>3. QED BY <1>2, <3>2
  <2>3. QED BY <1>1, <1>2, <2>1, <2>2
<1>4. /\ files' = files /\ Old' = Old /\ \A l \in DOMAIN files : Relative(l)' = Relative(l)
  BY <1>1 DEF Same, Old, Relative
<1>5. Kinds' /\ OldStays' /\ NewIsRequested' /\ Written'
  BY <1>1, <1>4 DEF Arrived, Kinds, OldStays, NewIsRequested, Written, Same
<1>6. OldIsAsked' BY <1>1, <1>3, <1>4 DEF Arrived, OldIsAsked
<1>7. QED BY <1>5, <1>6 DEF Arrived

\* The list is made while the directory is as it was.
LEMMA CollectArrives ==
  ASSUME ListInv, Arrived, Collect
  PROVE  Arrived'
<1>1. phase = "zip" /\ phase' = "share" /\ share' = share /\ out' = out BY DEF Collect
<1>2. DOMAIN files = {} BY <1>1 DEF ListInv, Shared
<1>3. DOMAIN state' = DOMAIN files' /\ \A k \in DOMAIN files' : state'[k] = "new"
  <2>1. PICK list : files' = list /\ state' = [k \in DOMAIN list |-> "new"] BY DEF Collect
  <2>2. QED BY <2>1
<1>4. DOMAIN out \subseteq Old BY <1>2 DEF Arrived, NewIsRequested
<1>5. \A t \in DOMAIN out : out[t].by \subseteq {0} BY <1>2 DEF Arrived, Written
<1>6. Old' = Old BY <1>1 DEF Old
<1>7. Kinds' BY <1>1, <1>3 DEF Arrived, Kinds
<1>8. OldStays' BY <1>1, <1>6 DEF Arrived, OldStays
<1>9. NewIsRequested' BY <1>1, <1>4, <1>6 DEF NewIsRequested
<1>10. OldIsAsked' BY <1>1, <1>3 DEF OldIsAsked
<1>11. Written' BY <1>1, <1>3, <1>5 DEF Written
<1>12. QED BY <1>7, <1>8, <1>9, <1>10, <1>11 DEF Arrived

\* Steps in which the receiver takes no part.
LEMMA QuietArrives ==
  ASSUME Arrived, Same, state' = state, out' = out, phase' # "failed" \/ phase' = phase
  PROVE  Arrived'
<1>1. /\ files' = files /\ Old' = Old /\ share' = share
      /\ \A l \in DOMAIN files : Relative(l)' = Relative(l)
  BY DEF Same, Old, Relative
<1>2. Kinds' /\ OldStays' /\ NewIsRequested' /\ Written' /\ OldIsAsked'
  BY <1>1 DEF Arrived, Kinds, OldStays, NewIsRequested, Written, OldIsAsked
<1>3. QED BY <1>2 DEF Arrived

\* The receiver's steps.
LEMMA ReceiverArrives ==
  ASSUME share \in Shares, ListInv, Apart, Arrived, NEW k \in DOMAIN files,
         \/ MakeDir(k) \/ CreateFile(k) \/ Ask(k) \/ RequestFails(k)
         \/ Overwrite(k) \/ Keep(k) \/ Finish(k)
  PROVE  Arrived'
<1>1. Target(k) = Relative(k) /\ Relative(k) \in Path BY TargetIsRelative
<1>2. \A t \in DOMAIN out : out[t].kind \in {"dir", "file"} BY DEF Arrived, Kinds, Node
<1>3. CASE MakeDir(k)
  <2>1. /\ Same /\ phase' = phase /\ state[k] = "new" /\ files[k].empty
        /\ state' = [state EXCEPT ![k] = "done"] /\ Kind(Relative(k)) # "file"
        /\ Add(Relative(k), [kind |-> "dir", by |-> {}])
    BY <1>1, <1>3 DEF MakeDir, Requested, Goes, Same, senderVars
  <2>2. Relative(k) \in DOMAIN out => out[Relative(k)].kind = "dir" BY <1>2, <2>1 DEF Kind
  <2>3. QED BY <2>1, <2>2, AddArrives
<1>4. CASE CreateFile(k)
  <2>1. /\ Same /\ phase' = phase /\ state[k] = "new" /\ ~files[k].empty
        /\ state' = [state EXCEPT ![k] = "open"] /\ Kind(Relative(k)) = None
        /\ Add(Relative(k), [kind |-> "file", by |-> {}])
    BY <1>1, <1>4 DEF CreateFile, Requested, Goes, Same, senderVars
  <2>2. Relative(k) \notin DOMAIN out BY <1>2, <2>1 DEF Kind, None
  <2>3. QED BY <2>1, <2>2, AddArrives
<1>5. CASE Ask(k)
  <2>1. /\ Same /\ phase' = phase /\ out' = out /\ state[k] = "new" /\ ~files[k].empty
        /\ state' = [state EXCEPT ![k] = "ask"] /\ Kind(Relative(k)) = "file"
    BY <1>1, <1>5 DEF Ask, Requested, Goes, Same, senderVars
  <2>2. Relative(k) \in DOMAIN out /\ out[Relative(k)].kind = "file" BY <2>1 DEF Kind, None
  <2>3. Relative(k) \in Old BY <1>1, <2>1, <2>2, PrefixOfItself, OthersAreNotInTheWay
  <2>4. QED BY <2>1, <2>2, <2>3, StateArrives
<1>6. CASE Overwrite(k) \/ Keep(k)
  <2>1. /\ Same /\ phase' = phase /\ out' = out /\ state[k] = "ask"
        /\ \E to \in {"open", "kept"} : state' = [state EXCEPT ![k] = to]
    BY <1>6 DEF Overwrite, Keep, Goes, Same, senderVars
  <2>2. ~files[k].empty BY <2>1 DEF Arrived, Kinds
  <2>3. QED BY <2>1, <2>2, StateArrives
<1>7. CASE RequestFails(k) BY <1>7, FailArrives
<1>8. CASE Finish(k) BY <1>8, FinishArrives
<1>9. QED BY <1>3, <1>4, <1>5, <1>6, <1>7, <1>8

\* The invariant of the output directory is inductive.
LEMMA NextOut == ArchiveInv /\ ListInv /\ OutInv /\ [Next]_vars => OutInv'
<1> SUFFICES ASSUME ArchiveInv, ListInv, OutInv, [Next]_vars, Distinct' PROVE Arrived'
  BY DEF OutInv
<1>1. share \in Shares /\ share' = share
  <2>1. share' = share
    BY ReceiverKeeps DEF Next, vars, senderVars, PathsExist, PathMissing, ZipFailed, Collect,
       Shutdown, ZipCheck, ZipCreate, ZipWrite, ZipFails, ZipStep
  <2>2. QED BY <2>1 DEF ArchiveInv
<1>2. Distinct /\ Apart /\ Arrived BY <1>1, ShareStays DEF ListInv, OutInv
<1>3. CASE Collect BY <1>2, <1>3, CollectArrives
<1>4. CASE PathsExist \/ PathMissing \/ ZipFailed \/ Shutdown
  BY <1>2, <1>4, QuietArrives
  DEF PathsExist, PathMissing, ZipFailed, Shutdown, Same, senderVars
<1>5. ASSUME NEW i \in Roots, ZipCheck(i) \/ ZipCreate(i) \/ ZipWrite(i) \/ ZipFails(i)
      PROVE  Arrived'
  BY <1>2, <1>5, QuietArrives DEF ZipCheck, ZipCreate, ZipWrite, ZipFails, ZipStep, Same
<1>6. ASSUME NEW k \in DOMAIN files,
             \/ MakeDir(k) \/ CreateFile(k) \/ Ask(k) \/ RequestFails(k)
             \/ Overwrite(k) \/ Keep(k) \/ Finish(k)
      PROVE  Arrived'
  BY <1>1, <1>2, <1>6, ReceiverArrives
<1>7. CASE UNCHANGED vars BY <1>2, <1>7, QuietArrives DEF vars, senderVars, Same
<1>8. QED BY <1>3, <1>4, <1>5, <1>6, <1>7 DEF Next

\* Hence all of it holds in every reachable state.
LEMMA AlwaysOut == Spec => [](ArchiveInv /\ ListInv /\ OutInv)
<1> DEFINE Inv == ArchiveInv /\ ListInv /\ OutInv
<1>1. Init => Inv BY InitArchives, InitList, InitOut
<1>2. Inv /\ [Next]_vars => Inv' BY NextArchives, NextList, NextOut
<1>3. QED BY <1>1, <1>2, PTL DEF Spec

\* Under Distinct no entry of a share stands in the way of another: whatever the
\* receiver asks about or stops at was in its directory before.
THEOREM OthersNeverInTheWay == Spec => []OnlyOldInTheWay
<1>1. ListInv /\ OutInv => OnlyOldInTheWay
  <2> SUFFICES ASSUME ListInv, OutInv, Distinct
               PROVE  /\ \A k \in DOMAIN files : state[k] = "ask" => Target(k) \in DOMAIN share.old
                      /\ phase = "failed" => \E k \in DOMAIN files : \E t \in Prefixes(Target(k)) :
                           t # <<>> /\ t \in DOMAIN share.old
    BY DEF OnlyOldInTheWay
  <2>1. \A k \in DOMAIN files : Target(k) = Relative(k) BY TargetIsRelative DEF ListInv
  <2>2. QED BY <2>1 DEF OutInv, Arrived, OldIsAsked, Old
<1>2. QED BY <1>1, AlwaysOut, PTL

\* A share without archives that ran to its end with nothing kept has brought all
\* that can be read below the given paths to its place, each new file made of one
\* file of the sender alone, and nothing besides.
THEOREM SharesArriveWhole == Spec => []ArrivesWhole
<1>1. ListInv /\ OutInv => ArrivesWhole
  <2> SUFFICES ASSUME ListInv, OutInv, phase = "share", ~share.zip, Distinct,
                      \A k \in DOMAIN files : state[k] = "done"
               PROVE  /\ \A i \in Roots : \A p \in Wanted(i) :
                           LET t == Place(i, p) IN
                           /\ Kind(t) = IF share.tree[p] = "file" THEN "file" ELSE "dir"
                           /\ Kind(t) = "file" =>
                                \E k \in DOMAIN files : files[k].path = p /\ out[t].by \ {0} = {k}
                      /\ \A t \in DOMAIN out \ DOMAIN share.old :
                           \E i \in Roots : \E p \in Wanted(i) : IsPrefix(t, Place(i, p))
    BY DEF ArrivesWhole
  <2>1. Apart /\ Whole /\ Arrived /\ DOMAIN files \subseteq Nat \ {0}
    BY DEF ListInv, OutInv, Shared
  <2>2. ASSUME NEW i \in Roots, NEW p \in Wanted(i)
        PROVE  /\ Kind(Place(i, p)) = IF share.tree[p] = "file" THEN "file" ELSE "dir"
               /\ Kind(Place(i, p)) = "file" => \E k \in DOMAIN files :
                    files[k].path = p /\ out[Place(i, p)].by \ {0} = {k}
    <3>1. PICK k \in DOMAIN files : Brings(k, i, p) BY <2>1 DEF Whole
    <3> DEFINE t == Place(i, p)
    <3>2. /\ files[k].path = p /\ Relative(k) = t
          /\ files[k].empty = (share.tree[p] # "file")
      BY <3>1 DEF Brings, Relative
    <3> HIDE DEF t
    <3>3. /\ t \in DOMAIN out /\ out[t].kind = IF files[k].empty THEN "dir" ELSE "file"
          /\ ~files[k].empty => k \in out[t].by
      BY <2>1, <3>2 DEF Arrived, Written
    <3>4. Kind(t) = IF share.tree[p] = "file" THEN "file" ELSE "dir"
      BY <3>2, <3>3 DEF Kind
    <3>5. ASSUME Kind(t) = "file" PROVE out[t].by \ {0} = {k}
      <4>1. k \in out[t].by \ {0} BY <2>1, <3>2, <3>3, <3>4, <3>5
      <4>2. ASSUME NEW b \in out[t].by \ {0} PROVE b = k
        <5>1. b \in DOMAIN files /\ Relative(b) = t BY <2>1, <3>3 DEF Arrived, Written
        <5>2. IsPrefix(t, t) BY <2>1, <3>2, TargetIsRelative, PrefixOfItself
        <5>3. QED BY <2>1, <3>2, <5>1, <5>2 DEF Apart, Relative
      <4>3. QED BY <4>1, <4>2
    <3>6. QED BY <3>2, <3>4, <3>5 DEF t
  <2>3. ASSUME NEW t \in DOMAIN out \ Old
        PROVE  \E i \in Roots : \E p \in Wanted(i) : IsPrefix(t, Place(i, p))
    <3>1. PICK k \in DOMAIN files : IsPrefix(t, Relative(k))
      BY <2>1 DEF Arrived, NewIsRequested
    <3>2. PICK i \in Roots : \E p \in Wanted(i) : Brings(k, i, p) BY <2>1 DEF Whole
    <3>3. PICK p \in Wanted(i) : Brings(k, i, p) BY <3>2
    <3>4. IsPrefix(t, Place(i, p)) BY <3>1, <3>3 DEF Brings, Relative
    <3>5. QED BY <3>4
  <2>4. QED BY <2>2, <2>3 DEF Old
<1>2. QED BY <1>1, AlwaysOut, PTL
=============================================================================
