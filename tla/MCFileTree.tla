----------------------------- MODULE MCFileTree -----------------------------
(* Small instances of FileTree for TLC. *)
EXTENDS FileTree

\* The sender works in w: a folder a with a file and an empty folder, a folder b
\* with a file of the same name, one that cannot be read and a link to a folder,
\* and a file whose name holds a backslash.
MCCwd == <<"w">>
Given == {"a", "b", "w", "p", "a.zip", "a\\f"}
MCZipOf == [n \in Given |-> n \o ".zip"]
MCNames == Given \cup {"e", "f", "k", "l"} \cup {n \o ".zip" : n \in Given \cup {""}}
MCSplit == ("a\\f" :> <<"a", "f">>)

Folder ==
  (<<>> :> "dir") @@ (<<"w">> :> "dir")
  @@ (<<"w", "a">> :> "dir") @@ (<<"w", "a", "f">> :> "file")
  @@ (<<"w", "a", "e">> :> "dir")
  @@ (<<"w", "b">> :> "dir") @@ (<<"w", "b", "f">> :> "file")
  @@ (<<"w", "b", "k">> :> "locked") @@ (<<"w", "b", "k", "f">> :> "file")
  @@ (<<"w", "b", "l">> :> "link") @@ (<<"w", "b", "l", "f">> :> "file")
Small == (<<>> :> "dir") @@ (<<"w">> :> "dir") @@ (<<"w", "a">> :> "dir")
  @@ (<<"w", "a", "f">> :> "file")
Backslash == Folder @@ (<<"w", "a\\f">> :> "file") @@ (<<"w", "p">> :> "other")
Taken == Folder @@ (<<"w", "a.zip">> :> "file")
\* A second folder a, one level deeper.
Twins == Folder @@ (<<"w", "b", "a">> :> "dir") @@ (<<"w", "b", "a", "f">> :> "file")

\* A file of the name that the archive of folder a gets, one level deeper.
Shadow == Folder @@ (<<"w", "b", "a.zip">> :> "file")

Fresh == (<<>> :> "dir")
Full == Fresh @@ (<<"a">> :> "dir") @@ (<<"a", "f">> :> "file") @@ (<<"b">> :> "file")
Odd == Fresh @@ (<<"a">> :> "dir") @@ (<<"a", "f">> :> "dir") @@ (<<"a", "e">> :> "file")

\* The path "dir/name", as a user in the working directory gives it.
Below(dir, name) == [dir |-> MCCwd \o dir, name |-> name]
A == Below(<<>>, "a")
B == Below(<<>>, "b")
\* Three ways to share the working directory itself.
Dot == Below(<<>>, ".")
Up == Below(<<"a">>, "..")
Whole == [dir |-> <<>>, name |-> "w"]

MCShares ==
  [tree : {Folder, Taken}, roots : {<<A, B>>, <<B, Up>>}, zip : BOOLEAN, old : {Fresh, Full, Odd}]
  \cup
  [tree : {Folder, Twins, Shadow}, roots : {<<A, Below(<<"b">>, "a")>>, <<A, Below(<<"b">>, "a.zip")>>},
   zip : BOOLEAN, old : {Fresh, Full}]
  \cup
  [tree : {Backslash}, roots : {<<A, Below(<<>>, "a\\f"), Below(<<>>, "p")>>}, zip : BOOLEAN,
   old : {Fresh}]
  \cup
  [tree : {Small}, roots : {<<Dot>>, <<Whole>>, <<Whole, A>>}, zip : BOOLEAN, old : {Fresh}]
=============================================================================
