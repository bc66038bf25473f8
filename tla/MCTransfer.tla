----------------------------- MODULE MCTransfer -----------------------------
(* Small instances of Transfer for TLC. *)
EXTENDS TransferProperties

\* Contents: 0 is the zero chunk, 1 and 2 the sender's data, 3 older data.
MCChunk == 0..3

\* One file of two chunks and others of one; the last may be an empty directory.
MCSource == [f \in Files |-> IF f = 1 THEN <<1, 2>> ELSE <<1>>]

\* The first file may exist, as long as the sender's and ending in a zero chunk,
\* or longer.  The others are new.
MCOldContents ==
  [f \in Files |->
     IF f = 1 THEN {NoFile, <<3, 0>>, <<3, 3, 3>>} ELSE {NoFile}]

\* The first file exists, the others are new: the receiver answers for them itself.
MCOneExists ==
  [f \in Files |-> IF f = 1 THEN {<<3>>} ELSE {NoFile}]
=============================================================================
