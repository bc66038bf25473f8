------------------------------ MODULE Contents ------------------------------
(***************************************************************************)
(* Contents of files, as sequences of chunks of SEND_BUFF_SIZE bytes: what *)
(* the receiver's writer does to one, and how `missing_chunks` tells the   *)
(* saved part of an interrupted transfer from the part that is missing.    *)
(***************************************************************************)
EXTENDS Naturals, Sequences, FiniteSets

CONSTANTS
  Chunk, \* the contents a chunk can have
  Zero   \* the all-zero chunk

ASSUME ZeroAssumption == Zero \in Chunk

\* The writer writes chunk c at its position p, over or behind what is there;
\* a position behind the end leaves a gap that reads as zeros.
WriteAt(content, p, c) ==
  [i \in 1..(IF p < Len(content) THEN Len(content) ELSE p + 1) |->
     IF i = p + 1 THEN c ELSE IF i <= Len(content) THEN content[i] ELSE Zero]

\* missing_chunks: the chunks up to the last one that is not all zero count
\* as saved, the zero chunks after it as missing.
SavedChunks(content) ==
  Cardinality({i \in 1..Len(content) :
                 \E j \in i..Len(content) : content[j] # Zero})

MissingChunks(content) == Len(content) - SavedChunks(content)

\* The content is taken for the part of an interrupted transfer of `source`:
\* as long as the source, with saved and with missing chunks.
AtBreakPoint(content, source) ==
  /\ Len(content) = Len(source)
  /\ MissingChunks(content) > 0
  /\ SavedChunks(content) > 0
=============================================================================
