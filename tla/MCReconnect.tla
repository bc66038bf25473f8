---------------------------- MODULE MCReconnect ----------------------------
(* Small instances of Reconnect for TLC. *)
EXTENDS Reconnect

\* Contents: 0 is the zero chunk, 1 and 2 are data.
MCChunk == 0..2

\* The first file ends in a zero chunk: once finished, it looks like a breakpoint.
\* The others are empty.
MCSource == [f \in Files |-> IF f = 1 THEN <<1, 0>> ELSE <<>>]

\* Two different chunks, to tell a gap.
MCTwoChunks == [f \in Files |-> <<1, 2>>]

\* One chunk.
MCOneChunk == [f \in Files |-> <<1>>]

\* What a property leaves out need not be followed: the flags stay, and no action that
\* is fair sets them.
MCUndisturbed == ~missed /\ mixed = {}
=============================================================================
