---------------------------- MODULE MCPushStream ----------------------------
(***************************************************************************)
(* Instances of PushStream for TLC.                                        *)
(***************************************************************************)
EXTENDS PushStream

CONSTANTS p1, p2, a, b

MCCallers == {p1, p2}
MCByte == {a, b}
\* An empty chunk is pushed too: it wakes Read with nothing to read.
MCChunks == {<<>>, <<a, b>>}
=============================================================================
