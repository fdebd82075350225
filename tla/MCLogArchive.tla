---------------------------- MODULE MCLogArchive ----------------------------
(* A small instance of LogArchive for TLC.                                   *)
EXTENDS LogArchive, TLC

CONSTANTS a1, a2, i1

(* Two attempts on the same container, each with a log of two chunks.        *)
OneContainer == [a \in Attempts |-> i1]
TwoChunks == [a \in Attempts |-> 2]
=============================================================================
