---------------------------- MODULE MCChunkIngestion ----------------------------
(* Small instances of ChunkIngestion for TLC. *)
EXTENDS ChunkIngestion, TLC

CONSTANTS c1, c2, c3

\* c1 and c2 are two uploads of one tracking id, c3 has none.
SharedTracking == [c \in Chunks |-> IF c \in {c1, c2} THEN "t" ELSE None]

\* c1 and c2 as above, c3 has a tracking id of its own.
OwnTracking == [c \in Chunks |-> IF c \in {c1, c2} THEN "t" ELSE "s"]

\* All of them are uploads of one tracking id.
OneTracking == [c \in Chunks |-> "t"]

WorkerSymmetry == Permutations(Workers)
================================================================================
