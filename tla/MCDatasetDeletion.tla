---------------------------- MODULE MCDatasetDeletion ----------------------------
(* Small instances of DatasetDeletion for TLC. *)
EXTENDS DatasetDeletion, TLC

CONSTANTS d1, d2

\* d2 is a dataset without chunks.
AllInFirst == [c \in Chunks |-> d1]

WorkerSymmetry == Permutations(Workers)
================================================================================
