--------------------------- MODULE MCStorageLocks ---------------------------
(* StorageLocks on a small instance.  Workers are interchangeable. *)
EXTENDS StorageLocks, TLC

WorkerSymmetry == Permutations(Workers)
=============================================================================
