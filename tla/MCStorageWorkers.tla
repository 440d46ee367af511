-------------------------- MODULE MCStorageWorkers --------------------------
(* StorageWorkers on a small instance.  Workers are interchangeable. *)
EXTENDS StorageWorkers, TLC

WorkerSymmetry == Permutations(Workers)
=============================================================================
