---------------------------- MODULE MCStorageRead ----------------------------
(* Instances of StorageRead for TLC. *)
EXTENDS StorageRead, TLC

\* Sessions are interchangeable: fresh identifiers, equal limits.
Interchangeable == Permutations(Sessions)

=============================================================================
