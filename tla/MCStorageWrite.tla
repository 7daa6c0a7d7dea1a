--------------------------- MODULE MCStorageWrite ---------------------------
(* Instances of StorageWrite for TLC. *)
EXTENDS StorageWrite

\* One payload of one row, one of two: offsets and batch counts differ.
MCRowsOf == [p \in Payloads |-> IF p = "a" THEN 1 ELSE 2]

=============================================================================
