------------------------------ MODULE MCLevelDb ------------------------------
(* Small instances of the key-value store for TLC. *)
EXTENDS LevelDb

Put(k) == [key |-> k, del |-> FALSE]
Delete(k) == [key |-> k, del |-> TRUE]
MCBatches == << <<Put(1)>>, <<Put(1), Put(2)>>, <<Delete(1)>>, <<Put(1)>> >>
\* The writing threads are interchangeable.
AnyWriter == Permutations(Writers)
=============================================================================
