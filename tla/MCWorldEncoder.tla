--------------------------- MODULE MCWorldEncoder ---------------------------
(* Small instances of the world encoder for TLC. *)
EXTENDS WorldEncoder

\* Two workers, three with an uneven split, one chunk on the caller, the same
\* pool again, a smaller pool, an empty batch.
MCBatches == <<2, 5, 1, 3, 2, 0>>
\* The environment variable is not set.
MCEnv == -1
=============================================================================
