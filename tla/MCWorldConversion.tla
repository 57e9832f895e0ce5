------------------------- MODULE MCWorldConversion -------------------------
(* Small instances of the world conversion for TLC. *)
EXTENDS WorldConversion

\* The second position of the grid yields no chunk; two chunks have entities.
MCYields == (1 .. N) \ {2}
MCHasNbt == {3, 4} \cap MCYields
\* One start keeps everything in range, one moves the tall chunk 4 out of it.
MCStarts == {{}, {4}}
=============================================================================
