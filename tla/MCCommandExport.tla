-------------------------- MODULE MCCommandExport --------------------------
(* Small instances of the command writers for TLC. *)
EXTENDS CommandExport

Export(writer, per, window, threads, tasks, spool, limit) ==
  [writer |-> writer, per |-> per, window |-> window, threads |-> threads,
   tasks |-> tasks, spool |-> spool, limit |-> limit]

\* MCFunction with a window that allows two workers and one or two futures, with
\* and without temporary files and a limit on them, and with one worker;
\* IBImport with single chunks and with batches of two.
MCJobs ==
  { Export("mcfunction", 1, 2, 2, 0, TRUE, 0),
    Export("mcfunction", 1, 4, 2, 3, TRUE, 4),
    Export("mcfunction", 1, 2, 2, 1, FALSE, 0),
    Export("mcfunction", 1, 2, 1, 0, TRUE, 2),
    Export("ibimport", 1, 2, 0, 0, TRUE, 0),
    Export("ibimport", 2, 3, 2, 0, TRUE, 0) }
=============================================================================
