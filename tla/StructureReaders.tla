--------------------------- MODULE StructureReaders ---------------------------
(***************************************************************************)
(* A file is either replayed, command by command (CommandReplay), or read  *)
(* as a document (StructureFiles): FormatRegistry::open_as() makes the one *)
(* or the other reader (src/src/formats/format_registry.cpp).              *)
(***************************************************************************)
EXTENDS CommandReplay, StructureFiles

VARIABLE family   \* "commands" or "document"

readers == <<vars, fileVars, family>>

ReadersInit == family \in {"commands", "document"} /\ Init /\ FilesInit

ByCommands(A) == family = "commands" /\ A /\ UNCHANGED <<fileVars, family>>
AsDocument(A) == family = "document" /\ A /\ UNCHANGED <<vars, family>>

ReadersNext == ByCommands(Next) \/ AsDocument(FilesNext)

Fairness == \A t \in Readers : WF_readers(ByCommands(Working(t)))
ReadersSpec == ReadersInit /\ [][ReadersNext]_readers /\ Fairness
=============================================================================
