---------------------------- MODULE BdxStructure ----------------------------
(***************************************************************************)
(* A BDX structure (src/src/formats/bdx.cpp) is used in one of two ways:   *)
(* as a whole, when write_to_world() streams its commands into a world     *)
(* (BdxWorldCache), or by chunks, when the other writers ask for them      *)
(* (BdxPlacementSpool).                                                    *)
(***************************************************************************)
EXTENDS BdxWorldCache, BdxPlacementSpool

VARIABLE conversion   \* "world" or "chunks"

structure == <<vars, readerVars, conversion>>

StructureInit == conversion \in {"world", "chunks"} /\ Init /\ SpoolInit

ByWorld(A) == conversion = "world" /\ A /\ UNCHANGED <<readerVars, conversion>>
ByChunks(A) == conversion = "chunks" /\ A /\ UNCHANGED <<vars, conversion>>

Destroyed == ~alive /\ UNCHANGED readerVars

StructureNext == ByWorld(Next) \/ ByChunks(SpoolNext \/ Destroyed)

StructureSpec == StructureInit /\ [][StructureNext]_structure

\* Threads that are in a call are scheduled, encoding terminates and the stream
\* is finite; nobody has to call.
Fairness ==
  /\ WF_structure(ByWorld(Caller)) /\ WF_structure(ByWorld(SavePool))
  /\ \A t \in Threads : WF_structure(ByChunks(Working(t)))

\* Every call returns: the conversion, and each request or change of a thread,
\* because whatever ends a build, an invalidation or the last read wakes those
\* who wait for it.
CallsReturn ==
  /\ conversion = "world" ~> outcome # "none"
  /\ \A t \in Threads : ~At(t, "idle") ~> At(t, "idle")
=============================================================================
