--------------------------- MODULE FormatDetection ---------------------------
(***************************************************************************)
(* FormatRegistry::detect() (format_registry.cpp): which format a file is, *)
(* by its first bytes, its extension, and the outline of a JSON document.  *)
(*                                                                         *)
(* A file has a header (what its first bytes spell), an extension and an   *)
(* outline: Missing if it is no JSON, or the kind of its root with the     *)
(* keys of an object, or the kind and the keys of each element of an       *)
(* array.                                                                  *)
(***************************************************************************)
EXTENDS StructureGeometry

\* Formats and their extensions, in the order of the table.
Table == <<
  <<"Schematic", {".schematic"}>>, <<"SchemV1", {".schem"}>>, <<"SchemV2", {".schem"}>>,
  <<"Litematic", {".litematic"}>>, <<"MCStructure", {".mcstructure"}>>,
  <<"MCWorld", {".mcworld", ".zip"}>>, <<"BDX", {".bdx"}>>,
  <<"Construction", {".construction"}>>, <<"AxiomBP", {".bp"}>>,
  <<"MCFunction", {".mcfunction", ".txt"}>>, <<"KBDX", {".kbdx"}>>, <<"IBImport", {".ibi"}>>,
  <<"MianYangV1", {".json"}>>, <<"MianYangV2", {".json"}>>, <<"MianYangV3", {".building"}>>,
  <<"MianYangV4", {".buildingx"}>>, <<"GangBanV1", {".json"}>>, <<"GangBanV2", {".json"}>>,
  <<"GangBanV3", {".json"}>>, <<"GangBanV4", {".json"}>>, <<"GangBanV5", {".json"}>>,
  <<"GangBanV6", {".json"}>>, <<"GangBanV7", {".reb"}>>, <<"RunAway", {".json"}>>,
  <<"QingXuV1", {".json"}>>, <<"TimeBuilderV1", {".json"}>>, <<"FuHongV1", {".json"}>>,
  <<"FuHongV2", {".json"}>>, <<"FuHongV3", {".json"}>>, <<"FuHongV4", {".json"}>>,
  <<"FuHongV5", {".fhbuild"}>>, <<"BDS", {".bds"}>>, <<"SIBI", {".sibi"}>>, <<"BCF", {".bcf"}>>,
  <<"TIBI", {".tibi"}>>, <<"CovStructure", {".covstructure"}>>, <<"NexusNP", {".np"}>> >>

\* The first of the alternatives <<condition, format>> that applies.
FirstThat(alternatives) ==
  LET i == SelectInSeq(alternatives, LAMBDA a : a[1])
  IN  IF i = 0 THEN Missing ELSE alternatives[i][2]

ByExtension(extension) == FirstThat([i \in DOMAIN Table |-> <<extension \in Table[i][2], Table[i][1]>>])

-----------------------------------------------------------------------------
(* The probe of JSON documents.                                            *)

ObjectFormat(keys) ==
  FirstThat(<<
    <<"version=TimeBuilder" \in keys, "TimeBuilderV1">>,
    <<"FuHongBuild_FinalFormat" \in keys, "FuHongV2">>,
    <<{"FuHongBuild", "BlockCalculationPos"} \subseteq keys, "FuHongV3">>,
    <<"FuHongBuild" \in keys, "FuHongV4">>,
    <<{"chunkedBlocks", "namespaces"} \subseteq keys, "MianYangV1">>,
    <<"totalBlocks" \in keys, "QingXuV1">>,
    <<{"block", "version"} \subseteq keys, "TimeBuilderV1">>,
    <<"structure" \in keys /\ {"size", "dimensions"} \cap keys # {}, "CovStructure">> >>)

\* A name, and coordinates that are integers: an aux is not asked for.
RunAwayShape(e) ==
  e.kind = "object" /\ "name" \in e.keys /\ {"x", "y", "z"} \subseteq e.integers
ArrayFormat(elements) ==
  LET first == Head(elements)
      last == Last(elements)
      several == Len(elements) >= 2
      second == IF several THEN elements[2] ELSE first
      before == IF several THEN elements[Len(elements) - 1] ELSE first
      object(e, keys) == e.kind = "object" /\ keys \subseteq e.keys
  IN  FirstThat(<<
        <<first.kind = "array" /\ last.kind = "array", "GangBanV6">>,
        <<several /\ first.kind = "number" /\ object(before, {"ep"}) /\ last.kind = "array", "GangBanV5">>,
        <<\A i \in DOMAIN elements : RunAwayShape(elements[i]), "RunAway">>,
        <<object(first, {"name", "aux", "x", "y", "z"}), "FuHongV1">>,
        <<object(first, {}) /\ several /\ object(last, {"list"}) /\ object(before, {"start", "end"}), "GangBanV1">>,
        <<object(first, {}) /\ several /\ object(last, {"list"}), "GangBanV2">>,
        <<several /\ object(first, {"xcha"}) /\ second.kind = "string", "GangBanV3">>,
        <<several /\ object(first, {"xcha"}) /\ second.kind = "array", "GangBanV4">> >>)
OutlineFormat(outline) ==
  CASE outline = Missing -> Missing
    [] outline # Missing /\ outline.kind = "object" -> ObjectFormat(outline.keys)
    [] outline # Missing /\ outline.kind = "array" ->
         IF outline.elements = <<>> THEN Missing ELSE ArrayFormat(outline.elements)

-----------------------------------------------------------------------------
Compressed == {"zlib", "flate"}
Probed == {".json", ".building", ".buildingx", ".reb", ".covstructure"}
Detect(f) ==
  LET json == IF f.extension \in Probed THEN OutlineFormat(f.outline) ELSE Missing
  IN  FirstThat(<<
        <<f.header = "BD", "BDX">>, <<f.header = "IB", "IBImport">>,
        <<f.header = "co", "Construction">>, <<f.header = "H4", "SIBI">>,
        <<f.header = "BCF", "BCF">>, <<f.header = "PK", "MCWorld">>,
        <<f.header = "gzip" /\ f.extension = ".buildingx", "MianYangV4">>,
        <<f.header \in Compressed /\ f.extension = ".building", "MianYangV3">>,
        <<f.header = "zlib" /\ f.extension = ".reb", "GangBanV7">>,
        <<f.header = "zlib" /\ f.extension = ".fhbuild", "FuHongV5">>,
        <<f.extension = ".tibi", "TIBI">>, <<f.extension = ".np", "NexusNP">>,
        <<f.extension = ".bds", "BDS">>,
        <<f.header = "compound" /\ f.extension = ".bp", "AxiomBP">>,
        <<f.header = "compound", "MCStructure">>,
        <<json # Missing, json>>,
        <<TRUE, ByExtension(f.extension)>> >>)
=============================================================================
