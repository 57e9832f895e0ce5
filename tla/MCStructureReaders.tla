------------------------ MODULE MCStructureReaders -----------------------
(* Small instances of the command readers for TLC. *)
EXTENDS StructureReaders

Fill(lo, hi, state) == [lo |-> lo, hi |-> hi, state |-> state]
Garbled == Fill(0, 0, "malformed")

\* A fill over everything with local commands before and after it, the same
\* in three blocks with overlaps and air, and a file with two malformed lines.
MCFiles ==
  { [key |-> 1, blocks |-> << <<Fill(3, 3, "a")>>, <<Fill(1, 8, "b"), Fill(4, 5, "c")>>, <<Fill(2, 2, Air)>> >>],
    [key |-> 2, blocks |-> << <<Fill(2, 4, "a"), Fill(5, 5, "b")>>, <<Fill(3, 6, "c")>>, <<Fill(4, 4, "a")>> >>],
    [key |-> 2, blocks |-> << <<Fill(1, 1, "a")>>, <<Fill(2, 2, "b"), Garbled>>, <<Garbled>> >>] }
MCRequests == {{0, 1}, {1, 2}, {-1}}
MCOffsets == {0, -1, 3}

-----------------------------------------------------------------------------
(* The registry: four blocks that are known, by several names, and others. *)

MCLegacy == (<<"stone", 0>> :> "stone") @@ (<<"wool", 1>> :> "wool") @@ (<<"chest", 2>> :> "chest")
            @@ (<<"chest", 3>> :> "chest") @@ (<<"chain", 0>> :> "chain") @@ (<<"stone", Missing>> :> "stone")
MCModern == ("air" :> "air") @@ ("stone" :> "stone") @@ ("wool[red]" :> "wool") @@ ("chest" :> "chest")
            @@ ("water" :> "water") @@ ("chain" :> "chain")
MCNameOf == [b \in {"air", "stone", "wool", "chest", "water", "chain", "unknown"} |-> b]
MCStatedName == [MCNameOf EXCEPT !["wool"] = "wool[red]"]
MCSchematicBlock == (<<0, 0>> :> "air") @@ (<<1, 0>> :> "stone") @@ (<<2, 5>> :> "wool") @@ (<<3, 1>> :> "chest")
MCSchematicPair == ("air" :> <<0, 0>>) @@ ("stone" :> <<1, 0>>) @@ ("wool" :> <<2, 5>>)
MCJavaBlock == ("air" :> "air") @@ ("j:stone" :> "stone") @@ ("j:wool" :> "wool") @@ ("j:chest" :> "chest")
               @@ ("j:box" :> "chest")
MCJavaState == ("air" :> "air") @@ ("stone" :> "j:stone") @@ ("wool" :> "j:wool") @@ ("chest" :> "j:chest")
MCHolders == {"chest"}

MCShifts == {<<0, 0, 0>>, <<1, 0, -3>>, <<1, 1, 0>>}
MCAsks == {{<<0, 0>>, <<1, 0>>}, {<<1, 0>>, <<0, -2>>, <<1, -1>>}}
MCOptions == {[chunks |-> 0, spool |-> TRUE], [chunks |-> 2, spool |-> FALSE]}

-----------------------------------------------------------------------------
(* The house: what most of the files describe, over three chunks (with the *)
(* offsets, more) and two sub-chunks.                                      *)

HouseSize == <<3, 3, 2>>
House == (<<0, 0, 0>> :> "stone") @@ (<<2, 0, 0>> :> "wool") @@ (<<2, 2, 1>> :> "chest")
Loot == <<[pos |-> <<2, 2, 1>>, block |-> "loot"]>>
Means(first, entities) == [size |-> HouseSize, first |-> first, second |-> NoCells, entities |-> entities]
Plain == Means(House, <<>>)
Furnished == Means(House, Loot)
At(p) == IF p \in DOMAIN House THEN House[p] ELSE "air"
Number == ("air" :> 0) @@ ("stone" :> 1) @@ ("wool" :> 2) @@ ("chest" :> 3)
Numbers(Cell(_, _)) == [k \in 1 .. 18 |-> Number[At(Cell(k - 1, HouseSize))]]

File(extension, header, outline, forms, doc, means) ==
  [extension |-> extension, header |-> header, outline |-> outline, forms |-> forms,
   doc |-> doc, means |-> means]
Object(keys) == [kind |-> "object", keys |-> keys]
Array(elements) == [kind |-> "array", elements |-> elements]
Element(kind, keys, integers) == [kind |-> kind, keys |-> keys, integers |-> integers]
Coordinates == {"x", "y", "z"}

\* Lists of records: out of order, moved, with a duplicate.
Entry(name, aux, pos) == [name |-> name, aux |-> aux, pos |-> pos]
Listed == <<Entry("chest", 2, <<1, 7, -3>>), Entry("chest", 2, <<-1, 5, -4>>),
            Entry("wool", 1, <<1, 5, -4>>), Entry("stone", 0, <<-1, 5, -4>>)>>
EntryList == [entries |-> Listed]
ListOutline(integers) == Array(<<Element("object", {"name", "aux"} \cup Coordinates, integers)>>)
ListFile(integers, forms, doc, means) == File(".json", "text", ListOutline(integers), forms, doc, means)
\* One more block, so far away that the size is too long for some targets, and
\* when moved too large for most; or too long for any structure.
Spread(length) == [entries |-> Append(Listed, Entry("stone", 0, <<length - 2, 5, -4>>))]
Long == [Means(House @@ (<<10, 0, 0>> :> "stone"), <<>>) EXCEPT !.size = <<11, 3, 2>>]
RunAwayFiles == {
  ListFile(Coordinates, {"RunAway", "FuHongV1"}, EntryList, Plain),
  ListFile(Coordinates, {"RunAway", "FuHongV1"}, [entries |-> Append(Listed, Bad)], Missing),
  ListFile(Coordinates, {"RunAway", "FuHongV1"}, Spread(11), Long),
  ListFile(Coordinates, {"RunAway", "FuHongV1"}, Spread(21), Missing),
  ListFile({}, {"FuHongV1"}, EntryList, Plain),
  ListFile({}, {"FuHongV1"}, [entries |-> <<>>], Missing) }

Record(pos, place, aux) == [pos |-> pos, index |-> place, aux |-> aux]
KbdxDoc(count) ==
  [count |-> count, palette |-> <<"stone", "wool", "chest">>,
   records |-> <<Record(<<0, 9, 1>>, 2, 0), Record(<<2, 11, 2>>, 3, 3), Record(<<0, 9, 1>>, 1, 9),
                 Record(<<2, 9, 1>>, 2, 1)>>,
   entities |-> <<[pos |-> <<2, 11, 2>>, nbt |-> "sign"], Bad, [pos |-> <<2, 11, 2>>, nbt |-> "loot"],
                  [pos |-> <<2, 10, 2>>, nbt |-> "lost"], [pos |-> <<0, 9, 1>>, nbt |-> Missing]>>]
KbdxFiles == {File(".kbdx", "other", Missing, {"KBDX"}, KbdxDoc(4), Furnished),
              File(".kbdx", "other", Missing, {"KBDX"}, KbdxDoc(5), Missing)}

Packed(kind, name, data, pos) == [kind |-> kind, name |-> name, data |-> data, pos |-> pos, air |-> name = ""]
BdsDoc == <<Packed("states", "wool", "wool[red]", <<2, 0, 0>>), Packed("number", "", 0, <<7, 7, 7>>),
            Packed("none", "stone", Missing, <<0, 0, 0>>), Packed("number", "chest", 2, <<2, 2, 1>>)>>
NexusDoc == <<Packed("number", "air", 0, <<5, 5, 5>>), Packed("number", "wool", 1, <<2, 0, 0>>), Packed("number", "chest", 2, <<0, 0, 0>>),
              Packed("number", "stone", 0, <<0, 0, 0>>), Packed("number", "chest", 3, <<2, 2, 1>>)>>
PackedFiles == {File(".bds", "other", Missing, {"BDS"}, [blocks |-> BdsDoc], Plain),
                File(".bds", "other", Missing, {"BDS"}, [blocks |-> Append(BdsDoc, Bad)], Missing),
                File(".np", "other", Missing, {"NexusNP"}, [blocks |-> NexusDoc], Plain),
                File(".np", "other", Missing, {"NexusNP"}, [blocks |-> BdsDoc], Missing)}

Region(place, first, second) == [index |-> place, first |-> first, second |-> second]
BcfDoc == [palette |-> <<[name |-> "stone", states |-> ""], [name |-> "wool", states |-> "wool[red]"],
                         [name |-> "chest", states |-> ""], [name |-> "gone", states |-> ""]>>,
           sections |-> << [origin |-> <<4, 4, 4>>,
                            regions |-> <<Region(1, <<2, 0, 0>>, <<0, 0, 0>>), Region(4, <<9, 9, 9>>, <<9, 9, 9>>)>>],
                           [origin |-> <<5, 4, 4>>,
                            regions |-> <<Region(2, <<0, 0, 0>>, <<1, 0, 0>>), Region(3, <<1, 2, 1>>, <<1, 2, 1>>)>>] >>]
Beam == (<<1, 0, 0>> :> "wool") @@ House
BcfFiles == {File(".bin", "BCF", Missing, {"BCF"}, BcfDoc, Means(Beam, <<>>)),
             File(".bcf", "BCF", Missing, {"BCF"}, [BcfDoc EXCEPT !.sections[2] = Bad], Missing)}

\* Two sections, of which the second reaches beyond the box, and a third that
\* is empty; in the file that may take its place the chest is gone.
Section(at, start, shape) == [at |-> at, start |-> start, shape |-> shape]
Payload(shape, blocks, entities) == [shape |-> shape, blocks |-> blocks, entities |-> entities]
ConstructionDoc(shape, last) ==
  [table |-> <<Section(1, <<6, 6, 6>>, <<3, 1, 1>>), Section(2, <<8, 8, 6>>, <<1, 1, 3>>),
               Section(Missing, <<6, 6, 6>>, <<1, 1, 1>>), Section(3, <<6, 6, 6>>, <<1, 1, 1>>)>>,
   boxes |-> {[lo |-> <<6, 6, 6>>, hi |-> <<9, 9, 8>>]},
   palette |-> <<"air", "stone", "wool[red]", "chest">>,
   payload |-> (1 :> Payload(<<3, 1, 1>>, <<1, 0, 2>>, <<>>))
               @@ (2 :> Payload(shape, <<0, last, 1>>, <<[pos |-> <<8, 8, 7>>, nbt |-> "loot"]>>))
               @@ (3 :> Payload(<<0, 0, 0>>, <<>>, <<>>))]
ConstructionFile(doc, means) == File(".any", "co", Missing, {"Construction"}, doc, means)
ConstructionFiles == {ConstructionFile(ConstructionDoc(<<1, 1, 3>>, 3), Furnished),
                      ConstructionFile(ConstructionDoc(<<1, 1, 2>>, 3), Missing),
                      ConstructionFile(ConstructionDoc(<<1, 1, 3>>, 1), Means([House EXCEPT ![<<2, 2, 1>>] = "stone"], Loot))}

-----------------------------------------------------------------------------
(* JSON documents: the last occurrence of a repeated key counts.           *)

Named(place, aux, pos, nbt) == [index |-> place, aux |-> aux, pos |-> pos, nbt |-> nbt]
Names == <<"stone", "wool", "chest">>
Decoy == <<Named(3, 3, <<0, 0, 0>>, Missing), Named(3, 3, <<1, 0, 0>>, Missing), Named(3, 2, <<5, 5, 5>>, Missing)>>
West == <<Named(3, 2, <<0, 4, 0>>, Missing), Named(1, 0, <<0, 4, 0>>, Missing)>>
East == <<Named(2, 1, <<0, 4, 0>>, Missing), Named(3, 2, <<0, 6, 1>>, "loot")>>
Chunk(start, blocks) == [start |-> start, blocks |-> blocks]
MianYangDoc(names, east) ==
  [names |-> names,
   chunked |-> << <<Chunk(<<0, 0>>, <<Decoy>>)>>,
                  <<Chunk(<<-2, 6>>, <<Decoy, West>>), Chunk(<<0, 6>>, <<east>>)>> >>]
MianYangOutline == Object({"chunkedBlocks", "namespaces", "more"})
MianYangV1File(doc, means) == File(".json", "text", MianYangOutline, {"MianYangV1"}, doc, means)
V4Move(place, aux, move, nbt) == [index |-> place, aux |-> aux, move |-> move, nbt |-> nbt]
MianYangV4Doc(size) ==
  [size |-> size, names |-> Names,
   entries |-> <<V4Move(1, 0, <<3, 0, 2>>, Missing), V4Move(2, 1, <<-1, 3, 0>>, Missing),
                 V4Move(3, 2, <<0, -1, 1>>, "loot")>>]
Row == (<<0, 0, 0>> :> "stone") @@ (<<2, 0, 0>> :> "stone")
MianYangFiles == {
  MianYangV1File(MianYangDoc(Names, East), Furnished),
  MianYangV1File(MianYangDoc(Names, West), [Means(Row, <<>>) EXCEPT !.size = <<3, 1, 1>>]),
  MianYangV1File(MianYangDoc(<<"stone", "wool">>, East), Missing),
  File(".building", "zlib", Missing, {"MianYangV3"}, MianYangDoc(Names, East), Furnished),
  File(".buildingx", "gzip", Missing, {"MianYangV4"}, MianYangV4Doc(HouseSize), Furnished),
  File(".buildingx", "gzip", Missing, {"MianYangV4"}, MianYangV4Doc(<<3, 0, 2>>), Missing) }
Type(name, aux, pos) == [name |-> name, aux |-> aux, pos |-> pos]
TimeBuilderDoc(pos) ==
  [version |-> "TimeBuilder",
   block |-> << <<Type("chest", 2, << <<pos>> >>)>>,
                <<Type("chest", 2, << <<pos, <<1, 1>>, <<-2, 0, 0>> >> >>), Type("nothing", 0, <<>>),
                  Type("stone", 0, << <<pos>>, << <<-2, 0, 0>> >> >>), Type("wool[red]", 0, << << <<0, 0, 0>> >> >>)>> >>]
TimeBuilderFiles ==
  {File(".json", "text", Object({"block", "version"}), {"TimeBuilderV1"}, TimeBuilderDoc(<<0, 2, 1>>), Plain),
   File(".json", "text", Object({"version=TimeBuilder"}), {"TimeBuilderV1"}, TimeBuilderDoc(Bad), Missing)}

Member(key, value) == [key |-> key, value |-> value]
Point(name, pos) == [name |-> name, pos |-> pos]
QingXuDoc(total) ==
  [total |-> 2,
   members |-> <<Member(1, [total |-> 2, members |-> <<Member(1, Point("stone", <<0, 5, 0>>)),
                                                       Member(0, Point("chest", <<0, 5, 0>>))>>]),
                 Member(0, Bad), Member(5, Bad),
                 Member(0, [total |-> total, members |-> <<Member(1, Point("chest", <<2, 7, 1>>)),
                              Member(0, Point("wool", <<1, 1, 1>>)), Member(0, Point("wool[red]", <<2, 5, 0>>)),
                              Member(7, Bad)>>])>>]
QingXuFiles ==
  {File(".json", "text", Object({"totalBlocks", "0"}), {"QingXuV1"}, QingXuDoc(2), Plain),
   File(".json", "text", Object({"totalBlocks", "0"}), {"QingXuV1"}, QingXuDoc(8), Missing)}

CovNamed(name, val, data) == [names |-> <<"", name, "gravel">>, val |-> val, numbers |-> <<Missing, data>>]
CovArray == [kind |-> "array", entries |-> <<CovNamed("air", Missing, Missing), CovNamed("wool", 5, 1),
                                            CovNamed("stone", 1, 0), CovNamed("chest", Missing, 7)>>]
CovObject == [kind |-> "object", children |-> <<
  [nested |-> Missing, entry |-> CovNamed("stone", Missing, 0)], [nested |-> CovArray.entries, entry |-> Missing]>>]
CovCells(all) == [k \in 1 .. 20 |->
  IF k > 18 THEN [kind |-> "id", id |-> 1]
  ELSE LET p == <<(k - 1) % 3, (k - 1) \div 6, ((k - 1) \div 3) % 2>>
       IN  CASE p = <<0, 0, 0>> -> [kind |-> "id", id |-> 1]
             [] p = <<2, 0, 0>> -> IF all THEN [kind |-> "entry", entry |-> CovNamed("wool[red]", Missing, Missing)]
                                   ELSE [kind |-> "id", id |-> 5]
             [] p = <<2, 2, 1>> -> [kind |-> "id", id |-> 3]
             [] p = <<1, 1, 1>> -> [kind |-> "id", id |-> -1]
             [] OTHER -> [kind |-> "id", id |-> 0]]
CovStructures(inner, indices, blocks) ==
  <<[palette |-> <<CovArray>>, indices |-> <<CovCells(TRUE)>>, blocks |-> <<>>],
    [palette |-> inner, indices |-> indices, blocks |-> blocks]>>
CovDoc(size, structures) ==
  [size |-> size, dimensions |-> <<<<9, 9, 9>>, HouseSize>>, palette |-> <<CovArray>>, structures |-> structures]
CovFile(doc, means) ==
  File(".covstructure", "text", Object({"structure", "size"}), {"CovStructure"}, doc, means)
CovFiles == {CovFile(CovDoc(<<>>, CovStructures(<<CovObject>>, <<>>, <<CovCells(TRUE)>>)), Plain),
             CovFile(CovDoc(<<HouseSize>>, CovStructures(<<>>, <<CovCells(FALSE)>>, <<CovCells(TRUE)>>)), Plain),
             CovFile(CovDoc(<<<<3, 0, 2>>>>, CovStructures(<<>>, <<CovCells(FALSE)>>, <<>>)), Missing)}

-----------------------------------------------------------------------------
(* GangBan.                                                                *)

GangBanBlocks == <<Named(3, 2, <<5, 2, 5>>, "loot"), Named(2, 0, <<3, 0, 4>>, "sign"),
                   Named(2, 1, <<5, 0, 4>>, Missing), Named(1, 0, <<3, 0, 4>>, Missing)>>
Sign == <<[pos |-> <<0, 0, 0>>, block |-> "sign"]>>
GangBanDoc(range) == [blocks |-> GangBanBlocks, range |-> range, palette |-> Names]
Declared == [start |-> <<5, 0, 5>>, end |-> <<3, 2, 4>>]
Things(before) == Array(<<Element("object", {}, {})>> \o before \o <<Element("object", {"list"}, {})>>)
GangBanV1File(doc, means) ==
  File(".json", "text", Things(<<Element("object", {"start", "end"}, {})>>), {"GangBanV1"}, doc, means)
GangBanFlatFiles == {
  GangBanV1File(GangBanDoc(Declared), Means(House, Loot \o Sign)),
  GangBanV1File(GangBanDoc([start |-> <<5, 0, 5>>, end |-> <<4, 2, 4>>]), Missing),
  GangBanV1File([GangBanDoc(Declared) EXCEPT !.blocks = Tail(@)],
                Means((<<0, 0, 0>> :> "stone") @@ (<<2, 0, 0>> :> "wool"), Sign)),
  File(".json", "text", Things(<<>>), {"GangBanV2"}, GangBanDoc(Missing), Means(House, Loot \o Sign)) }

Mark(before, name, after) == [before |-> before, name |-> name, after |-> after]
Marks == <<Mark(2, "gravel", 2), Mark(0, "stone", 0), Mark(1, "gravel", 2), Mark(1, "wool", 1), Mark(2, "chest", 2)>>
GangBanChunkedDoc(size, east) ==
  [palette |-> IF size = Missing THEN Names ELSE Marks, origin |-> <<-2, 4, 6>>, size |-> size,
   chunks |-> <<[grid |-> <<-2, 6>>, data |-> <<Decoy, West>>], [grid |-> <<0, 6>>, data |-> <<east>>]>>]
ChunkedFile(second, form, doc, means) ==
  File(".json", "text", Array(<<Element("object", {"xcha"}, {}), Element(second, {}, {}), Element("array", {}, {})>>),
       {form}, doc, means)
\* An entity twice, and a block above the declared size.
Twice == Append(East, Named(3, 2, <<0, 6, 1>>, "sign"))
Above == Append(Twice, Named(1, 0, <<0, 7, 1>>, Missing))
GangBanChunkedFiles == {
  ChunkedFile("string", "GangBanV3", GangBanChunkedDoc(HouseSize, Above),
              Means((<<2, 3, 1>> :> "stone") @@ House, Loot)),
  ChunkedFile("string", "GangBanV3", GangBanChunkedDoc(<<3, 3, 0>>, East), Missing),
  ChunkedFile("string", "GangBanV3", [GangBanChunkedDoc(HouseSize, East) EXCEPT !.palette = SubSeq(@, 1, 3)], Missing),
  ChunkedFile("array", "GangBanV4", GangBanChunkedDoc(Missing, Twice),
              Means(House, <<[pos |-> <<2, 2, 1>>, block |-> "sign"]>>)),
  ChunkedFile("array", "GangBanV4", GangBanChunkedDoc(Missing, Append(East, Bad)), Missing),
  ChunkedFile("array", "GangBanV4", GangBanChunkedDoc(Missing, Append(East, Named(1, 0, <<4, 9, 4>>, Missing))),
              [Means((<<6, 5, 4>> :> "stone") @@ House, Loot) EXCEPT !.size = <<7, 6, 5>>]) }

Numeral(n) == [kind |-> "number", value |-> n]
Numerals(s) == [i \in DOMAIN s |-> Numeral(s[i])]
Payload5(kind, nbt) == [kind |-> kind, nbt |-> nbt]
\* The chain block is one because of its payload.
Street == (<<0, 0, 0>> :> "chain") @@ House
GangBanV5Doc(extra) ==
  [area |-> "area", palette |-> Names,
   stream |-> Numerals(<<0, 4, 4, 4, 2, 2>>) \o <<Payload5("string", "loot")>>
              \o Numerals(<<0, 2, 2, 3, 0, 2>>) \o <<Payload5("object", "run")>>
              \o Numerals(<<0, 4, 2, 3, 1, 1>>) \o extra]
GangBanV5File(doc, means) ==
  File(".json", "text", Array(<<Element("number", {}, {}), Element("object", {"ep"}, {}), Element("array", {}, {})>>),
       {"GangBanV5"}, doc, means)
Run == <<[pos |-> <<0, 0, 0>>, block |-> "run"]>>
Cursor(move, primary, secondary, payload) ==
  [kind |-> "block", move |-> move, primary |-> primary, secondary |-> secondary, payload |-> payload]
GangBanCursorDoc(place) ==
  [palette |-> Names,
   stream |-> <<Cursor(<<1, 1, 1>>, 0, 2, Payload5("object", "run")), [kind |-> "text"],
                Cursor(<<2, 2, 1>>, 2, 3, Payload5("string", "loot")), Cursor(<<0, -2, -1>>, place, 1, Missing)>>]
GangBanV6File(extension, header, form, doc, means) ==
  File(extension, header, Array(<<Element("array", {}, {}), Element("array", {}, {})>>), {form}, doc, means)
GangBanStreamFiles == {
  GangBanV5File(GangBanV5Doc(<<>>), Means(Street, Loot \o Run)),
  GangBanV5File(GangBanV5Doc(Numerals(<<1>>)), Missing),
  GangBanV6File(".json", "text", "GangBanV6", GangBanCursorDoc(1), Means(Street, Loot \o Run)),
  GangBanV6File(".json", "text", "GangBanV6", GangBanCursorDoc(3), Missing),
  GangBanV6File(".reb", "zlib", "GangBanV7", GangBanCursorDoc(1), Means(Street, Loot \o Run)) }

-----------------------------------------------------------------------------
(* FuHong.                                                                 *)

Column(name, stated, aux, auxes, cells, nbts) ==
  [name |-> name, stated |-> stated, aux |-> aux, auxes |-> auxes, cells |-> cells, nbts |-> nbts]
FuHongV2Doc(aux) ==
  << <<Column("chest", Missing, 7, <<3, 0, 2>>, << <<2, 2, 1>>, <<0, 0, 0>> >>, <<"loot", Missing>>),
       Column(Missing, Missing, 0, Missing, << <<9, 9, 9>> >>, <<Missing>>)>>,
     <<Column("wool", "wool[red]", aux, Missing, << <<2, 0, 0>> >>, <<Missing>>),
       Column("stone", Missing, 0, <<>>, << <<0, 0, 0>> >>, <<Missing>>)>> >>
Tuple(place, aux, cells, nbts) == [kind |-> "cells", index |-> place, aux |-> aux, cells |-> cells, nbts |-> nbts]
FuHongNames == <<[name |-> "air", stated |-> Missing], [name |-> "stone", stated |-> Missing],
                 [name |-> "wool", stated |-> "wool[red]"], [name |-> "chest", stated |-> Missing]>>
FuHongChunkDoc(place, west, east) ==
  [palette |-> FuHongNames,
   chunks |-> << [start |-> west, tuples |-> <<Tuple(2, 0, << <<0, 5, 0>> >>, <<Missing>>), [kind |-> "none"]>>],
                 [start |-> east,
                  tuples |-> <<Tuple(4, 2, << <<1, 7, 1>>, <<1, 7, 1>> >>, <<"loot", "sign">>),
                               Tuple(place, 1, << <<1, 5, 0>> >>, <<Missing>>)>>] >>]
\* V4 has no starts: the chunks lie over each other.
Folded == [size |-> <<2, 3, 2>>, second |-> NoCells,
           first |-> (<<0, 0, 0>> :> "stone") @@ (<<1, 0, 0>> :> "wool") @@ (<<1, 2, 1>> :> "chest"),
           entities |-> <<[pos |-> <<1, 2, 1>>, block |-> "loot"]>>]
FuHongFile(keys, form, doc, means) == File(".json", "text", Object(keys), {form}, doc, means)
FuHongV3Keys == {"FuHongBuild", "BlockCalculationPos"}
FuHongFiles == {
  FuHongFile({"FuHongBuild_FinalFormat"}, "FuHongV2", [columns |-> FuHongV2Doc(0)], Furnished),
  FuHongFile({"FuHongBuild_FinalFormat"}, "FuHongV2", [columns |-> <<Bad>>], Missing),
  FuHongFile(FuHongV3Keys, "FuHongV3", FuHongChunkDoc(3, <<-4, 1>>, <<-3, 1>>), Furnished),
  FuHongFile(FuHongV3Keys, "FuHongV3", FuHongChunkDoc(9, <<-4, 1>>, <<-3, 1>>), Missing),
  FuHongFile(FuHongV3Keys, "FuHongV3", FuHongChunkDoc(3, <<-4, 1>>, Missing), Missing),
  FuHongFile({"FuHongBuild"}, "FuHongV4", FuHongChunkDoc(3, Missing, Missing), Folded),
  File(".fhbuild", "zlib", Missing, {"FuHongV5"}, FuHongChunkDoc(3, Missing, Missing), Folded) }

-----------------------------------------------------------------------------
(* Volumes.                                                                *)

Codes == [k \in 1 .. 18 |-> At(CellYZX(k - 1, HouseSize))]
SchematicDoc(width, chest) ==
  LET Id(b) == CASE b = "air" -> <<0, 0>> [] b = "stone" -> <<1, 0>> [] b = "wool" -> <<2, 5>> [] b = "chest" -> chest
  IN  [width |-> <<width, 7>>, height |-> <<3>>, length |-> <<2>>,
       blocks |-> <<[k \in 1 .. 18 |-> Id(Codes[k])[1]]>>, data |-> <<[k \in 1 .. 18 |-> Id(Codes[k])[2]]>>]
SchematicFile(doc, means) == File(".schematic", "gzip", Missing, {"Schematic"}, doc, means)

\* The values, bit by bit.
BitOf(values, bits, n) ==
  IF n \div bits < Len(values) THEN (values[n \div bits + 1] \div 2 ^ (n % bits)) % 2 ELSE 0
BitWords(values, bits) ==
  LET Word(w) == FoldLeft(+, 0, [b \in 1 .. 9 |-> BitOf(values, bits, 9 * w + b - 1) * 2 ^ (b - 1)])
  IN  [w \in 1 .. (Len(values) * bits + 8) \div 9 |-> Word(w - 1)]
LitematicDoc(words) ==
  LET region(palette) ==
        [position |-> << <<1, 1, 1>> >>, size |-> << <<-3, 3, -2>>, <<1, 1, 1>> >>,
         palette |-> <<palette>>, states |-> <<words>>,
         entities |-> << <<[pos |-> <<2, 2, 1>>, nbt |-> "loot"], [pos |-> <<2, 2, 1>>, nbt |-> "sign"]>> >>]
  IN  [regions |-> << <<[name |-> 2, region |-> Bad],
                        [name |-> 1, region |-> region(<<"air", "j:stone", "j:wool", "j:box">>)]>>, <<>> >>]
LitematicFile(doc, means) == File(".litematic", "gzip", Missing, {"Litematic"}, doc, means)
HouseWords == BitWords([k \in 1 .. 18 |-> Number[Codes[k]]], 2)

\* The second layer holds water, over the chest and in the open.
McIndex(p) == Number[At(p)]
Water == {<<2, 2, 1>>, <<1, 1, 0>>}
McPosition(text, place, nbt) == [text |-> text, index |-> place, nbt |-> nbt]
McStructureDoc(volume) ==
  [size |-> << <<1, 1, 1>>, HouseSize>>,
   structure |-> <<
     [indices |-> << <<[k \in 1 .. 18 |-> McIndex(CellXYZ(k - 1, HouseSize))],
                       [k \in 1 .. volume |-> IF CellXYZ(k - 1, HouseSize) \in Water THEN 4 ELSE -1]>> >>,
      palette |-> << << [blocks |-> << <<[name |-> "air", stated |-> "air"], [name |-> "stone", stated |-> "stone"],
                                         [name |-> "wool", stated |-> "wool[red]"], [name |-> "chest", stated |-> "odd"],
                                         [name |-> "water", stated |-> "water"], Bad>> >>,
                         positions |-> << <<McPosition(2, 17, "sign"), McPosition(1, 17, "loot"),
                                            McPosition(3, 99, "far"), McPosition(4, Missing, "x")>> >>] >> >>] >>]
McStructureFile(doc, means) == File(".mcstructure", "compound", Missing, {"MCStructure"}, doc, means)
Flooded == [Furnished EXCEPT !.second = [p \in Water |-> "water"]]

\* Two values of four bits to a word.
CubeWords(values) == [w \in 1 .. 4 |-> values[2 * w - 1] + 16 * values[2 * w]]
Cube(at, palette, cell, place) ==
  [at |-> at, palette |-> palette, data |-> CubeWords([k \in 1 .. 8 |-> IF k = cell THEN place ELSE 0])]
AxiomDoc == [regions |-> <<Cube(<<5, 5, 5>>, <<"air", "j:stone">>, 1, 1),
                           Cube(<<6, 5, 5>>, <<"air", "j:stone", "wool[red]">>, 1, 2),
                           Cube(<<6, 6, 5>>, <<"air", "odd", "j:box">>, 3, 2)>>]
AxiomFile(doc, means) == File(".bp", "compound", Missing, {"AxiomBP"}, doc, means)
VolumeFiles == {
  SchematicFile(SchematicDoc(3, <<3, 1>>), Plain), SchematicFile(SchematicDoc(2, <<3, 1>>), Missing),
  SchematicFile(SchematicDoc(3, <<9, 9>>), Plain),
  LitematicFile(LitematicDoc(HouseWords), Means(House, Loot \o <<[pos |-> <<2, 2, 1>>, block |-> "sign"]>>)),
  LitematicFile(LitematicDoc(Tail(HouseWords)), Missing),
  McStructureFile(McStructureDoc(18), Flooded), McStructureFile(McStructureDoc(17), Missing),
  AxiomFile(AxiomDoc, Plain), AxiomFile([AxiomDoc EXCEPT !.regions[2].data = Missing], Missing),
  AxiomFile([AxiomDoc EXCEPT !.regions = <<Cube(<<0, 0, 0>>, <<"air">>, 1, 0)>>],
            [Means(NoCells, <<>>) EXCEPT !.size = <<0, 0, 0>>]),
  File(".sibi", "H4", Missing, {"SIBI"}, Bad, Missing) }

MCDocuments ==
  UNION {RunAwayFiles, KbdxFiles, PackedFiles, BcfFiles, ConstructionFiles, MianYangFiles,
                          TimeBuilderFiles, QingXuFiles, CovFiles, GangBanFlatFiles, GangBanChunkedFiles,
                          GangBanStreamFiles, FuHongFiles, VolumeFiles}

\* A file of commands is any one of them, a document any other.
OneFile == source = McStructureFile(McStructureDoc(17), Missing)
OneReplay == file.key = 1 /\ format = "tibi"
MCInit == ReadersInit /\ (family = "commands" => OneFile) /\ (family = "document" => OneReplay)
MCSpec == MCInit /\ [][ReadersNext]_readers /\ Fairness
=============================================================================
