------------------------- MODULE MCSchemWorldStream -------------------------
(* Small files for TLC: 3 blocks along an edge are two chunks. *)
EXTENDS SchemWorldStream

Palette(n) == [i \in 0 .. n |-> IF i = 0 THEN Air ELSE i]
Early == <<"size", "palette", "data">>
Late == <<"data", "palette", "size">>
PaletteLast == <<"size", "data", "palette">>

\* Solid where `holes` does not say otherwise, neighbours differ.
Values(w, h, l, holes) ==
  [i \in 1 .. w * h * l |->
     LET x == (i - 1) % w
         z == ((i - 1) \div w) % l
         y == (i - 1) \div (w * l)
     IN  IF <<x \div 2, y \div 2, z \div 2>> \in holes THEN 0 ELSE 1 + ((x + 2 * y + z) % 5)]
Doc(w, h, l, order, n, pad, vals) ==
  [w |-> w, h |-> h, l |-> l, order |-> order, palette |-> Palette(n), stream |-> [vals |-> vals, pad |-> pad]]

Column(x, z) == {<<x, y, z>> : y \in 0 .. 1}
MCDocuments ==
  { Doc(3, 3, 3, Early, 5, 0, Values(3, 3, 3, Column(0, 1))),      \* air below part of the last line
    Doc(3, 3, 3, PaletteLast, 5, 1, Values(3, 3, 3, {<<x, 1, z>> : x, z \in 0 .. 1})), \* last slab is air
    Doc(5, 1, 1, Late, 5, 0, Values(5, 1, 1, {<<1, 0, 0>>})),      \* one row, a hole in it
    Doc(3, 1, 2, Early, 8, 1, Values(3, 1, 2, {})),                \* palette beyond 16 bits
    Doc(3, 1, 2, Late, 8, 1, Values(3, 1, 2, {})),                 \* the same, found out too late
    Doc(1, 3, 4, PaletteLast, 8, 0, Values(1, 3, 4, {})),          \* too many rows for an index
    Doc(11, 1, 1, Late, 5, 0, Values(11, 1, 1, {})),               \* more columns than the pool takes
    Doc(6, 1, 2, Early, 5, 0, Values(6, 1, 2, {})),                \* a slab beyond the budget
    Doc(2, 1, 2, Early, 5, 0, <<1, 2, 3, 4, 5>>),                  \* an index too many
    Doc(2, 1, 2, PaletteLast, 5, 1, <<1, 2, 3>>),                  \* one too few
    Doc(2, 1, 2, Late, 5, 0, <<1, 2, 3, 6>>),                      \* one out of the palette
    Doc(2, 1, 2, Late, 8, 0, <<1, 2, 3, 9>>) }
MCOffsets == {<<0, 0, 0>>, <<-1, -1, -1>>}
MCStartPoints == {<<3, -4, 5>>, <<0, 19, 0>>}
MCRequests == {{<<0, 0>>}, {<<0, 0>>, <<1, 0>>}, {<<0, 0>>, <<1, 1>>}, {<<-1, -1>>, <<0, -1>>}, {<<2, 0>>}}
=============================================================================
