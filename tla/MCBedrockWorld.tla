--------------------------- MODULE MCBedrockWorld ---------------------------
(* A small instance of the world database and its block states for TLC. *)
EXTENDS BedrockWorld

Wool(version) == State(<<"minecraft", "wool">>, {"red"}, version)
MCUpgrade(state) ==
  IF state.name = <<"minecraft", "wool">> THEN State(<<"minecraft", "red_wool">>, {}, CurrentVersion) ELSE state

\* Air and enough other states for indices of six bits, numbered in two ways.
Kinds == 33
Kind(k) == IF k = 1 THEN State(AirName, {}, CurrentVersion)
           ELSE State(<<"minecraft", "stone">>, {k}, CurrentVersion)
MCAssets ==
  { [i \in 1 .. Kinds |-> [id |-> i + 3, state |-> Kind(i)]],
    [i \in 1 .. 5 |-> [id |-> 30 - i, state |-> Kind(i)]],
    [i \in 1 .. 3 |-> [id |-> 3 - (i % 2), state |-> Kind(i)]] }   \* id 2 twice
MCSourceStates == {Wool(1), State(<<"dirt">>, {}, 0), State(<<"custom", "ore">>, {}, 0)}

Pos(y) == [chunk |-> 0, y |-> y]
Write(y, size, step, upper, layout) ==
  [pos |-> Pos(y), size |-> size, step |-> step, upper |-> upper, layout |-> layout]
MCSymmetry == Permutations(Threads)
MCMinSubChunkY == -1
MCWrites ==
  { Write(-1, 1, 1, FALSE, "native"), Write(-1, 2, 3, TRUE, "internal"), Write(0, 5, 7, FALSE, "internal"),
    Write(0, 17, 1, FALSE, "native"), Write(0, 33, 5, TRUE, "internal") }
=============================================================================
