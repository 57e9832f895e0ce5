----------------------------- MODULE BlockStates -----------------------------
(***************************************************************************)
(* Runtime ids of block states, as operators over three values:            *)
(*                                                                         *)
(*   reg    the RuntimeRegistry of a context (runtime_registry.cpp): its   *)
(*          states by id and three indexes from states to ids;             *)
(*   bwo    the process-wide BlockStateRegistry of BedrockWorldOperator,   *)
(*          which asks the registry installed last and caches the answers  *)
(*          until another one is installed;                                *)
(*   cache  the encoded states one thread has kept, valid for one          *)
(*          generation of bwo.                                             *)
(*                                                                         *)
(* A name is the sequence of its parts, "minecraft:stone" being            *)
(* <<"minecraft", "stone">>.  The encoded form of a state is the state:    *)
(* encodeDiskBlockState is injective.                                      *)
(***************************************************************************)
EXTENDS Integers, Sequences, FiniteSets, TLC

CONSTANTS
  Upgrade(_),      \* block_upgrade_schemas: a state as the current version writes it
  CurrentVersion,  \* kCurrentBlockVersion
  CacheLimit       \* entries a bounded cache of encoded states may hold

Empty == <<>>
LOCAL Include(map, key, value) == map @@ (key :> value)  \* emplace: an old value stays

State(name, props, version) == [name |-> name, props |-> props, version |-> version]
AirName == <<"minecraft", "air">>
AirState == State(AirName, {}, 0)

-----------------------------------------------------------------------------
\* RuntimeRegistry

normalize_name(name) ==
  CASE name = <<>> -> <<"minecraft", "unknown">>
    [] Len(name) = 1 -> <<"minecraft">> \o name
    [] OTHER -> name
Normalized(state) == [state EXCEPT !.name = normalize_name(@)]
key_for(state) == Normalized(state)
state_key_for(state) == [name |-> normalize_name(state.name), props |-> state.props]
Upgraded(reg, state) == Normalized(IF reg.upgrade THEN Upgrade(state) ELSE state)

Indexed(reg, id, state) ==
  [reg EXCEPT
    !.byKey = Include(@, key_for(state), id),
    !.byStateKey = Include(@, state_key_for(state), id),
    !.states = Include(@, id, state)]

\* The id of a state, an old or a new one, and the registry afterwards.
register_state(reg, source) ==
  LET state == Upgraded(reg, source)
  IN  IF key_for(state) \in DOMAIN reg.byKey
      THEN [id |-> reg.byKey[key_for(state)], reg |-> reg]
      ELSE IF reg.upgrade /\ state_key_for(state) \in DOMAIN reg.byStateKey
      THEN [id |-> reg.byStateKey[state_key_for(state)], reg |-> reg]
      ELSE [id |-> reg.next, reg |-> [Indexed(reg, reg.next, state) EXCEPT !.next = @ + 1]]

NewRegistry ==
  LET blank == [states |-> Empty, byKey |-> Empty, byStateKey |-> Empty,
                next |-> 1, air |-> 0, upgrade |-> FALSE]
      withAir == register_state(blank, AirState)
  IN  [withAir.reg EXCEPT !.air = withAir.id]

\* The asset's palette is a sequence of entries with id and state.
IsAir(entry) == Normalized(entry.state).name = AirName /\ entry.state.props = {}
Repeats(palette) == {i \in DOMAIN palette : \E j \in 1 .. i - 1 : palette[j].id = palette[i].id}

\* The first n entries take the place of all states; their ids differ.
Listed(reg, palette, n) ==
  LET ids == {palette[i].id : i \in 1 .. n}
      First(P(_)) == CHOOSE i \in 1 .. n : P(palette[i]) /\ \A j \in 1 .. i - 1 : ~P(palette[j])
      keys == {key_for(palette[i].state) : i \in 1 .. n}
      stateKeys == {state_key_for(palette[i].state) : i \in 1 .. n}
  IN  [reg EXCEPT
        !.states = [id \in ids |-> Normalized(palette[First(LAMBDA p : p.id = id)].state)],
        !.byKey = [k \in keys |-> palette[First(LAMBDA p : key_for(p.state) = k)].id],
        !.byStateKey = [k \in stateKeys |-> palette[First(LAMBDA p : state_key_for(p.state) = k)].id]]

\* All entries, with air and the next id.
Renumbered(reg, palette) ==
  LET ids == {palette[i].id : i \in DOMAIN palette}
      airs == {i \in DOMAIN palette : IsAir(palette[i])}
  IN  [Listed(reg, palette, Len(palette)) EXCEPT
        !.next = 1 + (CHOOSE id \in ids : \A other \in ids : other <= id),
        !.air = palette[CHOOSE i \in airs : \A j \in airs : j <= i].id]

\* load_block_mappings: what the registry may be afterwards.  The load may fail
\* before it touches the indexes, and does so without air; an id that comes twice
\* ends it in the middle of them (`torn`), air and the next id still being the old
\* ones; a failure behind them leaves a palette whose states are not upgraded.
load_block_mappings(reg, palette) ==
  LET Whole(r) == [reg |-> r, torn |-> FALSE]
      upTo == (CHOOSE i \in Repeats(palette) : \A j \in Repeats(palette) : i <= j) - 1
      changed ==
        CASE \A i \in DOMAIN palette : ~IsAir(palette[i]) -> {}
          [] Repeats(palette) # {} -> {[reg |-> Listed(reg, palette, upTo), torn |-> TRUE]}
          [] OTHER -> LET listed == Renumbered(reg, palette)
                      IN  {Whole(listed), Whole([listed EXCEPT !.upgrade = TRUE])}
  IN  {Whole(reg)} \cup changed

-----------------------------------------------------------------------------
\* BlockStateRegistry of BedrockWorldOperator

NewBwo == [generation |-> 1, runtime |-> Empty, diskRuntime |-> Empty, diskBlock |-> Empty]

\* Mutant: the runtime ids of another registry stay cached.
setResolverKeepingIds(bwo) ==
  [bwo EXCEPT !.generation = @ + 1, !.runtime = Empty, !.diskBlock = Empty]
setResolver(bwo) ==
  [generation |-> bwo.generation + 1, runtime |-> Empty, diskRuntime |-> Empty, diskBlock |-> Empty]

Prefixed(name) == IF Head(name) = "minecraft" THEN name ELSE <<"minecraft">> \o name
Dated(state) == IF state.version = 0 THEN [state EXCEPT !.version = CurrentVersion] ELSE state
\* How a state of the registry is written to disk.
OnDisk(state) == Dated([state EXCEPT !.name = Prefixed(@)])

\* byRuntime, with the cached answer if there is one.  An unknown id is written as
\* air, also if the id of air is itself unknown.
Meaning(reg, id) ==
  OnDisk(CASE id \in DOMAIN reg.states -> reg.states[id]
           [] id \notin DOMAIN reg.states /\ reg.air \in DOMAIN reg.states -> reg.states[reg.air]
           [] OTHER -> AirState)
byRuntime(reg, bwo, id) ==
  IF id \in DOMAIN bwo.runtime THEN bwo.runtime[id] ELSE Meaning(reg, id)

\* The encoded states a thread may still use.
Fresh(bwo, cache) ==
  IF cache.generation = bwo.generation THEN cache
  ELSE [generation |-> bwo.generation, entries |-> Empty]

\* encodePaletteEntry for the distinct ids of one palette: what is written, what the
\* thread keeps (the first misses, while there is room) and what bwo remembers.
encodePalette(reg, bwo, cache, ids) ==
  LET fresh == Fresh(bwo, cache)
      misses == SelectSeq(ids, LAMBDA id : id \notin DOMAIN fresh.entries)
      asked == {misses[i] : i \in DOMAIN misses}
      room == CacheLimit - Cardinality(DOMAIN fresh.entries)
      kept == {misses[i] : i \in 1 .. (IF room < Len(misses) THEN room ELSE Len(misses))}
  IN  [written |-> [i \in DOMAIN ids |-> IF ids[i] \in asked THEN byRuntime(reg, bwo, ids[i])
                                         ELSE fresh.entries[ids[i]]],
       cache |-> [fresh EXCEPT !.entries = @ @@ [id \in kept |-> byRuntime(reg, bwo, id)]],
       bwo |-> [bwo EXCEPT !.runtime = @ @@ [id \in asked \cap DOMAIN reg.states |-> byRuntime(reg, bwo, id)]]]

\* The runtime ids of a palette on disk, in order: a cached id, or the id the registry
\* finds or gives, cached while there is room.
toRuntime(reg, bwo, palette) ==
  LET after[i \in 0 .. Len(palette)] ==
        IF i = 0 THEN [reg |-> reg, bwo |-> bwo, ids |-> <<>>]
        ELSE LET before == after[i - 1]
                 encoded == palette[i]
                 cached == before.bwo.diskRuntime
                 found == register_state(before.reg, [encoded EXCEPT !.name = Prefixed(@)])
             IN  IF encoded \in DOMAIN cached
                 THEN [before EXCEPT !.ids = Append(@, cached[encoded])]
                 ELSE [reg |-> found.reg, ids |-> Append(before.ids, found.id),
                       bwo |-> [before.bwo EXCEPT !.diskRuntime =
                         IF Cardinality(DOMAIN cached) < CacheLimit
                         THEN Include(cached, encoded, found.id) ELSE cached]]
  IN  after[Len(palette)]

\* The palette-preserving path: the states themselves, parsed or cached.
cachedDiskBlockStates(bwo, palette) ==
  [i \in DOMAIN palette |-> IF palette[i] \in DOMAIN bwo.diskBlock THEN bwo.diskBlock[palette[i]]
                            ELSE palette[i]]
cacheDiskBlockStates(bwo, palette) ==
  LET new == {i \in DOMAIN palette : /\ palette[i] \notin DOMAIN bwo.diskBlock
                                     /\ \A j \in 1 .. i - 1 : palette[j] # palette[i]}
      room == CacheLimit - Cardinality(DOMAIN bwo.diskBlock)
      kept == {palette[i] : i \in {j \in new : Cardinality({k \in new : k < j}) < room}}
  IN  [bwo EXCEPT !.diskBlock = @ @@ [encoded \in kept |-> encoded]]
=============================================================================
