--------------------------- MODULE EnumerableMapMock ---------------------------
(***************************************************************************)
(* The contracts that EnumerableMapMock.js generates: one map, of one of   *)
(* the pairs of types, and every function of the library as a transaction  *)
(* or a call.  OperationResult and the return values are `reply`.          *)
(***************************************************************************)
EXTENDS EnumerableMap

CONSTANT MaxEntry   \* bound on the index given to at

VARIABLES
  types,        \* the key and value types of this contract
  map,          \* _map
  reply         \* what the last call returned; a revert is ok = FALSE

mvars == <<types, map, reply>>

Reply(call, arg, ok, key, value) ==
  [call |-> call, arg |-> arg, ok |-> ok, key |-> key, value |-> value]

MapInit ==
  /\ types \in MapTypes
  /\ map = EmptyMap
  /\ reply = Reply("none", 0, FALSE, 0, 0)

Set(k, v) ==
  /\ map' = mapSet(types, map, k, v)
  /\ reply' = Reply("set", k, ~mapContains(types, map, k), 0, 0)
  /\ UNCHANGED types

RemoveEntry(k) ==
  /\ map' = mapRemove(types, map, k)
  /\ reply' = Reply("remove", k, mapContains(types, map, k), 0, 0)
  /\ UNCHANGED types

ContainsKey(k) ==
  /\ reply' = Reply("contains", k, mapContains(types, map, k), 0, 0)
  /\ UNCHANGED <<types, map>>

EntryCount ==
  /\ reply' = Reply("length", 0, TRUE, 0, lengthOf(map.keys))
  /\ UNCHANGED <<types, map>>

EntryAt(index) ==
  /\ reply' = IF validIndex(map.keys, index)
                THEN LET e == mapAt(types, map, index)
                     IN Reply("at", index, TRUE, e.key, e.value)
                ELSE Reply("at", index, FALSE, 0, 0)
  /\ UNCHANGED <<types, map>>

TryGet(k) ==
  /\ LET got == mapTryGet(types, map, k)
     IN reply' = Reply("tryGet", k, got.ok, 0, got.value)
  /\ UNCHANGED <<types, map>>

\* get and getWithMessage, which differ in the message of the revert.
Get(k) ==
  /\ LET got == mapGet(types, map, k)
     IN reply' = Reply("get", k, got.ok, 0, got.value)
  /\ UNCHANGED <<types, map>>

MapNext ==
  \/ \E k \in ValuesOf(types.key), v \in ValuesOf(types.value) : Set(k, v)
  \/ \E k \in ValuesOf(types.key) :
       RemoveEntry(k) \/ ContainsKey(k) \/ TryGet(k) \/ Get(k)
  \/ EntryCount
  \/ \E index \in 0 .. MaxEntry : EntryAt(index)

MapSpec == MapInit /\ [][MapNext]_mvars

-----------------------------------------------------------------------------
(* Properties.                                                             *)

\* A removed key leaves no value behind: get and tryGet take a value other
\* than 0 as the proof that the key is present.
NoOrphanValue ==
  \A w \in Words : map.values[w] # 0 => hasKey(map, w)

\* The keys and their positions agree after any sequence of sets and removes.
KeysMatch == IndexesMatch(map.keys)

\* As for a set: only the last entry ever moves, whatever sets and removes do.
EntriesOnlyLastMoves == [][OnlyLastMoves(map.keys, map'.keys)]_mvars

\* The contract is a map that enumerates its entries, for every pair of
\* types: a key with the value 0 is told from a key that is missing, and a
\* key set again after its removal has only the new value.
AsMap == INSTANCE PlainMap WITH
  Keys <- Words, Values <- Words, list <- keysOf(types, map),
  map <- entriesOf(types, map), answer <- reply
MapImplementsPlain == AsMap!Spec
=============================================================================
