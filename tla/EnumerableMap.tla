----------------------------- MODULE EnumerableMap -----------------------------
(***************************************************************************)
(* The library that scripts/generate/templates/EnumerableMap.js generates: *)
(* a Bytes32Set of keys and a mapping from a key to its value.  A word     *)
(* that was never written, or was deleted, is 0, which is also a value a   *)
(* caller may store.  The private map is on words; the template wraps it   *)
(* for pairs of types.                                                     *)
(***************************************************************************)
EXTENDS EnumerableSet

\* The pairs of types of the template, and the map of words itself.
MapTypes == {
  [key |-> "uint256", value |-> "uint256"],
  [key |-> "uint256", value |-> "address"],
  [key |-> "address", value |-> "uint256"],
  [key |-> "bytes32", value |-> "uint256"],
  [key |-> "bytes32", value |-> "bytes32"]}

EmptyMap == [keys |-> EmptySet, values |-> [w \in Words |-> 0]]

setWords(m, k, v) ==
  [keys |-> add("bytes32", m.keys, k),
   values |-> [m.values EXCEPT ![k] = v]]

\* Mutant: the value stays behind.
removeKeyOnly(m, k) == [m EXCEPT !.keys = remove("bytes32", m.keys, k)]

removeKey(m, k) ==
  [keys |-> remove("bytes32", m.keys, k),
   values |-> [m.values EXCEPT ![k] = 0]]

hasKey(m, k) == contains("bytes32", m.keys, k)

\* Mutant: a value of 0 stands for no value.
tryGetNonzero(m, k) ==
  [ok |-> m.values[k] # 0, value |-> m.values[k]]

tryGetWord(m, k) ==
  IF m.values[k] = 0 THEN [ok |-> hasKey(m, k), value |-> 0]
                     ELSE [ok |-> TRUE, value |-> m.values[k]]

\* get: the value, or a revert (ok is FALSE).
getWord(m, k) ==
  IF m.values[k] # 0 \/ hasKey(m, k)
    THEN [ok |-> TRUE, value |-> m.values[k]]
    ELSE [ok |-> FALSE, value |-> 0]

entryAt(m, index) ==
  LET k == at("bytes32", m.keys, index)
  IN [key |-> k, value |-> m.values[k]]

-----------------------------------------------------------------------------
(* The wrappers, for one pair t of types.                                  *)

mapSet(t, m, key, value) ==
  setWords(m, toBytes32(t.key, key), toBytes32(t.value, value))
mapRemove(t, m, key) == removeKey(m, toBytes32(t.key, key))
mapContains(t, m, key) == hasKey(m, toBytes32(t.key, key))
mapAt(t, m, index) ==
  [key |-> fromBytes32(t.key, entryAt(m, index).key),
   value |-> fromBytes32(t.value, entryAt(m, index).value)]
mapTryGet(t, m, key) ==
  LET got == tryGetWord(m, toBytes32(t.key, key))
  IN [got EXCEPT !.value = fromBytes32(t.value, got.value)]
mapGet(t, m, key) ==
  LET got == getWord(m, toBytes32(t.key, key))
  IN [got EXCEPT !.value = fromBytes32(t.value, got.value)]

\* The keys of the map, in the order `at` gives them, and what get returns
\* for each of them.
keysOf(t, m) == values(t.key, m.keys)
entriesOf(t, m) ==
  [k \in {keysOf(t, m)[i] : i \in 1 .. Len(keysOf(t, m))} |-> mapGet(t, m, k).value]
=============================================================================
