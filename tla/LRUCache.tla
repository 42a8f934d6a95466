------------------------------- MODULE LRUCache -------------------------------
(***************************************************************************)
(* The class LRUCache<Key, T>: a list of (key, value) pairs, the most      *)
(* recently used first, and a map from a key to its node of the list.      *)
(* The map is the set of its keys here: a list iterator stays valid until  *)
(* its node is erased, so a key that is in the map always leads to the     *)
(* node emplaced for it, wherever the node has moved in the list.          *)
(*                                                                         *)
(* The operations take and return the list and the map, so that a caller   *)
(* composes them in the order its code calls them.                         *)
(***************************************************************************)
EXTENDS Integers, Sequences

VARIABLES
  itemList,   \* the pairs [key, value], front of the list first
  iterMap     \* the keys of the map

CONSTANT CacheSize   \* maxSize; EventBuilder's constructor passes 10

ASSUME CacheSizeAssumption == CacheSize \in Nat \ {0}

cacheVars == <<itemList, iterMap>>

CacheInit == itemList = <<>> /\ iterMap = {}

Pair(k, v) == [key |-> k, value |-> v]

KeysOf(list) == {list[i].key : i \in DOMAIN list}

-----------------------------------------------------------------------------
(* get(key) finds the key in the map (at() throws out_of_range otherwise)  *)
(* and splices its node to the front.                                      *)

Cached(k) == k \in iterMap

\* Fault: get() returns the item and leaves it where it was in the list.
Stay(list, i) == list

\* The list with node i moved to the front.
Splice(list, i) ==
  [j \in DOMAIN list |-> IF j = 1 THEN list[i]
                         ELSE IF j <= i THEN list[j - 1] ELSE list[j]]

\* The position of the node the map holds for k.
NodeOf(k) == CHOOSE i \in DOMAIN itemList : itemList[i].key = k

(* insert(key, value): the new node goes to the front.  When the list has  *)
(* grown beyond CacheSize the caller must go on with EvictOldest.          *)

Insert(k, v) ==
  /\ itemList' = <<Pair(k, v)>> \o itemList
  /\ iterMap' = iterMap \cup {k}

\* Fault: nothing is ever evicted to make room.
NeverOverfull(list) == FALSE

Overfull(list) == Len(list) > CacheSize

(* evictOldestElement(): the callback is handed the value at the back, and *)
(* returns before the node and its key are erased.                         *)

\* Fault: the item at the front is the one evicted.
Newest == itemList[1]

Oldest == itemList[Len(itemList)]

WithoutOldest == SubSeq(itemList, 1, Len(itemList) - 1)

\* Fault: the node is popped but its key stays in the map.
ForgetNothing == iterMap

ForgetOldest == iterMap \ {Oldest.key}
=============================================================================
