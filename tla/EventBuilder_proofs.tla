-------------------------- MODULE EventBuilder_proofs --------------------------
(***************************************************************************)
(* Proofs about the event builder, for every cache size, every set of      *)
(* event ids and every stream of frames.                                   *)
(***************************************************************************)
EXTENDS EventBuilder, SequenceTheorems, FiniteSetTheorems, TLAPS

Item == [key : EventIds, value : Event]

Distinct(list) ==
  \A i, j \in DOMAIN list : list[i].key = list[j].key => i = j

-----------------------------------------------------------------------------
(* Lemmas about the operations of the cache. *)

LEMMA ItemOf ==
  ASSUME NEW list \in Seq(Item), NEW i \in DOMAIN list
  PROVE  list[i] \in Item /\ list[i].key \in EventIds /\ list[i].value \in Event
<1>1. list[i] \in Item
  OBVIOUS
<1> QED BY <1>1 DEF Item

(* Splicing a node to the front permutes the list. *)
LEMMA SpliceProperties ==
  ASSUME NEW list \in Seq(Item), NEW i \in DOMAIN list
  PROVE  /\ Splice(list, i) \in Seq(Item)
         /\ DOMAIN Splice(list, i) = DOMAIN list
         /\ Len(Splice(list, i)) = Len(list)
         /\ Splice(list, i)[1] = list[i]
         /\ \A j \in DOMAIN list : \E k \in DOMAIN list :
              /\ Splice(list, i)[j] = list[k]
              /\ j # 1 => k # i
         /\ KeysOf(Splice(list, i)) = KeysOf(list)
         /\ Distinct(list) => Distinct(Splice(list, i))
<1> DEFINE S == Splice(list, i)
           From(j) == IF j = 1 THEN i ELSE IF j <= i THEN j - 1 ELSE j
           To(k) == IF k = i THEN 1 ELSE IF k < i THEN k + 1 ELSE k
<1>1. DOMAIN list = 1..Len(list) /\ Len(list) \in Nat /\ i \in 1..Len(list)
  OBVIOUS
<1>2. \A j \in DOMAIN list : From(j) \in DOMAIN list /\ S[j] = list[From(j)]
  BY <1>1 DEF Splice
<1>3. \A k \in DOMAIN list : To(k) \in DOMAIN list /\ From(To(k)) = k
  BY <1>1
<1>4. \A a, b \in DOMAIN list : From(a) = From(b) => a = b
  BY <1>1
<1>5. DOMAIN S = DOMAIN list
  BY DEF Splice
<1>6. S \in Seq(Item) /\ Len(S) = Len(list)
  <2>1. \A j \in 1..Len(list) : S[j] \in Item
    BY <1>1, <1>2
  <2>2. S = [j \in 1..Len(list) |-> S[j]]
    BY <1>1 DEF Splice
  <2>3. S \in [1..Len(list) -> Item]
    BY <2>1, <2>2, Zenon
  <2> QED BY <1>1, <2>3
<1>7. KeysOf(S) = KeysOf(list)
  <2>1. ASSUME NEW x \in KeysOf(S) PROVE x \in KeysOf(list)
    <3>1. PICK j \in DOMAIN list : x = S[j].key
      BY <1>5 DEF KeysOf
    <3> QED BY <3>1, <1>2 DEF KeysOf
  <2>2. ASSUME NEW x \in KeysOf(list) PROVE x \in KeysOf(S)
    <3>1. PICK k \in DOMAIN list : x = list[k].key
      BY DEF KeysOf
    <3> HIDE DEF S, To, From
    <3>2. To(k) \in DOMAIN S /\ S[To(k)] = list[k]
      BY <1>2, <1>3, <1>5
    <3> QED BY <3>1, <3>2 DEF KeysOf
  <2> QED BY <2>1, <2>2
<1>8. Distinct(list) => Distinct(S)
  <2> SUFFICES ASSUME Distinct(list), NEW a \in DOMAIN list, NEW b \in DOMAIN list,
                      S[a].key = S[b].key
               PROVE  a = b
    BY <1>5 DEF Distinct
  <2>1. list[From(a)].key = list[From(b)].key
    BY <1>2
  <2>2. From(a) = From(b)
    BY <1>2, <2>1 DEF Distinct
  <2> QED BY <1>4, <2>2
<1>9. \A j \in DOMAIN list : \E k \in DOMAIN list : S[j] = list[k] /\ (j # 1 => k # i)
  <2> SUFFICES ASSUME NEW j \in DOMAIN list
               PROVE  \E k \in DOMAIN list : S[j] = list[k] /\ (j # 1 => k # i)
    OBVIOUS
  <2>1. From(j) \in DOMAIN list /\ S[j] = list[From(j)]
    BY <1>2
  <2>2. j # 1 => From(j) # i
    BY <1>1
  <2> HIDE DEF S, From
  <2> QED BY <2>1, <2>2
<1>10. S[1] = list[i]
  BY <1>1, <1>2
<1> QED BY <1>5, <1>6, <1>7, <1>8, <1>9, <1>10

(* Changing the value of a node leaves the keys alone. *)
LEMMA ReplaceProperties ==
  ASSUME NEW list \in Seq(Item), NEW i \in DOMAIN list, NEW v \in Event
  PROVE  LET L == [list EXCEPT ![i].value = v] IN
         /\ L \in Seq(Item)
         /\ Len(L) = Len(list)
         /\ DOMAIN L = DOMAIN list
         /\ \A j \in DOMAIN list : L[j] = Pair(list[j].key, IF j = i THEN v ELSE list[j].value)
         /\ KeysOf(L) = KeysOf(list)
         /\ Distinct(list) => Distinct(L)
<1> DEFINE L == [list EXCEPT ![i].value = v]
<1>1. DOMAIN list = 1..Len(list) /\ Len(list) \in Nat
  OBVIOUS
<1>2. DOMAIN L = DOMAIN list
  OBVIOUS
<1>3. \A j \in DOMAIN list : list[j] \in Item
  OBVIOUS
<1>4. ASSUME NEW j \in DOMAIN list
      PROVE  L[j] = Pair(list[j].key, IF j = i THEN v ELSE list[j].value)
  <2>1. list[j] = Pair(list[j].key, list[j].value)
    BY <1>3 DEF Item, Pair
  <2>2. CASE j = i
    BY <2>1, <2>2 DEF Pair
  <2>3. CASE j # i
    BY <2>1, <2>3
  <2> QED BY <2>2, <2>3
<1>5. \A j \in DOMAIN list : L[j] \in Item /\ L[j].key = list[j].key
  BY <1>3, <1>4 DEF Item, Pair
<1> HIDE DEF L
<1>6. L \in Seq(Item) /\ Len(L) = Len(list)
  <2>1. L = [j \in 1..Len(list) |-> L[j]]
    BY <1>1, <1>2 DEF L
  <2>2. L \in [1..Len(list) -> Item]
    BY <1>1, <1>5, <2>1, Zenon
  <2> QED BY <1>1, <2>2
<1>7. KeysOf(L) = KeysOf(list)
  BY <1>2, <1>5 DEF KeysOf
<1>8. Distinct(list) => Distinct(L)
  BY <1>2, <1>5 DEF Distinct
<1> QED BY <1>2, <1>4, <1>6, <1>7, <1>8 DEF L

(* A new node at the front. *)
LEMMA InsertProperties ==
  ASSUME NEW list \in Seq(Item), NEW k \in EventIds, NEW v \in Event
  PROVE  LET L == <<Pair(k, v)>> \o list IN
         /\ L \in Seq(Item)
         /\ Len(L) = Len(list) + 1
         /\ L[1] = Pair(k, v)
         /\ \A j \in DOMAIN list : j + 1 \in DOMAIN L /\ L[j + 1] = list[j]
         /\ \A j \in DOMAIN L : j # 1 => j - 1 \in DOMAIN list /\ L[j] = list[j - 1]
         /\ KeysOf(L) = KeysOf(list) \cup {k}
         /\ Distinct(list) /\ k \notin KeysOf(list) => Distinct(L)
<1> DEFINE L == <<Pair(k, v)>> \o list
<1>1. Pair(k, v) \in Item /\ Pair(k, v).key = k
  BY DEF Item, Pair
<1>2. <<Pair(k, v)>> \in Seq(Item) /\ Len(<<Pair(k, v)>>) = 1
  BY <1>1
<1>3. L \in Seq(Item) /\ Len(L) = Len(list) + 1
  BY <1>2
<1>4. L[1] = Pair(k, v)
  BY <1>2
<1>5. DOMAIN L = 1..(Len(list) + 1) /\ DOMAIN list = 1..Len(list) /\ Len(list) \in Nat
  BY <1>3
<1>6. \A j \in DOMAIN L : j # 1 => j - 1 \in DOMAIN list /\ L[j] = list[j - 1]
  BY <1>2, <1>5
<1>7. \A j \in DOMAIN list : j + 1 \in DOMAIN L /\ L[j + 1] = list[j]
  BY <1>2, <1>5
<1> HIDE DEF L
<1>8. KeysOf(L) = KeysOf(list) \cup {k}
  <2>1. ASSUME NEW x \in KeysOf(L) PROVE x \in KeysOf(list) \cup {k}
    <3>1. PICK j \in DOMAIN L : x = L[j].key
      BY DEF KeysOf
    <3>2. CASE j = 1
      BY <3>1, <3>2, <1>1, <1>4
    <3>3. CASE j # 1
      BY <3>1, <3>3, <1>6 DEF KeysOf
    <3> QED BY <3>2, <3>3
  <2>2. ASSUME NEW x \in KeysOf(list) PROVE x \in KeysOf(L)
    <3>1. PICK j \in DOMAIN list : x = list[j].key
      BY DEF KeysOf
    <3> QED BY <3>1, <1>7 DEF KeysOf
  <2>3. k \in KeysOf(L)
    BY <1>1, <1>4, <1>5 DEF KeysOf
  <2> QED BY <2>1, <2>2, <2>3
<1>9. Distinct(list) /\ k \notin KeysOf(list) => Distinct(L)
  <2> SUFFICES ASSUME Distinct(list), k \notin KeysOf(list),
                      NEW a \in DOMAIN L, NEW b \in DOMAIN L, L[a].key = L[b].key
               PROVE  a = b
    BY DEF Distinct
  <2>1. ASSUME NEW c \in DOMAIN L, c # 1 PROVE L[c].key \in KeysOf(list)
    BY <1>6, <2>1 DEF KeysOf
  <2>2. CASE a = 1 \/ b = 1
    BY <2>1, <2>2, <1>1, <1>4
  <2>3. CASE a # 1 /\ b # 1
    <3>1. list[a - 1].key = list[b - 1].key /\ a - 1 \in DOMAIN list /\ b - 1 \in DOMAIN list
      BY <2>3, <1>6
    <3>2. a - 1 = b - 1
      BY <3>1 DEF Distinct
    <3> QED BY <3>2, <1>5
  <2> QED BY <2>2, <2>3
<1> QED BY <1>3, <1>4, <1>6, <1>7, <1>8, <1>9 DEF L

(* Dropping the node at the back removes its key and nothing else. *)
LEMMA DropProperties ==
  ASSUME NEW list \in Seq(Item), list # <<>>
  PROVE  LET L == SubSeq(list, 1, Len(list) - 1) IN
         /\ L \in Seq(Item)
         /\ Len(L) = Len(list) - 1
         /\ DOMAIN L = 1..(Len(list) - 1)
         /\ \A j \in DOMAIN L : j \in DOMAIN list /\ L[j] = list[j]
         /\ Distinct(list) =>
              /\ KeysOf(L) = KeysOf(list) \ {list[Len(list)].key}
              /\ Distinct(L)
<1> DEFINE n == Len(list)
           L == SubSeq(list, 1, n - 1)
<1>1. n \in Nat /\ n > 0 /\ DOMAIN list = 1..n
  OBVIOUS
<1>2. L \in Seq(Item) /\ Len(L) = n - 1
  BY <1>1
<1>3. DOMAIN L = 1..(n - 1)
  BY <1>1, <1>2
<1>4. \A j \in DOMAIN L : j \in DOMAIN list /\ L[j] = list[j]
  BY <1>1, <1>3
<1> HIDE DEF L
<1>5. ASSUME Distinct(list)
      PROVE  KeysOf(L) = KeysOf(list) \ {list[n].key} /\ Distinct(L)
  <2>1. ASSUME NEW x \in KeysOf(L) PROVE x \in KeysOf(list) \ {list[n].key}
    <3>1. PICK j \in DOMAIN L : x = L[j].key
      BY DEF KeysOf
    <3>2. x = list[j].key /\ j \in DOMAIN list /\ j # n /\ n \in DOMAIN list
      BY <3>1, <1>1, <1>3, <1>4
    <3>3. list[j].key # list[n].key
      BY <3>2, <1>5 DEF Distinct
    <3> QED BY <3>2, <3>3 DEF KeysOf
  <2>2. ASSUME NEW x \in KeysOf(list) \ {list[n].key} PROVE x \in KeysOf(L)
    <3>1. PICK j \in DOMAIN list : x = list[j].key
      BY DEF KeysOf
    <3>2. j \in DOMAIN L
      BY <2>2, <3>1, <1>1, <1>3
    <3> QED BY <3>1, <3>2, <1>4 DEF KeysOf
  <2>3. Distinct(L)
    BY <1>4, <1>5 DEF Distinct
  <2> QED BY <2>1, <2>2, <2>3
<1> QED BY <1>2, <1>3, <1>4, <1>5 DEF L

-----------------------------------------------------------------------------
(* The inductive invariant. *)

(* While insert() is evicting, the list is one too long, and the event at  *)
(* its front is the one for the frame that has just arrived.               *)
EvictState ==
  bpc = "evict" =>
    /\ Len(itemList) = CacheSize + 1
    /\ arrived # <<>>
    /\ itemList[1].value.frames = <<>>
    /\ itemList[1].key = arrived[Len(arrived)].evt

IInv == TypeOK /\ CacheCoherent /\ PublishedOnce /\ EvictState

(* The map leads to the node of the key. *)
LEMMA NodeOfKey ==
  ASSUME CacheCoherent, NEW k \in iterMap
  PROVE  NodeOf(k) \in DOMAIN itemList /\ itemList[NodeOf(k)].key = k
<1>1. \E i \in DOMAIN itemList : itemList[i].key = k
  BY DEF CacheCoherent, KeysOf
<1> QED BY <1>1 DEF NodeOf

(* Appending a frame gives an event that has frames, and an id. *)
LEMMA WithFrameProperties ==
  ASSUME NEW event \in Event, NEW f \in Frames, NEW t \in Nat
  PROVE  /\ WithFrame(event, f, t) \in Event
         /\ WithFrame(event, f, t).frames = Append(event.frames, t)
         /\ WithFrame(event, f, t).frames # <<>>
         /\ WithFrame(event, f, t).eventId
              = IF event.frames = <<>> THEN f.evt ELSE event.eventId
<1>1. f.evt \in Nat
  BY FramesAssumption
<1>2. Append(event.frames, t) \in Seq(Nat) /\ Append(event.frames, t) # <<>>
  BY DEF Event
<1> QED BY <1>1, <1>2 DEF Event, WithFrame

(* Putting an event that is in the cache and erasing it there keeps the    *)
(* published ids distinct, recorded, and apart from the cached ones.       *)
LEMMA OutputProperties ==
  ASSUME TypeOK, CacheCoherent, PublishedOnce,
         NEW i \in DOMAIN itemList,
         itemList[i].value.frames # <<>>,
         ProcessAndOutput(itemList[i].value),
         iterMap' = iterMap \ {itemList[i].key}
  PROVE  /\ out' \in Seq(Event)
         /\ finishedEventIds' \subseteq Nat
         /\ PublishedOnce'
<1> DEFINE e == itemList[i].value
           k == itemList[i].key
<1>1. e \in Event /\ e.eventId = k /\ k \in iterMap /\ k \in Nat
  <2>1. itemList \in Seq(Item)
    BY DEF TypeOK, Item
  <2>2. e \in Event /\ k \in EventIds
    BY <2>1, ItemOf
  <2>3. k \in iterMap
    BY DEF CacheCoherent, KeysOf
  <2>4. e.eventId = k
    BY DEF CacheCoherent
  <2> QED BY <2>2, <2>3, <2>4, FramesAssumption
<1>2. out \in Seq(Event) /\ out' = Append(out, e)
      /\ finishedEventIds' = finishedEventIds \cup {k}
  BY <1>1 DEF TypeOK, ProcessAndOutput
<1> HIDE DEF e
<1>3. /\ out' \in Seq(Event)
      /\ DOMAIN out = 1..Len(out) /\ DOMAIN out' = 1..(Len(out) + 1) /\ Len(out) \in Nat
      /\ \A j \in DOMAIN out : out'[j] = out[j]
      /\ out'[Len(out) + 1] = e
  BY <1>1, <1>2
<1>4. \A j \in DOMAIN out : out[j].eventId # k
  BY <1>1 DEF PublishedOnce
<1>5. \A a, b \in DOMAIN out' : out'[a].eventId = out'[b].eventId => a = b
  BY <1>1, <1>3, <1>4 DEF PublishedOnce
<1>6. finishedEventIds' = {out'[j].eventId : j \in DOMAIN out'}
  <2>1. ASSUME NEW x \in finishedEventIds' PROVE x \in {out'[j].eventId : j \in DOMAIN out'}
    <3>1. CASE x = k
      <4>1. Len(out) + 1 \in DOMAIN out' /\ out'[Len(out) + 1].eventId = x
        BY <3>1, <1>1, <1>3
      <4> QED BY <4>1
    <3>2. CASE x \in finishedEventIds
      <4>1. PICK j \in DOMAIN out : x = out[j].eventId
        BY <3>2 DEF PublishedOnce
      <4>2. j \in DOMAIN out' /\ x = out'[j].eventId
        BY <4>1, <1>3
      <4> QED BY <4>2
    <3> QED BY <3>1, <3>2, <1>2
  <2>2. ASSUME NEW j \in DOMAIN out' PROVE out'[j].eventId \in finishedEventIds'
    <3>1. CASE j = Len(out) + 1
      BY <3>1, <1>1, <1>2, <1>3
    <3>2. CASE j \in DOMAIN out
      BY <3>2, <1>2, <1>3 DEF PublishedOnce
    <3> QED BY <3>1, <3>2, <1>3
  <2> QED BY <2>1, <2>2
<1>7. finishedEventIds' \cap iterMap' = {}
  BY <1>2 DEF PublishedOnce
<1>8. finishedEventIds' \subseteq Nat
  BY <1>1, <1>2 DEF TypeOK
<1> QED BY <1>3, <1>5, <1>6, <1>7, <1>8 DEF PublishedOnce

LEMMA InitInv == Init => IInv
<1> SUFFICES ASSUME Init PROVE IInv
  OBVIOUS
<1> USE DEF Init, CacheInit
<1>1. \A S : <<>> \in Seq(S)
  OBVIOUS
<1>2. Len(<<>>) = 0 /\ DOMAIN <<>> = {} /\ DOMAIN itemList = {} /\ DOMAIN out = {}
  OBVIOUS
<1>3. TypeOK
  <2>1. /\ itemList \in Seq([key : EventIds, value : Event])
        /\ arrived \in Seq(Frames) /\ out \in Seq(Event)
    BY <1>1
  <2>2. Len(itemList) <= CacheSize
    BY <1>2, CacheSizeAssumption
  <2> QED BY <2>1, <2>2 DEF TypeOK
<1>4. CacheCoherent
  BY <1>2 DEF CacheCoherent, KeysOf
<1>5. PublishedOnce
  BY <1>2 DEF PublishedOnce
<1> QED BY <1>3, <1>4, <1>5 DEF IInv, EvictState

(* Every step preserves the invariant. *)
LEMMA StepInv == IInv /\ [Next]_builderVars => IInv'
<1> SUFFICES ASSUME IInv, [Next]_builderVars PROVE IInv'
  OBVIOUS
<1> TypeOK /\ CacheCoherent /\ PublishedOnce /\ EvictState
  BY DEF IInv
<1>0. /\ itemList \in Seq(Item) /\ Len(itemList) \in Nat
      /\ DOMAIN itemList = 1..Len(itemList)
      /\ iterMap = KeysOf(itemList) /\ Distinct(itemList)
      /\ arrived \in Seq(Frames) /\ Len(arrived) \in Nat /\ CacheSize \in Nat
  BY CacheSizeAssumption DEF TypeOK, CacheCoherent, Item, Distinct
<1>1. ASSUME NEW f \in Frames, ThrowOn(f) PROVE IInv'
  <2> USE <1>1 DEF ThrowOn, cacheVars
  <2>1. TypeOK' BY DEF TypeOK
  <2>2. CacheCoherent' BY DEF CacheCoherent, CanTake
  <2>3. PublishedOnce' BY DEF PublishedOnce
  <2>4. EvictState' BY DEF EvictState
  <2> QED BY <2>1, <2>2, <2>3, <2>4 DEF IInv
<1>2. ASSUME NEW f \in Frames, Take(f)
      PROVE  /\ arrived' \in Seq(Frames)
             /\ Len(arrived') = Len(arrived) + 1 /\ arrived'[Len(arrived')] = f
             /\ Number \in Nat /\ Number \in 1..Len(arrived')
             /\ late \subseteq 1..Len(arrived')
             /\ f.evt \in EventIds /\ f.evt \in Nat
             /\ Len(itemList) <= CacheSize
             /\ \A i \in DOMAIN itemList :
                  itemList[i].value.frames # <<>> /\ itemList[i].value.eventId = itemList[i].key
  <2>1. bpc = "get" /\ arrived' = Append(arrived, f)
    BY <1>2 DEF Take, CanTake
  <2>2. arrived' \in Seq(Frames) /\ Len(arrived') = Len(arrived) + 1 /\ arrived'[Len(arrived')] = f
    BY <2>1, <1>0
  <2>3. f.evt \in EventIds /\ f.evt \in Nat
    BY FramesAssumption
  <2>4. Number \in Nat /\ Number \in 1..Len(arrived') /\ late \subseteq 1..Len(arrived')
    BY <2>2, <1>0 DEF Number, TypeOK
  <2>5. Len(itemList) <= CacheSize
    BY <2>1 DEF TypeOK
  <2>6. \A i \in DOMAIN itemList :
          itemList[i].value.frames # <<>> /\ itemList[i].value.eventId = itemList[i].key
    BY <2>1 DEF CacheCoherent
  <2> QED BY <2>2, <2>3, <2>4, <2>5, <2>6
<1>3. ASSUME NEW f \in Frames, AppendToCached(f) PROVE IInv'
  <2> DEFINE i == NodeOf(f.evt)
             S == Splice(itemList, i)
             v == WithFrame(S[1].value, f, Number)
  <2>1. Take(f) /\ f.evt \in iterMap /\ bpc = "get" /\ bpc' = bpc
    BY <1>3 DEF AppendToCached, Cached, Take, CanTake
  <2>2. i \in DOMAIN itemList /\ itemList[i].key = f.evt
    BY <2>1, NodeOfKey
  <2> HIDE DEF i
  <2>3. /\ S \in Seq(Item) /\ DOMAIN S = DOMAIN itemList /\ Len(S) = Len(itemList)
        /\ S[1] = itemList[i]
        /\ \A j \in DOMAIN itemList : \E k \in DOMAIN itemList : S[j] = itemList[k]
        /\ KeysOf(S) = KeysOf(itemList) /\ Distinct(S)
    BY <1>0, <2>2, SpliceProperties, ZenonT(30)
  <2>4. itemList' = [S EXCEPT ![1].value = v]
    BY <1>3 DEF AppendToCached, i
  <2>5. S[1].value \in Event /\ S[1].value.frames # <<>> /\ S[1].value.eventId = f.evt
        /\ S[1].key = f.evt
    <3>1. itemList[i].value \in Event
      BY <1>0, <2>2, ItemOf
    <3> QED BY <3>1, <1>2, <2>1, <2>2, <2>3
  <2> HIDE DEF S
  <2>6. v \in Event /\ v.frames # <<>> /\ v.eventId = f.evt
    BY <2>1, <2>5, <1>2, WithFrameProperties
  <2> HIDE DEF v
  <2>7. 1 \in DOMAIN S
    BY <2>2, <2>3, <1>0
  <2>8. /\ itemList' \in Seq(Item) /\ Len(itemList') = Len(itemList)
        /\ DOMAIN itemList' = DOMAIN itemList
        /\ \A j \in DOMAIN itemList :
             itemList'[j] = Pair(S[j].key, IF j = 1 THEN v ELSE S[j].value)
        /\ KeysOf(itemList') = KeysOf(itemList) /\ Distinct(itemList')
    BY <2>3, <2>4, <2>6, <2>7, ReplaceProperties, ZenonT(30)
  <2>9. UNCHANGED <<iterMap, bpc, finishedEventIds, out, late>>
    BY <1>3 DEF AppendToCached
  <2>10. TypeOK'
    BY <1>2, <2>1, <2>8, <2>9 DEF TypeOK, Item
  <2>11. CacheCoherent'
    <3>1. ASSUME NEW j \in DOMAIN itemList'
          PROVE  itemList'[j].value.frames # <<>> /\ itemList'[j].value.eventId = itemList'[j].key
      <4>1. CASE j = 1
        BY <4>1, <2>5, <2>6, <2>7, <2>8 DEF Pair
      <4>2. CASE j # 1
        <5>1. itemList'[j].value = S[j].value /\ itemList'[j].key = S[j].key
          BY <4>2, <2>8 DEF Pair
        <5>2. PICK k \in DOMAIN itemList : S[j] = itemList[k]
          BY <2>3, <2>8
        <5> QED BY <5>1, <5>2, <1>2, <2>1
      <4> QED BY <4>1, <4>2
    <3> QED BY <3>1, <2>8, <2>9, <1>0 DEF CacheCoherent, Distinct
  <2>12. PublishedOnce'
    BY <2>9 DEF PublishedOnce
  <2>13. EvictState'
    BY <2>1 DEF EvictState
  <2> QED BY <2>10, <2>11, <2>12, <2>13 DEF IInv
<1>4. ASSUME NEW f \in Frames, DropLate(f) PROVE IInv'
  <2> USE <1>4 DEF DropLate, cacheVars
  <2>1. Take(f) /\ bpc = "get"
    BY DEF Take, CanTake
  <2>2. TypeOK'
    BY <1>2, <2>1 DEF TypeOK
  <2>3. CacheCoherent' BY DEF CacheCoherent
  <2>4. PublishedOnce' BY DEF PublishedOnce
  <2>5. EvictState' BY <2>1 DEF EvictState
  <2> QED BY <2>2, <2>3, <2>4, <2>5 DEF IInv
<1>5. ASSUME NEW f \in Frames, NEW v \in Event, Take(f), Insert(f.evt, v),
             f.evt \notin iterMap, f.evt \notin finishedEventIds,
             UNCHANGED <<finishedEventIds, out, late>>
      PROVE  /\ itemList' \in Seq(Item) /\ Len(itemList') = Len(itemList) + 1
             /\ itemList'[1] = Pair(f.evt, v) /\ iterMap' \subseteq EventIds
             /\ iterMap' = KeysOf(itemList') /\ Distinct(itemList')
             /\ \A j \in DOMAIN itemList' : j # 1 =>
                  /\ itemList'[j].value.frames # <<>>
                  /\ itemList'[j].value.eventId = itemList'[j].key
             /\ PublishedOnce'
  <2>1. f.evt \in EventIds /\ f.evt \notin KeysOf(itemList)
    BY <1>0, <1>2, <1>5
  <2>2. /\ itemList' \in Seq(Item) /\ Len(itemList') = Len(itemList) + 1
        /\ itemList'[1] = Pair(f.evt, v)
        /\ \A j \in DOMAIN itemList' : j # 1 =>
             j - 1 \in DOMAIN itemList /\ itemList'[j] = itemList[j - 1]
        /\ KeysOf(itemList') = KeysOf(itemList) \cup {f.evt} /\ Distinct(itemList')
    BY <1>0, <1>5, <2>1, InsertProperties DEF Insert
  <2>3. iterMap' = iterMap \cup {f.evt}
    BY <1>5 DEF Insert
  <2>4. iterMap' \subseteq EventIds
    BY <2>1, <2>3 DEF TypeOK
  <2>5. PublishedOnce'
    BY <1>5, <2>3 DEF PublishedOnce
  <2> QED BY <1>0, <1>2, <1>5, <2>2, <2>3, <2>4, <2>5
<1>6. NewEvent \in Event /\ NewEvent.frames = <<>>
  BY DEF NewEvent, Event
<1>7. ASSUME NEW f \in Frames, StartEvent(f) PROVE IInv'
  <2> DEFINE v == WithFrame(NewEvent, f, Number)
  <2>1. /\ Take(f) /\ bpc = "get" /\ bpc' = bpc
        /\ f.evt \notin iterMap /\ f.evt \notin finishedEventIds
        /\ Insert(f.evt, v) /\ ~Overfull(itemList')
        /\ UNCHANGED <<finishedEventIds, out, late>>
    BY <1>7 DEF StartEvent, Take, CanTake, Cached, EventWasAlreadyWritten
  <2>2. v \in Event /\ v.frames # <<>> /\ v.eventId = f.evt
    BY <1>2, <1>6, <2>1, WithFrameProperties
  <2> HIDE DEF v
  <2>3. /\ itemList' \in Seq(Item) /\ Len(itemList') = Len(itemList) + 1
        /\ itemList'[1] = Pair(f.evt, v) /\ iterMap' \subseteq EventIds
        /\ iterMap' = KeysOf(itemList') /\ Distinct(itemList')
        /\ \A j \in DOMAIN itemList' : j # 1 =>
             itemList'[j].value.frames # <<>> /\ itemList'[j].value.eventId = itemList'[j].key
        /\ PublishedOnce'
    BY <1>5, <2>1, <2>2
  <2>4. TypeOK'
    <3>1. Len(itemList') <= CacheSize
      BY <2>1, <2>3, <1>0 DEF Overfull
    <3> QED BY <3>1, <1>2, <2>1, <2>3 DEF TypeOK, Item
  <2>5. CacheCoherent'
    BY <2>2, <2>3 DEF CacheCoherent, Distinct, Pair
  <2>6. EvictState'
    BY <2>1 DEF EvictState
  <2> QED BY <2>3, <2>4, <2>5, <2>6 DEF IInv
<1>8. ASSUME NEW f \in Frames, StartEventWhenFull(f) PROVE IInv'
  <2>1. /\ Take(f) /\ bpc = "get" /\ bpc' = "evict"
        /\ f.evt \notin iterMap /\ f.evt \notin finishedEventIds
        /\ Insert(f.evt, NewEvent) /\ Overfull(itemList')
        /\ UNCHANGED <<finishedEventIds, out, late>>
    BY <1>8 DEF StartEventWhenFull, Take, CanTake, Cached, EventWasAlreadyWritten
  <2>2. /\ itemList' \in Seq(Item) /\ Len(itemList') = Len(itemList) + 1
        /\ itemList'[1] = Pair(f.evt, NewEvent) /\ iterMap' \subseteq EventIds
        /\ iterMap' = KeysOf(itemList') /\ Distinct(itemList')
        /\ \A j \in DOMAIN itemList' : j # 1 =>
             itemList'[j].value.frames # <<>> /\ itemList'[j].value.eventId = itemList'[j].key
        /\ PublishedOnce'
    BY <1>5, <1>6, <2>1
  <2>3. TypeOK'
    BY <1>2, <2>1, <2>2 DEF TypeOK, Item
  <2>4. CacheCoherent'
    BY <1>6, <2>1, <2>2 DEF CacheCoherent, Distinct, Pair
  <2>5. EvictState'
    <3>1. Len(itemList') = CacheSize + 1
      BY <1>0, <1>2, <2>1, <2>2 DEF Overfull
    <3>2. arrived' # <<>> /\ itemList'[1].key = arrived'[Len(arrived')].evt
      BY <1>0, <1>2, <2>1, <2>2 DEF Pair
    <3>3. itemList'[1].value.frames = <<>>
      BY <1>6, <2>2 DEF Pair
    <3> QED BY <3>1, <3>2, <3>3 DEF EvictState
  <2> QED BY <2>2, <2>3, <2>4, <2>5 DEF IInv
<1>9. ASSUME ProcessAndOutput(Oldest.value), itemList # <<>>, iterMap' = ForgetOldest,
             itemList[Len(itemList)].value.frames # <<>>
      PROVE  /\ WithoutOldest \in Seq(Item) /\ Len(WithoutOldest) = Len(itemList) - 1
             /\ DOMAIN WithoutOldest = 1..(Len(itemList) - 1)
             /\ \A j \in DOMAIN WithoutOldest :
                  j \in DOMAIN itemList /\ WithoutOldest[j] = itemList[j]
             /\ KeysOf(WithoutOldest) = iterMap' /\ Distinct(WithoutOldest)
             /\ out' \in Seq(Event) /\ finishedEventIds' \subseteq Nat /\ PublishedOnce'
             /\ iterMap' \subseteq EventIds
  <2>1. Len(itemList) \in DOMAIN itemList
    BY <1>0, <1>9
  <2>2. out' \in Seq(Event) /\ finishedEventIds' \subseteq Nat /\ PublishedOnce'
    BY <1>9, <2>1, OutputProperties DEF Oldest, ForgetOldest
  <2>3. iterMap' = KeysOf(itemList) \ {itemList[Len(itemList)].key}
    BY <1>0, <1>9 DEF ForgetOldest, Oldest
  <2>4. iterMap' \subseteq EventIds
    BY <1>9 DEF ForgetOldest, TypeOK
  <2> QED BY <1>0, <1>9, <2>2, <2>3, <2>4, DropProperties DEF WithoutOldest
<1>10. CASE Evict
  <2> DEFINE f == arrived[Len(arrived)]
             W == WithoutOldest
             v == WithFrame(W[1].value, f, Len(arrived))
  <2>1. /\ bpc = "evict" /\ bpc' = "get" /\ ProcessAndOutput(Oldest.value)
        /\ itemList' = [W EXCEPT ![1].value = v] /\ iterMap' = ForgetOldest
        /\ UNCHANGED <<arrived, late>>
    BY <1>10 DEF Evict
  <2>2. /\ Len(itemList) = CacheSize + 1 /\ arrived # <<>>
        /\ itemList[1].value.frames = <<>> /\ itemList[1].key = f.evt
    BY <2>1 DEF EvictState
  <2>3. CacheSize >= 1
    BY CacheSizeAssumption
  <2>4. itemList # <<>> /\ itemList[Len(itemList)].value.frames # <<>>
    BY <1>0, <2>2, <2>3 DEF CacheCoherent
  <2>5. /\ W \in Seq(Item) /\ Len(W) = CacheSize /\ DOMAIN W = 1..CacheSize
        /\ \A j \in DOMAIN W : j \in DOMAIN itemList /\ W[j] = itemList[j]
        /\ KeysOf(W) = iterMap' /\ Distinct(W)
        /\ out' \in Seq(Event) /\ finishedEventIds' \subseteq Nat /\ PublishedOnce'
        /\ iterMap' \subseteq EventIds
    BY <1>0, <1>9, <2>1, <2>2, <2>4
  <2> HIDE DEF W
  <2>6. 1 \in DOMAIN W /\ W[1] = itemList[1] /\ W[1] \in Item
    BY <1>0, <2>3, <2>5
  <2>7. f \in Frames /\ Len(arrived) \in Nat
    BY <1>0, <2>2
  <2>8. v \in Event /\ v.frames # <<>> /\ v.eventId = f.evt
    <3>1. W[1].value \in Event /\ W[1].value.frames = <<>>
      BY <2>2, <2>6 DEF Item
    <3> QED BY <2>7, <3>1, WithFrameProperties
  <2> HIDE DEF v, f
  <2>9. /\ itemList' \in Seq(Item) /\ Len(itemList') = CacheSize
        /\ DOMAIN itemList' = DOMAIN W
        /\ \A j \in DOMAIN W :
             itemList'[j] = Pair(W[j].key, IF j = 1 THEN v ELSE W[j].value)
        /\ KeysOf(itemList') = iterMap' /\ Distinct(itemList')
    <3> DEFINE L == [W EXCEPT ![1].value = v]
    <3>0. W \in Seq(Item) /\ 1 \in DOMAIN W /\ v \in Event
      BY <2>5, <2>6, <2>8
    <3>1. /\ L \in Seq(Item) /\ Len(L) = Len(W) /\ DOMAIN L = DOMAIN W
          /\ \A j \in DOMAIN W : L[j] = Pair(W[j].key, IF j = 1 THEN v ELSE W[j].value)
          /\ KeysOf(L) = KeysOf(W)
          /\ Distinct(W) => Distinct(L)
      BY <3>0, ReplaceProperties, Zenon
    <3> HIDE DEF L
    <3>2. itemList' = L
      BY <2>1 DEF L
    <3> QED BY <2>5, <3>1, <3>2
  <2>10. TypeOK'
    BY <1>0, <2>1, <2>5, <2>9 DEF TypeOK, Item
  <2>11. CacheCoherent'
    <3>1. ASSUME NEW j \in DOMAIN itemList'
          PROVE  itemList'[j].value.frames # <<>> /\ itemList'[j].value.eventId = itemList'[j].key
      <4>1. CASE j = 1
        <5>1. itemList'[1] = Pair(itemList[1].key, v)
          BY <2>6, <2>9
        <5> QED BY <4>1, <5>1, <2>2, <2>8 DEF Pair
      <4>2. CASE j # 1
        <5>1. itemList'[j].value = itemList[j].value /\ itemList'[j].key = itemList[j].key
              /\ j \in DOMAIN itemList
          BY <4>2, <2>5, <2>9 DEF Pair
        <5> QED BY <4>2, <5>1 DEF CacheCoherent
      <4> QED BY <4>1, <4>2
    <3> QED BY <3>1, <2>9 DEF CacheCoherent, Distinct
  <2>12. EvictState'
    BY <2>1 DEF EvictState
  <2> QED BY <2>5, <2>10, <2>11, <2>12 DEF IInv
<1>11. CASE FlushOldest
  <2>1. /\ bpc = "flush" /\ bpc' = bpc /\ itemList # <<>>
        /\ ProcessAndOutput(Oldest.value)
        /\ itemList' = WithoutOldest /\ iterMap' = ForgetOldest
        /\ UNCHANGED <<arrived, late>>
    BY <1>11 DEF FlushOldest
  <2>2. itemList[Len(itemList)].value.frames # <<>>
    BY <1>0, <2>1 DEF CacheCoherent
  <2>3. /\ itemList' \in Seq(Item) /\ Len(itemList') = Len(itemList) - 1
        /\ \A j \in DOMAIN itemList' : j \in DOMAIN itemList /\ itemList'[j] = itemList[j]
        /\ KeysOf(itemList') = iterMap' /\ Distinct(itemList')
        /\ out' \in Seq(Event) /\ finishedEventIds' \subseteq Nat /\ PublishedOnce'
        /\ iterMap' \subseteq EventIds
    BY <1>9, <2>1, <2>2
  <2>4. TypeOK'
    <3>1. Len(itemList') <= CacheSize
      BY <1>0, <2>1, <2>3 DEF TypeOK
    <3> QED BY <3>1, <2>1, <2>3 DEF TypeOK, Item
  <2>5. CacheCoherent'
    BY <2>1, <2>3 DEF CacheCoherent, Distinct
  <2>6. EvictState'
    BY <2>1 DEF EvictState
  <2> QED BY <2>3, <2>4, <2>5, <2>6 DEF IInv
<1>12. CASE NoMoreTasks \/ Close \/ DivideByZero \/ UNCHANGED builderVars
  <2> USE <1>12 DEF NoMoreTasks, Close, DivideByZero, builderVars, cacheVars
  <2>1. TypeOK' BY DEF TypeOK
  <2>2. CacheCoherent' BY DEF CacheCoherent
  <2>3. PublishedOnce' BY DEF PublishedOnce
  <2>4. EvictState' BY DEF EvictState
  <2> QED BY <2>1, <2>2, <2>3, <2>4 DEF IInv
<1> QED
  BY <1>1, <1>3, <1>4, <1>7, <1>8, <1>10, <1>11, <1>12 DEF Next, TakeFrame, Terminated

(* The inductive invariant of the event builder. *)
LEMMA Inductive == SafetySpec => []IInv
  BY InitInv, StepInv, PTL DEF SafetySpec

(* Every variable keeps its type, and the cache holds no more than         *)
(* CacheSize events except while insert() is evicting.                     *)
THEOREM TypeCorrect == SafetySpec => []TypeOK
  BY Inductive, PTL DEF IInv

(* The list and the map of the cache agree, whatever frames arrive in      *)
(* whatever order, and every event is cached under its own id.             *)
THEOREM CacheCorrect == SafetySpec => []CacheCoherent
  BY Inductive, PTL DEF IInv

(* No event id reaches the event queue twice.                              *)
THEOREM PublishedOnceCorrect == SafetySpec => []PublishedOnce
  BY Inductive, PTL DEF IInv

-----------------------------------------------------------------------------
(* The builder implements the assembly of events. *)

ArrivedIds == [t \in DOMAIN arrived |-> arrived[t].evt]
Open == [e \in EventIds |-> FramesOf(e)]

(* What FramesOf yields for the nodes of the list and for everything else. *)
OpenNodes ==
  /\ \A j \in DOMAIN itemList :
       FramesOf(itemList[j].key) = IF itemList[j].value.frames = <<>> THEN <<Len(arrived)>>
                                   ELSE itemList[j].value.frames
  /\ \A e \in EventIds \ iterMap : FramesOf(e) = <<>>

LEMMA OpenNodesHold == CacheCoherent => OpenNodes
<1> SUFFICES ASSUME CacheCoherent PROVE OpenNodes
  OBVIOUS
<1>1. ASSUME NEW j \in DOMAIN itemList
      PROVE  FramesOf(itemList[j].key) = IF itemList[j].value.frames = <<>> THEN <<Len(arrived)>>
                                         ELSE itemList[j].value.frames
  <2>1. itemList[j].key \in iterMap
    BY DEF CacheCoherent, KeysOf
  <2>2. NodeOf(itemList[j].key) = j
    BY <2>1, NodeOfKey DEF CacheCoherent
  <2> QED BY <2>1, <2>2 DEF FramesOf
<1> QED BY <1>1 DEF OpenNodes, FramesOf

(* An event whose node keeps its frames is not touched by a step. *)
LEMMA Untouched ==
  ASSUME CacheCoherent, OpenNodes, CacheCoherent', OpenNodes',
         NEW c \in EventIds, c \in iterMap' <=> c \in iterMap,
         \A j \in DOMAIN itemList' : itemList'[j].key = c =>
           \E k \in DOMAIN itemList :
             itemList[k] = itemList'[j] /\ itemList[k].value.frames # <<>>
  PROVE  FramesOf(c)' = FramesOf(c)
<1>1. CASE c \notin iterMap
  BY <1>1 DEF OpenNodes
<1>2. CASE c \in iterMap
  <2>1. PICK j \in DOMAIN itemList' : itemList'[j].key = c
    BY <1>2 DEF CacheCoherent, KeysOf
  <2>2. PICK k \in DOMAIN itemList :
          itemList[k] = itemList'[j] /\ itemList[k].value.frames # <<>>
    BY <2>1
  <2>3. FramesOf(c)' = itemList'[j].value.frames
    BY <2>1, <2>2 DEF OpenNodes
  <2>4. FramesOf(c) = itemList[k].value.frames
    BY <2>1, <2>2 DEF OpenNodes
  <2> QED BY <2>2, <2>3, <2>4
<1> QED BY <1>1, <1>2

(* Every frame the builder takes is the next one to arrive. *)
LEMMA TakeArrives ==
  ASSUME TypeOK, NEW f \in Frames, Take(f)
  PROVE  /\ ArrivedIds' = Append(ArrivedIds, f.evt) /\ Number = Len(ArrivedIds) + 1
         /\ f.evt \in EventIds /\ Len(arrived') = Number
<1>1. arrived \in Seq(Frames) /\ arrived' = Append(arrived, f)
  BY DEF TypeOK, Take
<1>2. f.evt \in EventIds
  BY FramesAssumption
<1>3. ArrivedIds \in Seq(EventIds) /\ Len(ArrivedIds) = Len(arrived)
  <2>1. \A t \in DOMAIN arrived : arrived[t] \in Frames
    BY <1>1
  <2>2. ArrivedIds \in [1..Len(arrived) -> EventIds] /\ Len(arrived) \in Nat
    BY <2>1, <1>1, FramesAssumption DEF ArrivedIds
  <2> QED BY <2>2
<1>4. Len(arrived') = Len(arrived) + 1 /\ DOMAIN arrived' = 1..(Len(arrived) + 1)
      /\ \A t \in DOMAIN arrived' : arrived'[t] = IF t = Len(arrived) + 1 THEN f ELSE arrived[t]
  BY <1>1
<1>5. ArrivedIds' = Append(ArrivedIds, f.evt)
  <2>1. DOMAIN ArrivedIds' = 1..(Len(arrived) + 1)
        /\ \A t \in 1..(Len(arrived) + 1) : ArrivedIds'[t] = arrived'[t].evt
    BY <1>4 DEF ArrivedIds
  <2>2. DOMAIN ArrivedIds = 1..Len(arrived) /\ \A t \in 1..Len(arrived) : ArrivedIds[t] = arrived[t].evt
    BY <1>1 DEF ArrivedIds
  <2>3. ArrivedIds' = [t \in 1..(Len(arrived) + 1) |-> ArrivedIds'[t]]
    BY <2>1 DEF ArrivedIds
  <2>4. Append(ArrivedIds, f.evt)
          = [t \in 1..(Len(arrived) + 1) |-> IF t = Len(arrived) + 1 THEN f.evt ELSE ArrivedIds[t]]
    BY <1>2, <1>3
  <2>5. \A t \in 1..(Len(arrived) + 1) :
          ArrivedIds'[t] = IF t = Len(arrived) + 1 THEN f.evt ELSE ArrivedIds[t]
    BY <2>1, <2>2, <1>1, <1>4
  <2> QED BY <2>3, <2>4, <2>5
<1> QED BY <1>1, <1>2, <1>3, <1>4, <1>5 DEF Number

(* A frame of an event that is in the cache or can be started is added.    *)
LEMMA AppendAdds ==
  ASSUME IInv, IInv', OpenNodes, OpenNodes', NEW f \in Frames, AppendToCached(f)
  PROVE  Open' = [Open EXCEPT ![f.evt] = Append(@, Number)]
<1> DEFINE i == NodeOf(f.evt)
           S == Splice(itemList, i)
           v == WithFrame(S[1].value, f, Number)
<1>1. /\ Take(f) /\ f.evt \in iterMap /\ bpc = "get" /\ iterMap' = iterMap
      /\ itemList' = [S EXCEPT ![1].value = v]
  BY DEF AppendToCached, Cached, Take, CanTake
<1>2. /\ CacheCoherent /\ CacheCoherent' /\ itemList \in Seq(Item) /\ Distinct(itemList)
      /\ arrived \in Seq(Frames)
      /\ \A j \in DOMAIN itemList : itemList[j].value.frames # <<>>
  BY <1>1 DEF IInv, TypeOK, CacheCoherent, Distinct, Item
<1>3. i \in DOMAIN itemList /\ itemList[i].key = f.evt
  BY <1>1, <1>2, NodeOfKey
<1> HIDE DEF i
<1>4. /\ S \in Seq(Item) /\ DOMAIN S = DOMAIN itemList /\ Len(S) = Len(itemList)
      /\ S[1] = itemList[i] /\ Distinct(S)
      /\ \A j \in DOMAIN itemList : \E k \in DOMAIN itemList : S[j] = itemList[k]
  BY <1>2, <1>3, SpliceProperties
<1>5. 1 \in DOMAIN S
  BY <1>2, <1>3, <1>4
<1>6. S[1].value \in Event /\ Number \in Nat
  <2>1. itemList[i].value \in Event
    BY <1>2, <1>3, ItemOf
  <2> QED BY <2>1, <1>2, <1>4 DEF Number
<1>7. v \in Event /\ v.frames = Append(itemList[i].value.frames, Number) /\ v.frames # <<>>
  BY <1>4, <1>6, WithFrameProperties, ZenonT(30)
<1> HIDE DEF S, v
<1>8. /\ DOMAIN itemList' = DOMAIN S
      /\ \A j \in DOMAIN S : itemList'[j] = Pair(S[j].key, IF j = 1 THEN v ELSE S[j].value)
  BY <1>1, <1>4, <1>5, <1>7, ReplaceProperties
<1>9. FramesOf(f.evt)' = Append(FramesOf(f.evt), Number)
  <2>1. itemList'[1].key = f.evt /\ itemList'[1].value = v
    <3>1. itemList'[1] = Pair(S[1].key, v)
      BY <1>5, <1>8
    <3>2. S[1].key = f.evt
      BY <1>3, <1>4
    <3> QED BY <3>1, <3>2 DEF Pair
  <2>2. FramesOf(f.evt)' = v.frames
    BY <2>1, <1>5, <1>7, <1>8 DEF OpenNodes
  <2>3. FramesOf(f.evt) = itemList[i].value.frames
    BY <1>2, <1>3 DEF OpenNodes
  <2> QED BY <2>2, <2>3, <1>7
<1>10. ASSUME NEW c \in EventIds, c # f.evt PROVE FramesOf(c)' = FramesOf(c)
  <2>1. ASSUME NEW j \in DOMAIN itemList', itemList'[j].key = c
        PROVE  \E k \in DOMAIN itemList :
                 itemList[k] = itemList'[j] /\ itemList[k].value.frames # <<>>
    <3>1. itemList'[j].key = S[j].key /\ j # 1
      BY <2>1, <1>3, <1>4, <1>8, <1>10, SMTT(30) DEF Pair
    <3>2. PICK k \in DOMAIN itemList : S[j] = itemList[k]
      BY <1>4, <1>8
    <3>3. itemList[k] = Pair(itemList[k].key, itemList[k].value)
      <4>1. itemList[k] \in Item
        BY <1>2, ItemOf
      <4> QED BY <4>1 DEF Item, Pair
    <3>4. itemList'[j] = itemList[k]
      BY <3>1, <3>2, <3>3, <1>8
    <3> QED BY <3>4, <1>2
  <2> QED BY <2>1, <1>1, <1>2, Untouched
<1>11. f.evt \in EventIds
  BY FramesAssumption
<1> QED BY <1>9, <1>10, <1>11 DEF Open

LEMMA StartAdds ==
  ASSUME IInv, IInv', OpenNodes, OpenNodes', NEW f \in Frames,
         StartEvent(f) \/ StartEventWhenFull(f)
  PROVE  Open' = [Open EXCEPT ![f.evt] = Append(@, Number)]
<1> DEFINE v == IF StartEvent(f) THEN WithFrame(NewEvent, f, Number) ELSE NewEvent
<1>1. /\ Take(f) /\ f.evt \notin iterMap /\ bpc = "get" /\ Insert(f.evt, v)
  BY DEF StartEvent, StartEventWhenFull, Cached, Take, CanTake
<1>2. /\ CacheCoherent /\ CacheCoherent' /\ TypeOK /\ itemList \in Seq(Item)
      /\ \A j \in DOMAIN itemList : itemList[j].value.frames # <<>>
  BY <1>1 DEF IInv, TypeOK, CacheCoherent, Item
<1>3. f.evt \in EventIds
  BY FramesAssumption
<1>4. Number \in Nat /\ Number = Len(arrived')
  <2>1. arrived \in Seq(Frames)
    BY <1>2 DEF TypeOK
  <2> QED BY <2>1, <1>1, <1>2, TakeArrives DEF Number
<1>5. v \in Event /\ (IF v.frames = <<>> THEN <<Number>> ELSE v.frames) = <<Number>>
  <2>1. NewEvent \in Event /\ NewEvent.frames = <<>>
    BY DEF NewEvent, Event
  <2>2. Append(<<>>, Number) = <<Number>>
    OBVIOUS
  <2>3. CASE v = WithFrame(NewEvent, f, Number)
    <3> HIDE DEF v
    <3>1. WithFrame(NewEvent, f, Number) \in Event
          /\ WithFrame(NewEvent, f, Number).frames = <<Number>>
      BY <2>1, <2>2, <1>4, WithFrameProperties
    <3>2. <<Number>> # <<>>
      OBVIOUS
    <3> QED BY <2>3, <3>1, <3>2
  <2>4. CASE v = NewEvent
    BY <2>1, <2>4
  <2>5. v = WithFrame(NewEvent, f, Number) \/ v = NewEvent
    BY Zenon
  <2> QED BY <2>3, <2>4, <2>5
<1> HIDE DEF v
<1>6. /\ Len(itemList') = Len(itemList) + 1 /\ itemList'[1] = Pair(f.evt, v)
      /\ itemList' \in Seq(Item)
      /\ \A j \in DOMAIN itemList' : j # 1 => j - 1 \in DOMAIN itemList /\ itemList'[j] = itemList[j - 1]
  BY <1>1, <1>2, <1>3, <1>5, InsertProperties DEF Insert
<1>7. FramesOf(f.evt)' = Append(FramesOf(f.evt), Number)
  <2>1. 1 \in DOMAIN itemList'
    BY <1>2, <1>6
  <2>2. FramesOf(f.evt)' = <<Number>>
    <3>1. itemList'[1].key = f.evt /\ itemList'[1].value = v
      BY <1>6 DEF Pair
    <3> QED BY <2>1, <3>1, <1>4, <1>5 DEF OpenNodes
  <2>3. FramesOf(f.evt) = <<>>
    BY <1>1, <1>3 DEF OpenNodes
  <2> QED BY <2>2, <2>3
<1>8. ASSUME NEW c \in EventIds, c # f.evt PROVE FramesOf(c)' = FramesOf(c)
  <2>1. ASSUME NEW j \in DOMAIN itemList', itemList'[j].key = c
        PROVE  \E k \in DOMAIN itemList :
                 itemList[k] = itemList'[j] /\ itemList[k].value.frames # <<>>
    <3>1. j # 1
      BY <2>1, <1>6, <1>8 DEF Pair
    <3> QED BY <3>1, <1>2, <1>6
  <2>2. c \in iterMap' <=> c \in iterMap
    BY <1>1, <1>8 DEF Insert
  <2> QED BY <2>1, <2>2, <1>2, Untouched
<1> QED BY <1>3, <1>7, <1>8 DEF Open

(* The event at the back of the list is put, with all its frames.          *)
LEMMA OldestPublishes ==
  ASSUME IInv, IInv', OpenNodes, OpenNodes', Evict \/ FlushOldest
  PROVE  \E e \in EventIds :
           /\ Open[e] # <<>>
           /\ out' = Append(out, [eventId |-> e, frames |-> Open[e]])
           /\ Open' = [Open EXCEPT ![e] = <<>>]
<1> DEFINE n == Len(itemList)
<1>0. PICK k : k = itemList[n].key
  OBVIOUS
<1>1. /\ ProcessAndOutput(itemList[n].value) /\ iterMap' = iterMap \ {k}
      /\ UNCHANGED <<arrived, late>> /\ bpc \in {"evict", "flush"}
      /\ bpc = "evict" <=> Evict
  BY <1>0 DEF Evict, FlushOldest, Oldest, ForgetOldest
<1>2. /\ CacheCoherent /\ CacheCoherent' /\ itemList \in Seq(Item) /\ Distinct(itemList)
      /\ arrived \in Seq(Frames)
  BY DEF IInv, TypeOK, CacheCoherent, Distinct, Item
<1>3. itemList # <<>> /\ n \in DOMAIN itemList /\ (bpc = "evict" => n # 1 /\ n = CacheSize + 1)
  <2>1. CASE bpc = "evict"
    BY <2>1, <1>2, CacheSizeAssumption DEF IInv, EvictState
  <2>2. CASE bpc = "flush"
    BY <2>2, <1>1, <1>2 DEF Evict, FlushOldest
  <2> QED BY <2>1, <2>2, <1>1
<1>4. itemList[n].value.frames # <<>> /\ itemList[n].value.eventId = k
  BY <1>0, <1>1, <1>2, <1>3 DEF CacheCoherent
<1>5. k \in EventIds /\ itemList[n].value \in Event
  BY <1>0, <1>2, <1>3, ItemOf
<1> DEFINE W == WithoutOldest
<1>6. /\ W \in Seq(Item) /\ DOMAIN W = 1..(n - 1) /\ Len(W) = n - 1 /\ Distinct(W)
      /\ \A j \in DOMAIN W : j \in DOMAIN itemList /\ W[j] = itemList[j]
      /\ KeysOf(W) = KeysOf(itemList) \ {k}
  BY <1>0, <1>2, <1>3, DropProperties DEF WithoutOldest
<1> HIDE DEF n, W
<1>7. Open[k] = itemList[n].value.frames
  BY <1>0, <1>3, <1>4, <1>5 DEF OpenNodes, Open
<1>8. itemList[n].value = [eventId |-> k, frames |-> Open[k]]
  BY <1>4, <1>5, <1>7 DEF Event
<1>9. FramesOf(k)' = <<>>
  BY <1>1, <1>5 DEF OpenNodes
<1>10. ASSUME NEW c \in EventIds, c # k, c \in iterMap PROVE FramesOf(c)' = FramesOf(c)
  <2>1. PICK j \in DOMAIN W : W[j].key = c
    <3>1. c \in KeysOf(W)
      BY <1>2, <1>6, <1>10 DEF CacheCoherent
    <3> QED BY <3>1 DEF KeysOf
  <2>2. j \in DOMAIN itemList /\ itemList[j].key = c /\ W[j] = itemList[j]
    BY <2>1, <1>6
  <2>3. CASE FlushOldest
    <3>1. itemList' = W /\ bpc = "flush"
      BY <2>3 DEF FlushOldest, W
    <3>2. itemList[j].value.frames # <<>>
      BY <3>1, <2>2, <1>2 DEF CacheCoherent
    <3>3. FramesOf(c)' = itemList[j].value.frames
      BY <3>1, <3>2, <2>1, <2>2 DEF OpenNodes
    <3>4. FramesOf(c) = itemList[j].value.frames
      BY <3>2, <2>2 DEF OpenNodes
    <3> QED BY <3>3, <3>4
  <2>4. CASE Evict
    <3> DEFINE v == WithFrame(W[1].value, arrived[Len(arrived)], Len(arrived))
    <3>1. itemList' = [W EXCEPT ![1].value = v] /\ bpc = "evict"
      BY <2>4 DEF Evict, W
    <3>2. 1 \in DOMAIN W /\ 1 \in DOMAIN itemList /\ W[1] = itemList[1] /\ W[1] \in Item
      <4>1. n - 1 = CacheSize /\ CacheSize \in Nat /\ CacheSize >= 1
        BY <3>1, <1>3, CacheSizeAssumption
      <4>2. 1 \in DOMAIN W
        BY <4>1, <1>6
      <4> QED BY <4>2, <1>6
    <3>3. W[1].value \in Event /\ W[1].value.frames = <<>> /\ arrived # <<>>
      BY <3>1, <3>2 DEF IInv, EvictState, Item
    <3>4. arrived[Len(arrived)] \in Frames /\ Len(arrived) \in Nat
      BY <3>3, <1>2
    <3>5. v \in Event /\ v.frames = <<Len(arrived)>>
      <4>1. v \in Event /\ v.frames = Append(W[1].value.frames, Len(arrived))
        BY <3>3, <3>4, WithFrameProperties
      <4> QED BY <4>1, <3>3
    <3> HIDE DEF v
    <3>6. /\ DOMAIN itemList' = DOMAIN W
          /\ \A i \in DOMAIN W : itemList'[i] = Pair(W[i].key, IF i = 1 THEN v ELSE W[i].value)
      BY <3>1, <3>2, <3>5, <1>6, ReplaceProperties
    <3>7. itemList'[j].key = c /\ itemList'[j].value = (IF j = 1 THEN v ELSE itemList[j].value)
      BY <3>6, <2>1, <2>2 DEF Pair
    <3>8. CASE j = 1
      <4>1. itemList'[j].value.frames = <<Len(arrived)>> /\ <<Len(arrived)>> # <<>>
        BY <3>5, <3>7, <3>8
      <4>2. FramesOf(c)' = <<Len(arrived)>>
        BY <4>1, <3>6, <3>7, <2>1 DEF OpenNodes
      <4>3. FramesOf(c) = <<Len(arrived)>>
        BY <2>2, <3>2, <3>3, <3>8 DEF OpenNodes
      <4> QED BY <4>2, <4>3
    <3>9. CASE j # 1
      <4>1. itemList[j].value.frames # <<>> /\ itemList'[j].value = itemList[j].value
        BY <3>7, <3>9, <2>2, <1>2 DEF CacheCoherent
      <4>2. FramesOf(c)' = itemList[j].value.frames
        BY <4>1, <3>6, <3>7, <2>1 DEF OpenNodes
      <4>3. FramesOf(c) = itemList[j].value.frames
        BY <4>1, <2>2 DEF OpenNodes
      <4> QED BY <4>2, <4>3
    <3> QED BY <3>8, <3>9
  <2> QED BY <2>3, <2>4
<1>11. ASSUME NEW c \in EventIds, c # k PROVE FramesOf(c)' = FramesOf(c)
  <2>1. CASE c \notin iterMap
    BY <2>1, <1>1 DEF OpenNodes
  <2> QED BY <2>1, <1>10, <1>11
<1>12. Open' = [Open EXCEPT ![k] = <<>>]
  BY <1>5, <1>9, <1>11 DEF Open
<1>13. Open[k] # <<>>
  BY <1>4, <1>7
<1>14. out' = Append(out, [eventId |-> k, frames |-> Open[k]])
  BY <1>1, <1>8 DEF ProcessAndOutput
<1> QED BY <1>5, <1>12, <1>13, <1>14

(* Every step of the builder is a step of the assembly, or none. *)
LEMMA StepRefines ==
  ASSUME IInv, IInv', OpenNodes, OpenNodes', [Next]_builderVars
  PROVE  [Assembly!Next]_(Assembly!assemblyVars)
<1> USE DEF ArrivedIds, Open
<1>1. Assembly!PublishedIds = finishedEventIds
  BY DEF IInv, PublishedOnce, Assembly!PublishedIds
<1>2. ASSUME NEW f \in Frames, AppendToCached(f) \/ StartEvent(f) \/ StartEventWhenFull(f)
      PROVE  Assembly!Add(f.evt)
  <2>1. Take(f) /\ UNCHANGED <<out, late>> /\ f.evt \notin finishedEventIds
    <3>1. f.evt \in iterMap => f.evt \notin finishedEventIds
      BY DEF IInv, PublishedOnce
    <3> QED BY <3>1, <1>2 DEF AppendToCached, StartEvent, StartEventWhenFull, Cached,
                              EventWasAlreadyWritten
  <2>2. Open' = [Open EXCEPT ![f.evt] = Append(@, Number)]
    BY <1>2, AppendAdds, StartAdds
  <2>3. ArrivedIds' = Append(ArrivedIds, f.evt) /\ Number = Len(ArrivedIds) + 1
    BY <2>1, TakeArrives DEF IInv
  <2> QED BY <2>1, <2>2, <2>3, <1>1 DEF Assembly!Add
<1>3. ASSUME NEW f \in Frames, DropLate(f) PROVE Assembly!Discard(f.evt)
  <2>1. /\ Take(f) /\ f.evt \in finishedEventIds /\ late' = late \cup {Number}
        /\ UNCHANGED <<itemList, iterMap, out, bpc>> /\ bpc = "get"
    BY <1>3 DEF DropLate, EventWasAlreadyWritten, cacheVars, Take, CanTake
  <2>2. ArrivedIds' = Append(ArrivedIds, f.evt) /\ Number = Len(ArrivedIds) + 1
    BY <2>1, TakeArrives DEF IInv
  <2>3. \A i \in DOMAIN itemList : itemList[i].value.frames # <<>>
    BY <2>1 DEF IInv, CacheCoherent
  <2>4. ASSUME NEW c \in EventIds PROVE FramesOf(c)' = FramesOf(c)
    BY <2>1, <2>3, Untouched DEF IInv
  <2>5. Open' = Open
    BY <2>4
  <2> QED BY <2>1, <2>2, <2>5, <1>1 DEF Assembly!Discard
<1>4. ASSUME Evict \/ FlushOldest PROVE \E e \in EventIds : Assembly!Publish(e)
  <2>1. PICK e \in EventIds :
           /\ Open[e] # <<>>
           /\ out' = Append(out, [eventId |-> e, frames |-> Open[e]])
           /\ Open' = [Open EXCEPT ![e] = <<>>]
    BY <1>4, OldestPublishes
  <2>2. UNCHANGED <<arrived, late>>
    BY <1>4 DEF Evict, FlushOldest
  <2>3. Assembly!Publish(e)
    BY <2>1, <2>2 DEF Assembly!Publish
  <2> QED BY <2>3
<1>5. ASSUME \/ \E f \in Frames : ThrowOn(f)
             \/ NoMoreTasks \/ Close \/ DivideByZero \/ UNCHANGED builderVars
      PROVE  UNCHANGED Assembly!assemblyVars
  <2>1. UNCHANGED <<itemList, iterMap, arrived, out, late>>
    BY <1>5 DEF ThrowOn, NoMoreTasks, Close, DivideByZero, builderVars, cacheVars
  <2>2. \A c \in EventIds : FramesOf(c)' = FramesOf(c)
    BY <2>1 DEF FramesOf, NodeOf
  <2> QED BY <2>1, <2>2 DEF Assembly!assemblyVars
<1>6. \A f \in Frames : f.evt \in EventIds
  BY FramesAssumption
<1> HIDE DEF ArrivedIds, Open
<1>7. CASE UNCHANGED builderVars
  BY <1>5, <1>7
<1>8. CASE Next
  <2>1. CASE \E f \in Frames : AppendToCached(f) \/ StartEvent(f) \/ StartEventWhenFull(f) \/ DropLate(f)
    BY <2>1, <1>2, <1>3, <1>6 DEF Assembly!Next
  <2>2. CASE Evict \/ FlushOldest
    BY <2>2, <1>4 DEF Assembly!Next
  <2>3. CASE (\E f \in Frames : ThrowOn(f)) \/ NoMoreTasks \/ Close \/ DivideByZero \/ Terminated
    BY <2>3, <1>5 DEF Terminated
  <2> QED BY <2>1, <2>2, <2>3, <1>8 DEF Next, TakeFrame
<1> QED BY <1>7, <1>8

LEMMA InitRefines == Init => Assembly!Init
<1> SUFFICES ASSUME Init PROVE Assembly!Init
  OBVIOUS
<1>1. iterMap = {} /\ arrived = <<>> /\ out = <<>> /\ late = {}
  BY DEF Init, CacheInit
<1>2. [t \in DOMAIN arrived |-> arrived[t].evt] = <<>>
  BY <1>1
<1> QED BY <1>1, <1>2 DEF Assembly!Init, FramesOf

(* The builder, with its cache of CacheSize events and whatever frames     *)
(* arrive in whatever order, implements the assembly of events: a frame    *)
(* goes to the open event of its id or is discarded because that event was *)
(* published, and an event is published once and never changes after that. *)
THEOREM AssemblyImplemented == SafetySpec => ImplementsAssembly
<1>1. IInv => OpenNodes
  BY OpenNodesHold DEF IInv
<1>2. IInv /\ OpenNodes /\ IInv' /\ OpenNodes' /\ [Next]_builderVars
        => [Assembly!Next]_(Assembly!assemblyVars)
  BY StepRefines
<1> QED BY <1>1, <1>2, InitRefines, Inductive, PTL DEF SafetySpec, ImplementsAssembly, Assembly!Spec

-----------------------------------------------------------------------------
(* What holds of every assembly holds of the builder. *)

AP == INSTANCE EventAssembly_proofs WITH
  ids       <- [t \in DOMAIN arrived |-> arrived[t].evt],
  open      <- [e \in EventIds |-> FramesOf(e)],
  published <- out,
  discarded <- late

LEMMA AssemblyInvariants ==
  SafetySpec => [](AP!OwnFrames /\ AP!OnceOnly /\ AP!EachSomewhere /\ AP!NothingMadeUp)
<1>1. AP!Spec => [](AP!OwnFrames /\ AP!OnceOnly /\ AP!EachSomewhere /\ AP!NothingMadeUp)
  BY AP!AssemblyCorrect
<1>2. AP!Spec <=> Assembly!Spec
  BY DEF AP!Spec, Assembly!Spec, AP!Init, Assembly!Init, AP!Next, Assembly!Next,
         AP!Add, Assembly!Add, AP!Discard, Assembly!Discard, AP!Publish, Assembly!Publish,
         AP!PublishedIds, Assembly!PublishedIds, AP!assemblyVars, Assembly!assemblyVars
<1> QED BY <1>1, <1>2, AssemblyImplemented, PTL DEF ImplementsAssembly

AssemblyInv ==
  IInv /\ OpenNodes /\ AP!OwnFrames /\ AP!OnceOnly /\ AP!EachSomewhere /\ AP!NothingMadeUp

LEMMA AssemblyInvHolds == SafetySpec => []AssemblyInv
<1>1. IInv => OpenNodes
  BY OpenNodesHold DEF IInv
<1> QED BY <1>1, Inductive, AssemblyInvariants, PTL DEF AssemblyInv

(* A list of frames that are all of the event e, in order of arrival.      *)
InOrder(frames, e) ==
  /\ \A a \in DOMAIN frames : frames[a] \in DOMAIN arrived /\ arrived[frames[a]].evt = e
  /\ \A a, b \in DOMAIN frames : a < b => frames[a] < frames[b]

(* The events are those that were put and those of the nodes of the list.  *)
LEMMA EventsAre ==
  ASSUME AssemblyInv
  PROVE  /\ DOMAIN AllEvents = 1..(Len(out) + Len(itemList))
         /\ Len(out) \in Nat /\ Len(itemList) \in Nat
         /\ DOMAIN out = 1..Len(out) /\ DOMAIN itemList = 1..Len(itemList)
         /\ \A i \in DOMAIN out : i \in DOMAIN AllEvents /\ AllEvents[i] = out[i]
         /\ \A j \in DOMAIN itemList :
              Len(out) + j \in DOMAIN AllEvents /\ AllEvents[Len(out) + j] = itemList[j].value
         /\ \A i \in DOMAIN AllEvents : i \in DOMAIN out \/ i - Len(out) \in DOMAIN itemList
         /\ \A i \in DOMAIN AllEvents : AllEvents[i] \in Event
<1>1. out \in Seq(Event) /\ itemList \in Seq(Item)
  BY DEF AssemblyInv, IInv, TypeOK, Item
<1> DEFINE values == [j \in DOMAIN itemList |-> itemList[j].value]
<1>2. values \in Seq(Event) /\ Len(values) = Len(itemList)
  <2>1. \A j \in DOMAIN itemList : itemList[j].value \in Event
    BY <1>1, ItemOf
  <2>2. values \in [1..Len(itemList) -> Event] /\ Len(itemList) \in Nat
    BY <2>1, <1>1
  <2> QED BY <2>2
<1>3. \A j \in DOMAIN itemList : values[j] = itemList[j].value
  OBVIOUS
<1>4. AllEvents = out \o values
  BY DEF AllEvents
<1> HIDE DEF values
<1>5. /\ AllEvents \in Seq(Event) /\ DOMAIN AllEvents = 1..(Len(out) + Len(itemList))
      /\ Len(out) \in Nat /\ Len(itemList) \in Nat
      /\ DOMAIN out = 1..Len(out) /\ DOMAIN itemList = 1..Len(itemList)
  BY <1>1, <1>2, <1>4
<1>6. \A i \in 1..Len(out) : i \in DOMAIN AllEvents /\ AllEvents[i] = out[i]
  BY <1>1, <1>2, <1>4, <1>5
<1>7. ASSUME NEW j \in 1..Len(itemList)
      PROVE  Len(out) + j \in DOMAIN AllEvents /\ AllEvents[Len(out) + j] = itemList[j].value
  <2>1. (out \o values)[Len(out) + j] = values[j]
    BY <1>1, <1>2, <1>5
  <2> QED BY <2>1, <1>3, <1>4, <1>5
<1>8. \A i \in DOMAIN AllEvents : i \in 1..Len(out) \/ i - Len(out) \in 1..Len(itemList)
  BY <1>5
<1>9. \A i \in DOMAIN AllEvents : AllEvents[i] \in Event
  BY <1>5
<1> QED BY <1>5, <1>6, <1>7, <1>8, <1>9

LEMMA EventsInOrder ==
  ASSUME AssemblyInv, NEW i \in DOMAIN AllEvents
  PROVE  InOrder(AllEvents[i].frames, AllEvents[i].eventId)
<1> DEFINE ids == [t \in DOMAIN arrived |-> arrived[t].evt]
<1>1. 1..Len(ids) = DOMAIN arrived /\ \A t \in DOMAIN arrived : ids[t] = arrived[t].evt
  <2>1. DOMAIN arrived = 1..Len(arrived) /\ Len(arrived) \in Nat
    BY DEF AssemblyInv, IInv, TypeOK
  <2>2. DOMAIN ids = 1..Len(arrived)
    BY <2>1
  <2> QED BY <2>1, <2>2
<1>2. ASSUME NEW frames, NEW e, AP!FramesOf(ids, e, frames) PROVE InOrder(frames, e)
  <2> HIDE DEF ids
  <2> QED BY <1>1, <1>2 DEF AP!FramesOf, InOrder
<1>3. CASE i \in DOMAIN out
  <2>1. AP!FramesOf(ids, out[i].eventId, out[i].frames)
    BY <1>3 DEF AssemblyInv, AP!OwnFrames
  <2> QED BY <2>1, <1>2, <1>3, EventsAre
<1>4. CASE i - Len(out) \in DOMAIN itemList
  <2> DEFINE j == i - Len(out)
  <2>1. AllEvents[i] = itemList[j].value
    <3>1. AllEvents[Len(out) + j] = itemList[j].value /\ Len(out) + j = i
      BY <1>4, EventsAre
    <3> QED BY <3>1
  <2>2. CASE itemList[j].value.frames = <<>>
    BY <2>1, <2>2 DEF InOrder
  <2>3. CASE itemList[j].value.frames # <<>>
    <3>1. itemList[j].value.eventId = itemList[j].key
      BY <2>3, <1>4 DEF AssemblyInv, IInv, CacheCoherent
    <3>2. itemList[j].key \in EventIds
      BY <1>4, ItemOf DEF AssemblyInv, IInv, TypeOK, Item
    <3>3. FramesOf(itemList[j].key) = itemList[j].value.frames
      BY <2>3, <1>4 DEF AssemblyInv, OpenNodes
    <3>4. AP!FramesOf(ids, itemList[j].key, itemList[j].value.frames)
      BY <3>2, <3>3 DEF AssemblyInv, AP!OwnFrames
    <3> QED BY <3>1, <3>4, <2>1, <1>2
  <2> QED BY <2>2, <2>3
<1> QED BY <1>3, <1>4, EventsAre

(* An event holds the frames of its own event id only, in the order in     *)
(* which they arrived.                                                     *)
THEOREM FramesInTheirEventCorrect == SafetySpec => []FramesInTheirEvent
<1>1. AssemblyInv => FramesInTheirEvent
  BY EventsInOrder DEF FramesInTheirEvent, InOrder
<1> QED BY <1>1, AssemblyInvHolds, PTL

(* A closed builder has an empty cache.                                    *)
ClosedEmpty == bpc = "done" => itemList = <<>>

LEMMA ClosedEmptyHolds == SafetySpec => []ClosedEmpty
<1>1. Init => ClosedEmpty
  BY DEF Init, ClosedEmpty
<1>2. ClosedEmpty /\ [Next]_builderVars => ClosedEmpty'
  BY DEF ClosedEmpty, Next, TakeFrame, ThrowOn, AppendToCached, DropLate, StartEvent,
         StartEventWhenFull, Take, CanTake, Evict, NoMoreTasks, FlushOldest, Close,
         DivideByZero, Terminated, builderVars, cacheVars
<1> QED BY <1>1, <1>2, PTL DEF SafetySpec

(* A place is an event and a position in it.                               *)
PlaceOf(p, t) == p \in Slots /\ AllEvents[p[1]].frames[p[2]] = t

LEMMA SlotIs ==
  \A p \in Slots : /\ p[1] \in DOMAIN AllEvents /\ p[2] \in DOMAIN AllEvents[p[1]].frames
                   /\ p = <<p[1], p[2]>>
  BY DEF Slots

(* No frame has two places.                                                *)
LEMMA OnePlace ==
  ASSUME AssemblyInv, NEW t, NEW p, NEW q, PlaceOf(p, t), PlaceOf(q, t)
  PROVE  p = q
<1> DEFINE i == p[1]
           j == q[1]
           a == p[2]
           b == q[2]
<1>1. /\ i \in DOMAIN AllEvents /\ a \in DOMAIN AllEvents[i].frames /\ p = <<i, a>>
      /\ j \in DOMAIN AllEvents /\ b \in DOMAIN AllEvents[j].frames /\ q = <<j, b>>
      /\ AllEvents[i].frames[a] = t /\ AllEvents[j].frames[b] = t
  BY SlotIs DEF PlaceOf
<1> HIDE DEF i, j, a, b
<1>2. AllEvents[i].eventId = AllEvents[j].eventId
  BY <1>1, EventsInOrder DEF InOrder
<1>3. ASSUME NEW k \in DOMAIN AllEvents, k - Len(out) \in DOMAIN itemList,
             AllEvents[k].frames # <<>>
      PROVE  /\ AllEvents[k].eventId = itemList[k - Len(out)].key
             /\ AllEvents[k].eventId \in iterMap
  <2> DEFINE m == k - Len(out)
  <2>1. Len(out) + m = k
    BY EventsAre
  <2>2. AllEvents[k] = itemList[m].value
    BY <1>3, <2>1, EventsAre
  <2>3. itemList[m].value.eventId = itemList[m].key
    BY <1>3, <2>2 DEF AssemblyInv, IInv, CacheCoherent
  <2>4. itemList[m].key \in iterMap
    BY <1>3 DEF AssemblyInv, IInv, CacheCoherent, KeysOf
  <2> QED BY <2>2, <2>3, <2>4
<1>4. ASSUME NEW k \in DOMAIN out
      PROVE  AllEvents[k].eventId \notin iterMap /\ AllEvents[k] = out[k]
  <2>1. out[k].eventId \in finishedEventIds
    BY DEF AssemblyInv, IInv, PublishedOnce
  <2> QED BY <2>1, EventsAre DEF AssemblyInv, IInv, PublishedOnce
<1>5. AllEvents[i].frames # <<>> /\ AllEvents[j].frames # <<>>
  <2>1. DOMAIN <<>> = {}
    OBVIOUS
  <2> QED BY <2>1, <1>1
<1>6. i = j
  <2>1. CASE i \in DOMAIN out /\ j \in DOMAIN out
    BY <2>1, <1>2, <1>4 DEF AssemblyInv, IInv, PublishedOnce
  <2>2. CASE i \notin DOMAIN out /\ j \notin DOMAIN out
    <3>1. i - Len(out) \in DOMAIN itemList /\ j - Len(out) \in DOMAIN itemList
      BY <2>2, <1>1, EventsAre
    <3>2. itemList[i - Len(out)].key = itemList[j - Len(out)].key
      BY <3>1, <1>1, <1>2, <1>3, <1>5
    <3>3. i - Len(out) = j - Len(out)
      BY <3>1, <3>2 DEF AssemblyInv, IInv, CacheCoherent
    <3> QED BY <3>3, <1>1, EventsAre
  <2>3. ASSUME NEW k \in DOMAIN AllEvents, k \notin DOMAIN out, AllEvents[k].frames # <<>>
        PROVE  AllEvents[k].eventId \in iterMap
    BY <2>3, <1>3, EventsAre
  <2> QED BY <2>1, <2>2, <2>3, <1>1, <1>2, <1>4, <1>5
<1>7. a = b
  <2>1. a \in Nat /\ b \in Nat
    <3>1. AllEvents[i].frames \in Seq(Nat) /\ AllEvents[j].frames \in Seq(Nat)
      BY <1>1, EventsAre DEF Event
    <3> QED BY <3>1, <1>1
  <2>2. InOrder(AllEvents[i].frames, AllEvents[i].eventId) /\ t \in DOMAIN arrived
    BY <1>1, EventsInOrder DEF InOrder
  <2>3. t \in Nat
    BY <2>2 DEF AssemblyInv, IInv, TypeOK
  <2>4. ~(a < b) /\ ~(b < a)
    BY <2>2, <2>3, <1>1, <1>6 DEF InOrder
  <2> QED BY <2>1, <2>4
<1> QED BY <1>1, <1>6, <1>7

(* A frame has a place exactly if it was not dropped, but for the one that *)
(* is in hand.                                                             *)
LEMMA SomePlace ==
  ASSUME AssemblyInv, NEW t \in 1..Len(arrived)
  PROVE  /\ t \in late => ~\E p \in Slots : PlaceOf(p, t)
         /\ t \notin late => t \in InHand \/ \E p \in Slots : PlaceOf(p, t)
<1> DEFINE ids == [u \in DOMAIN arrived |-> arrived[u].evt]
           c == arrived[t].evt
<1>1. t \in DOMAIN arrived /\ t \in 1..Len(ids) /\ ids[t] = c /\ c \in EventIds
  <2>1. DOMAIN arrived = 1..Len(arrived) /\ Len(arrived) \in Nat /\ arrived \in Seq(Frames)
    BY DEF AssemblyInv, IInv, TypeOK
  <2>2. DOMAIN ids = 1..Len(arrived)
    BY <2>1
  <2>3. arrived[t] \in Frames
    BY <2>1
  <2> QED BY <2>1, <2>2, <2>3, FramesAssumption
<1>2. t \in late <=> /\ ~AP!Holds(FramesOf(c), t)
                     /\ \A i \in DOMAIN out : ~AP!Holds(out[i].frames, t)
  BY <1>1 DEF AssemblyInv, AP!EachSomewhere
<1> HIDE DEF ids
<1>3. ASSUME NEW p \in Slots, PlaceOf(p, t) PROVE t \notin late
  <2> DEFINE i == p[1]
             a == p[2]
  <2>1. i \in DOMAIN AllEvents /\ a \in DOMAIN AllEvents[i].frames /\ AllEvents[i].frames[a] = t
    BY <1>3, SlotIs DEF PlaceOf
  <2> HIDE DEF i, a
  <2>2. CASE i \in DOMAIN out
    BY <2>1, <2>2, <1>2, EventsAre DEF AP!Holds
  <2>3. CASE i - Len(out) \in DOMAIN itemList
    <3> DEFINE j == i - Len(out)
    <3>1. AllEvents[i] = itemList[j].value
      <4>1. Len(out) + j = i
        BY <2>1, EventsAre
      <4> QED BY <4>1, <2>3, EventsAre
    <3>2. itemList[j].value.frames # <<>>
      <4>1. DOMAIN <<>> = {}
        OBVIOUS
      <4> QED BY <4>1, <2>1, <3>1
    <3>3. itemList[j].value.eventId = itemList[j].key
      BY <2>3, <3>2 DEF AssemblyInv, IInv, CacheCoherent
    <3>4. itemList[j].key = c
      BY <2>1, <3>1, <3>3, EventsInOrder DEF InOrder
    <3>5. FramesOf(itemList[j].key) = itemList[j].value.frames
      BY <2>3, <3>2 DEF AssemblyInv, OpenNodes
    <3> HIDE DEF j
    <3> QED BY <2>1, <3>1, <3>4, <3>5, <1>2 DEF AP!Holds
  <2> QED BY <2>1, <2>2, <2>3, EventsAre
<1>4. ASSUME NEW i \in DOMAIN AllEvents, NEW a \in DOMAIN AllEvents[i].frames,
             AllEvents[i].frames[a] = t
      PROVE  \E p \in Slots : PlaceOf(p, t)
  <2>1. <<i, a>> \in Slots
    BY DEF Slots
  <2> QED BY <2>1, <1>4 DEF PlaceOf
<1>5. ASSUME t \notin late PROVE t \in InHand \/ \E p \in Slots : PlaceOf(p, t)
  <2>1. CASE \E i \in DOMAIN out : AP!Holds(out[i].frames, t)
    <3>1. PICK i \in DOMAIN out : AP!Holds(out[i].frames, t)
      BY <2>1
    <3>2. PICK a \in DOMAIN out[i].frames : out[i].frames[a] = t
      BY <3>1 DEF AP!Holds
    <3> QED BY <3>2, <1>4, EventsAre
  <2>2. CASE AP!Holds(FramesOf(c), t)
    <3>1. PICK a \in DOMAIN FramesOf(c) : FramesOf(c)[a] = t
      BY <2>2 DEF AP!Holds
    <3>2. c \in iterMap
      <4>1. DOMAIN <<>> = {}
        OBVIOUS
      <4> QED BY <3>1, <4>1, <1>1 DEF AssemblyInv, OpenNodes
    <3>3. PICK j \in DOMAIN itemList : itemList[j].key = c
      BY <3>2 DEF AssemblyInv, IInv, CacheCoherent, KeysOf
    <3>4. CASE itemList[j].value.frames = <<>>
      <4>1. FramesOf(c) = <<Len(arrived)>>
        BY <3>3, <3>4 DEF AssemblyInv, OpenNodes
      <4>2. t = Len(arrived)
        BY <3>1, <4>1
      <4>3. bpc \in {"evict", "aborted"}
        BY <3>4 DEF AssemblyInv, IInv, CacheCoherent
      <4> QED BY <4>2, <4>3 DEF InHand
    <3>5. CASE itemList[j].value.frames # <<>>
      <4>1. FramesOf(c) = itemList[j].value.frames
        BY <3>3, <3>5 DEF AssemblyInv, OpenNodes
      <4>2. Len(out) + j \in DOMAIN AllEvents /\ AllEvents[Len(out) + j] = itemList[j].value
        BY EventsAre
      <4> QED BY <3>1, <4>1, <4>2, <1>4
    <3> QED BY <3>4, <3>5
  <2> QED BY <2>1, <2>2, <1>2, <1>5
<1> QED BY <1>3, <1>5

(* A frame that has arrived is in one event and there once, or was dropped *)
(* as late, or is in hand; and a builder that is done left nothing behind. *)
THEOREM FramesFiledOnceCorrect == SafetySpec => []FramesFiledOnce
<1>1. ASSUME AssemblyInv, ClosedEmpty PROVE FramesFiledOnce
  <2> SUFFICES ASSUME NEW t \in 1..Len(arrived)
               PROVE  LET places == {p \in Slots : AllEvents[p[1]].frames[p[2]] = t}
                      IN  IF t \in late THEN places = {}
                          ELSE t \in InHand \/ \E p \in Slots : places = {p}
    BY <1>1 DEF FramesFiledOnce, ClosedEmpty
  <2> DEFINE places == {p \in Slots : AllEvents[p[1]].frames[p[2]] = t}
  <2>1. \A p : p \in places <=> PlaceOf(p, t)
    BY DEF PlaceOf
  <2> HIDE DEF places
  <2>2. CASE t \in late
    <3>1. places = {}
      BY <2>1, <2>2, <1>1, SomePlace DEF PlaceOf
    <3> QED BY <2>2, <3>1 DEF places
  <2>3. CASE t \notin late /\ t \notin InHand
    <3>1. PICK p \in Slots : PlaceOf(p, t)
      BY <2>3, <1>1, SomePlace
    <3>2. places = {p}
      BY <2>1, <3>1, <1>1, OnePlace
    <3> QED BY <2>3, <3>2 DEF places
  <2> QED BY <2>2, <2>3
<1>2. AssemblyInv /\ ClosedEmpty => FramesFiledOnce
  BY <1>1
<1> QED BY <1>2, AssemblyInvHolds, ClosedEmptyHolds, PTL

(* When the builder is done every frame that arrived has an event that was *)
(* put, and is in it unless it was late; no event without a frame was put. *)
EachFiled ==
  bpc = "done" =>
    /\ \A i \in DOMAIN out : out[i].frames # <<>>
    /\ \A t \in DOMAIN arrived : \E i \in DOMAIN out :
         /\ out[i].eventId = arrived[t].evt
         /\ t \in late \/ \E k \in DOMAIN out[i].frames : out[i].frames[k] = t

THEOREM EachFiledCorrect == SafetySpec => []EachFiled
<1>1. ASSUME AssemblyInv, ClosedEmpty, bpc = "done", NEW t \in DOMAIN arrived
      PROVE  \E i \in DOMAIN out :
               /\ out[i].eventId = arrived[t].evt
               /\ t \in late \/ \E k \in DOMAIN out[i].frames : out[i].frames[k] = t
  <2>1. CASE t \in late
    <3> DEFINE ids == [u \in DOMAIN arrived |-> arrived[u].evt]
    <3>1. ids[t] \in AP!PublishedIds
      BY <1>1, <2>1 DEF AssemblyInv, AP!NothingMadeUp
    <3>2. ids[t] = arrived[t].evt
      OBVIOUS
    <3> HIDE DEF ids
    <3> QED BY <2>1, <3>1, <3>2 DEF AP!PublishedIds
  <2>2. CASE t \notin late
    <3>1. t \in 1..Len(arrived)
      BY <1>1 DEF AssemblyInv, IInv, TypeOK
    <3>2. PICK p \in Slots : PlaceOf(p, t)
      BY <1>1, <2>2, <3>1, SomePlace DEF InHand
    <3> DEFINE i == p[1]
    <3>3. /\ i \in DOMAIN AllEvents /\ p[2] \in DOMAIN AllEvents[i].frames
          /\ AllEvents[i].frames[p[2]] = t
      BY <3>2, SlotIs DEF PlaceOf
    <3> HIDE DEF i
    <3>4. DOMAIN itemList = {}
      BY <1>1 DEF ClosedEmpty
    <3>5. i \in DOMAIN out /\ AllEvents[i] = out[i]
      BY <1>1, <3>3, <3>4, EventsAre
    <3>6. arrived[t].evt = AllEvents[i].eventId
      BY <1>1, <3>3, EventsInOrder DEF InOrder
    <3> QED BY <3>3, <3>5, <3>6
  <2> QED BY <2>1, <2>2
<1>2. AssemblyInv => \A i \in DOMAIN out : out[i].frames # <<>>
  BY DEF AssemblyInv, AP!NothingMadeUp
<1>3. AssemblyInv /\ ClosedEmpty => EachFiled
  BY <1>1, <1>2 DEF EachFiled
<1> QED BY <1>3, AssemblyInvHolds, ClosedEmptyHolds, PTL

-----------------------------------------------------------------------------
(* The cache evicts what has been idle. *)

(* The most recent frame of a cached event; while insert() is evicting,    *)
(* that of the event it makes room for is the one in hand.                 *)
RecentOf(node) ==
  IF node.value.frames = <<>> THEN Len(arrived)
  ELSE node.value.frames[Len(node.value.frames)]

(* l is the last frame of the event e that was not late. *)
IsLast(l, e) ==
  /\ l \in (1..Len(arrived)) \ late
  /\ arrived[l].evt = e
  /\ \A u \in (l + 1)..Len(arrived) : arrived[u].evt = e => u \in late

(* The other events of which frames have arrived since. *)
Others(l, e) == {arrived[u].evt : u \in (l + 1)..Len(arrived)} \ {e}

(* The list is sorted by the most recent frames of its events.             *)
RecentFirst ==
  /\ \A i \in DOMAIN itemList : IsLast(RecentOf(itemList[i]), itemList[i].key)
  /\ \A i, j \in DOMAIN itemList : i < j => RecentOf(itemList[j]) < RecentOf(itemList[i])

(* As long as frames arrive, an event is only put when it has been idle.   *)
EvictedIdle ==
  bpc \in {"get", "evict"} =>
    \A e \in finishedEventIds : \E l \in 1..Len(arrived) :
      IsLast(l, e) /\ Cardinality(Others(l, e)) >= CacheSize

RecencyInv == IInv /\ RecentFirst /\ EvictedIdle /\ LateOnlyWhenIdle

(* What arrives. *)
LEMMA Arrives ==
  ASSUME TypeOK, NEW f \in Frames, Take(f)
  PROVE  /\ Len(arrived) \in Nat /\ Number = Len(arrived) + 1
         /\ Len(arrived') = Number /\ arrived'[Number] = f
         /\ \A u \in 1..Len(arrived) : arrived'[u] = arrived[u]
         /\ late \subseteq 1..Len(arrived) /\ Number \notin late
<1>1. arrived \in Seq(Frames) /\ arrived' = Append(arrived, f) /\ late \subseteq 1..Len(arrived)
  BY DEF TypeOK, Take
<1> QED BY <1>1 DEF Number

(* Another frame does not change which frame of an event was the last, if  *)
(* it is of another event or late.                                         *)
LEMMA LastStays ==
  ASSUME TypeOK, NEW f \in Frames, Take(f),
         late' = late \/ late' = late \cup {Number},
         NEW l, NEW e, IsLast(l, e), f.evt = e => Number \in late'
  PROVE  IsLast(l, e)'
<1>1. /\ Len(arrived) \in Nat /\ Number = Len(arrived) + 1 /\ Len(arrived') = Number
      /\ arrived'[Number] = f /\ \A u \in 1..Len(arrived) : arrived'[u] = arrived[u]
      /\ late \subseteq 1..Len(arrived) /\ Number \notin late
  BY Arrives
<1>2. l \in 1..Len(arrived) /\ l \notin late /\ arrived[l].evt = e
  BY DEF IsLast
<1>3. l \in 1..Len(arrived') /\ l \notin late' /\ arrived'[l].evt = e
  BY <1>1, <1>2
<1>4. ASSUME NEW u \in (l + 1)..Len(arrived'), arrived'[u].evt = e PROVE u \in late'
  <2>1. CASE u = Number
    BY <2>1, <1>1, <1>4
  <2>2. CASE u # Number
    <3>1. u \in (l + 1)..Len(arrived) /\ u \in 1..Len(arrived)
      BY <2>2, <1>1, <1>2
    <3>2. arrived[u].evt = e
      BY <3>1, <1>1, <1>4
    <3> QED BY <3>1, <3>2 DEF IsLast
  <2> QED BY <2>1, <2>2
<1> QED BY <1>3, <1>4 DEF IsLast

(* A frame that is not late is the last of its event. *)
LEMMA NewIsLast ==
  ASSUME TypeOK, NEW f \in Frames, Take(f), UNCHANGED late
  PROVE  IsLast(Len(arrived), f.evt)'
<1>1. /\ Len(arrived) \in Nat /\ Number = Len(arrived) + 1 /\ Len(arrived') = Number
      /\ arrived'[Number] = f /\ Number \notin late
  BY Arrives
<1>2. ~\E u \in (Len(arrived') + 1)..Len(arrived') : TRUE
  BY <1>1
<1>3. Len(arrived') \in (1..Len(arrived')) \ late' /\ arrived'[Len(arrived')].evt = f.evt
  BY <1>1
<1> QED BY <1>2, <1>3 DEF IsLast

LEMMA EventsAfterFinite ==
  ASSUME NEW a, Len(a) \in Nat, NEW l \in Nat, NEW e
  PROVE  LET others == {a[u].evt : u \in (l + 1)..Len(a)} \ {e}
         IN  IsFiniteSet(others) /\ Cardinality(others) \in Nat
<1> DEFINE S == (l + 1)..Len(a)
           T == {a[u].evt : u \in S}
           ev == [u \in S |-> a[u].evt]
<1>1. IsFiniteSet(S)
  BY FS_Interval
<1>2. ev \in Surjection(S, T)
  BY DEF Surjection
<1>3. IsFiniteSet(T)
  BY <1>1, <1>2, FS_Surjection
<1> HIDE DEF T
<1>4. IsFiniteSet(T \ {e})
  BY <1>3, FS_Difference
<1>5. Cardinality(T \ {e}) \in Nat
  BY <1>4, FS_CardinalityType
<1> QED BY <1>4, <1>5 DEF T

(* The others of an event do not become fewer. *)
LEMMA OthersGrow ==
  ASSUME TypeOK, TypeOK', NEW f \in Frames, Take(f), NEW l \in Nat, NEW e,
         Cardinality(Others(l, e)) >= CacheSize
  PROVE  Cardinality(Others(l, e)') >= CacheSize
<1>1. /\ Len(arrived) \in Nat /\ Number = Len(arrived) + 1 /\ Len(arrived') = Number
      /\ \A u \in 1..Len(arrived) : arrived'[u] = arrived[u]
  BY Arrives
<1>2. ASSUME NEW u \in (l + 1)..Len(arrived)
      PROVE  u \in (l + 1)..Len(arrived') /\ arrived'[u] = arrived[u]
  BY <1>1
<1>3. Others(l, e) \subseteq Others(l, e)'
  BY <1>2 DEF Others
<1>4. /\ IsFiniteSet(Others(l, e)') /\ Cardinality(Others(l, e)') \in Nat
      /\ Cardinality(Others(l, e)) \in Nat
  <2>1. ASSUME NEW a, Len(a) \in Nat
        PROVE  LET others == {a[u].evt : u \in (l + 1)..Len(a)} \ {e}
               IN  IsFiniteSet(others) /\ Cardinality(others) \in Nat
    BY <2>1, EventsAfterFinite
  <2>2. Len(arrived') \in Nat
    BY <1>1
  <2> QED BY <2>1, <2>2, <1>1 DEF Others
<1>5. Cardinality(Others(l, e)) <= Cardinality(Others(l, e)')
  BY <1>3, <1>4, FS_Subset
<1> QED BY <1>4, <1>5, CacheSizeAssumption

(* Frames that arrive only add to what is known of the late ones. *)
LEMMA LateStays ==
  ASSUME TypeOK, NEW f \in Frames, Take(f), LateOnlyWhenIdle,
         late' = late \/ late' = late \cup {Number},
         Number \in late' =>
           \E l \in 1..Len(arrived) :
             IsLast(l, f.evt) /\ Cardinality(Others(l, f.evt)) >= CacheSize
  PROVE  LateOnlyWhenIdle'
<1>1. /\ Len(arrived) \in Nat /\ Number = Len(arrived) + 1 /\ Len(arrived') = Number
      /\ arrived'[Number] = f /\ \A u \in 1..Len(arrived) : arrived'[u] = arrived[u]
      /\ late \subseteq 1..Len(arrived) /\ Number \notin late
  BY Arrives
<1> DEFINE After(a, l, t) == {a[u].evt : u \in (l + 1)..(t - 1)} \ {a[t].evt}
<1>2. ASSUME NEW t \in 1..Number, NEW l \in 1..(t - 1), l \notin late,
             arrived'[l].evt = arrived'[t].evt,
             \A u \in (l + 1)..(t - 1) : arrived'[u].evt = arrived'[t].evt => u \in late,
             Cardinality(After(arrived', l, t)) >= CacheSize
      PROVE  \E last \in (1..(t - 1)) \ late' :
               /\ arrived'[last].evt = arrived'[t].evt
               /\ \A u \in (last + 1)..(t - 1) : arrived'[u].evt = arrived'[t].evt => u \in late'
               /\ Cardinality(After(arrived', last, t)) >= CacheSize
  <2>1. l # Number /\ late \subseteq late'
    BY <1>1, <1>2
  <2> HIDE DEF After
  <2> QED BY <1>2, <2>1
<1>3. ASSUME NEW t \in late, NEW l \in 1..(t - 1)
      PROVE  /\ arrived'[l] = arrived[l] /\ arrived'[t] = arrived[t] /\ t \in 1..Number
             /\ \A u \in (l + 1)..(t - 1) : arrived'[u] = arrived[u]
             /\ After(arrived', l, t) = After(arrived, l, t)
  <2>1. t \in 1..Len(arrived)
    BY <1>1
  <2>2. \A u \in (l + 1)..(t - 1) : arrived'[u] = arrived[u]
    BY <2>1, <1>1
  <2>3. arrived'[l] = arrived[l] /\ arrived'[t] = arrived[t] /\ t \in 1..Number
    BY <2>1, <1>1
  <2>4. {arrived'[u].evt : u \in (l + 1)..(t - 1)} = {arrived[u].evt : u \in (l + 1)..(t - 1)}
    BY <2>2
  <2> QED BY <2>2, <2>3, <2>4
<1>4. ASSUME NEW t \in late
      PROVE  \E last \in (1..(t - 1)) \ late' :
               /\ arrived'[last].evt = arrived'[t].evt
               /\ \A u \in (last + 1)..(t - 1) : arrived'[u].evt = arrived'[t].evt => u \in late'
               /\ Cardinality(After(arrived', last, t)) >= CacheSize
  <2>1. PICK l \in (1..(t - 1)) \ late :
          /\ arrived[l].evt = arrived[t].evt
          /\ \A u \in (l + 1)..(t - 1) : arrived[u].evt = arrived[t].evt => u \in late
          /\ Cardinality(After(arrived, l, t)) >= CacheSize
    BY DEF LateOnlyWhenIdle
  <2> HIDE DEF After
  <2>2. /\ arrived'[l].evt = arrived'[t].evt /\ t \in 1..Number
        /\ \A u \in (l + 1)..(t - 1) : arrived'[u].evt = arrived'[t].evt => u \in late
        /\ Cardinality(After(arrived', l, t)) >= CacheSize
    BY <1>3, <2>1
  <2> QED BY <1>2, <2>1, <2>2
<1>5. ASSUME Number \in late'
      PROVE  \E last \in (1..(Number - 1)) \ late' :
               /\ arrived'[last].evt = arrived'[Number].evt
               /\ \A u \in (last + 1)..(Number - 1) :
                    arrived'[u].evt = arrived'[Number].evt => u \in late'
               /\ Cardinality(After(arrived', last, Number)) >= CacheSize
  <2>1. PICK l \in 1..Len(arrived) :
          IsLast(l, f.evt) /\ Cardinality(Others(l, f.evt)) >= CacheSize
    BY <1>5
  <2>2. \A u \in (l + 1)..(Number - 1) : u \in (l + 1)..Len(arrived) /\ arrived'[u] = arrived[u]
    BY <1>1
  <2>3. After(arrived', l, Number) = Others(l, f.evt)
    <3>1. {arrived'[u].evt : u \in (l + 1)..(Number - 1)}
            = {arrived[u].evt : u \in (l + 1)..Len(arrived)}
      BY <2>2, <1>1
    <3> QED BY <3>1, <1>1 DEF Others
  <2> HIDE DEF After
  <2>4. /\ Number \in 1..Number /\ l \in 1..(Number - 1) /\ l \notin late
        /\ arrived'[l].evt = arrived'[Number].evt
        /\ \A u \in (l + 1)..(Number - 1) : arrived'[u].evt = arrived'[Number].evt => u \in late
    BY <2>1, <2>2, <1>1 DEF IsLast
  <2> QED BY <1>2, <2>1, <2>3, <2>4
<1>6. \A t \in late' : t \in late \/ (t = Number /\ Number \in late')
  OBVIOUS
<1> HIDE DEF After
<1>7. \A t \in late' : \E last \in (1..(t - 1)) \ late' :
        /\ arrived'[last].evt = arrived'[t].evt
        /\ \A u \in (last + 1)..(t - 1) : arrived'[u].evt = arrived'[t].evt => u \in late'
        /\ Cardinality(After(arrived', last, t)) >= CacheSize
  BY <1>4, <1>5, <1>6
<1> QED BY <1>7 DEF LateOnlyWhenIdle, After

(* A step that has the event of the new frame at the front of the list,    *)
(* and the other nodes behind it in the order they had, keeps the order.   *)
LEMMA NewInFront ==
  ASSUME TypeOK, TypeOK', RecentFirst, NEW f \in Frames, Take(f), UNCHANGED late,
         itemList' # <<>>, itemList'[1].key = f.evt,
         RecentOf(itemList[1])' = Number,
         NEW From,
         \A j \in DOMAIN itemList' : j # 1 =>
           /\ From[j] \in DOMAIN itemList /\ itemList'[j] = itemList[From[j]]
           /\ itemList'[j].key # f.evt /\ itemList'[j].value.frames # <<>>,
         \A a, b \in DOMAIN itemList' : a # 1 /\ a < b => From[a] < From[b]
  PROVE  RecentFirst'
<1>1. /\ Len(arrived) \in Nat /\ Number = Len(arrived) + 1 /\ Len(arrived') = Number
  BY Arrives
<1>2. DOMAIN itemList' = 1..Len(itemList') /\ Len(itemList') \in Nat
  BY DEF TypeOK
<1>3. ASSUME NEW j \in DOMAIN itemList', j # 1
      PROVE  /\ RecentOf(itemList[j])' = RecentOf(itemList[From[j]])
             /\ RecentOf(itemList[j])' < Number
             /\ IsLast(RecentOf(itemList[j]), itemList[j].key)'
  <2>1. PICK l, e : l = RecentOf(itemList[From[j]]) /\ e = itemList[From[j]].key
    OBVIOUS
  <2>2. RecentOf(itemList[j])' = l /\ itemList'[j].key = e
    BY <1>3, <2>1 DEF RecentOf
  <2>3. IsLast(l, e) /\ f.evt # e
    BY <1>3, <2>1 DEF RecentFirst
  <2>4. IsLast(l, e)'
    BY <2>3, LastStays
  <2>5. l < Number
    BY <2>3, <1>1 DEF IsLast
  <2> QED BY <2>1, <2>2, <2>4, <2>5
<1>4. IsLast(RecentOf(itemList[1]), itemList[1].key)'
  <2>1. RecentOf(itemList[1])' = Len(arrived')
    BY <1>1
  <2> QED BY <2>1, NewIsLast
<1>5. ASSUME NEW a \in DOMAIN itemList', NEW b \in DOMAIN itemList', a < b
      PROVE  RecentOf(itemList[b])' < RecentOf(itemList[a])'
  <2>1. b # 1
    BY <1>2, <1>5
  <2>2. CASE a = 1
    BY <2>1, <2>2, <1>3
  <2>3. CASE a # 1
    <3>1. From[a] < From[b] /\ From[a] \in DOMAIN itemList /\ From[b] \in DOMAIN itemList
      BY <1>5, <2>1, <2>3
    <3>2. RecentOf(itemList[From[b]]) < RecentOf(itemList[From[a]])
      BY <3>1 DEF RecentFirst
    <3> QED BY <3>2, <2>1, <2>3, <1>3
  <2> QED BY <2>2, <2>3
<1> QED BY <1>3, <1>4, <1>5 DEF RecentFirst

(* What a late or an idle event was to the frames before it, it remains.   *)
LEMMA IdleStays ==
  ASSUME TypeOK, TypeOK', NEW f \in Frames, Take(f), EvictedIdle,
         late' = late \/ late' = late \cup {Number},
         UNCHANGED finishedEventIds,
         f.evt \in finishedEventIds => Number \in late'
  PROVE  EvictedIdle'
<1>1. bpc = "get" /\ Len(arrived) \in Nat /\ Len(arrived') = Len(arrived) + 1
  BY Arrives DEF Take, CanTake
<1>2. ASSUME NEW e \in finishedEventIds
      PROVE  \E l \in 1..Len(arrived') : IsLast(l, e)' /\ Cardinality(Others(l, e)') >= CacheSize
  <2>1. PICK l \in 1..Len(arrived) : IsLast(l, e) /\ Cardinality(Others(l, e)) >= CacheSize
    BY <1>1 DEF EvictedIdle
  <2>2. IsLast(l, e)'
    BY <2>1, LastStays
  <2>3. Cardinality(Others(l, e)') >= CacheSize
    BY <2>1, OthersGrow
  <2> QED BY <2>2, <2>3, <1>1
<1> QED BY <1>2 DEF EvictedIdle

(* When insert() evicts, frames of all the other events in the list have   *)
(* arrived since the last one of the oldest.                               *)
LEMMA OldestIdle ==
  ASSUME IInv, RecentFirst, bpc = "evict", NEW e, e = Oldest.key
  PROVE  \E l \in 1..Len(arrived) : IsLast(l, e) /\ Cardinality(Others(l, e)) >= CacheSize
<1>1. /\ Len(itemList) = CacheSize + 1 /\ DOMAIN itemList = 1..(CacheSize + 1)
      /\ CacheSize \in Nat /\ CacheSize + 1 \in DOMAIN itemList
      /\ Len(arrived) \in Nat
  BY CacheSizeAssumption DEF IInv, EvictState, TypeOK
<1>2. PICK l : l = RecentOf(Oldest)
  OBVIOUS
<1>3. IsLast(l, e) /\ l \in 1..Len(arrived)
  BY <1>1, <1>2 DEF RecentFirst, Oldest, IsLast
<1>4. ASSUME NEW i \in 1..CacheSize PROVE itemList[i].key \in Others(l, e)
  <2>1. i \in DOMAIN itemList /\ i < CacheSize + 1
    BY <1>1
  <2>2. l < RecentOf(itemList[i])
    BY <1>1, <1>2, <2>1 DEF RecentFirst, Oldest
  <2>3. /\ RecentOf(itemList[i]) \in 1..Len(arrived)
        /\ arrived[RecentOf(itemList[i])].evt = itemList[i].key
    BY <2>1 DEF RecentFirst, IsLast
  <2>4. RecentOf(itemList[i]) \in (l + 1)..Len(arrived)
    BY <2>2, <2>3, <1>3, <1>1
  <2>5. itemList[i].key # e
    BY <1>1, <2>1 DEF IInv, CacheCoherent, Oldest
  <2> QED BY <2>3, <2>4, <2>5 DEF Others
<1> DEFINE key == [i \in 1..CacheSize |-> itemList[i].key]
<1>5. key \in Injection(1..CacheSize, Others(l, e))
  <2>1. \A i, j \in 1..CacheSize : itemList[i].key = itemList[j].key => i = j
    BY <1>1 DEF IInv, CacheCoherent
  <2> QED BY <1>4, <2>1 DEF Injection, IsInjective
<1> HIDE DEF key
<1>6. IsFiniteSet(Others(l, e)) /\ Cardinality(Others(l, e)) \in Nat
  <2>1. l \in Nat
    BY <1>1, <1>3
  <2> QED BY <2>1, <1>1, EventsAfterFinite DEF Others
<1>7. Cardinality(1..CacheSize) = CacheSize
  BY <1>1, FS_Interval, CacheSizeAssumption
<1>8. Cardinality(1..CacheSize) <= Cardinality(Others(l, e))
  BY <1>5, <1>6, FS_Injection
<1> QED BY <1>3, <1>6, <1>7, <1>8, <1>1

(* Every step keeps the list sorted, what is put idle, and what is late    *)
(* late for good reason.                                                   *)
LEMMA RecencyStep == RecencyInv /\ IInv' /\ [Next]_builderVars => RecencyInv'
<1> SUFFICES ASSUME RecencyInv, IInv', [Next]_builderVars PROVE RecencyInv'
  OBVIOUS
<1> IInv /\ RecentFirst /\ EvictedIdle /\ LateOnlyWhenIdle /\ TypeOK /\ TypeOK'
    /\ CacheCoherent /\ PublishedOnce /\ CacheCoherent'
  BY DEF RecencyInv, IInv
<1>0. /\ itemList \in Seq(Item) /\ Len(itemList) \in Nat /\ DOMAIN itemList = 1..Len(itemList)
      /\ arrived \in Seq(Frames) /\ Len(arrived) \in Nat
      /\ itemList' \in Seq(Item)
  BY DEF TypeOK, Item
<1>1. ASSUME NEW f \in Frames, Take(f), UNCHANGED <<late, finishedEventIds>>,
             f.evt \notin finishedEventIds, RecentFirst'
      PROVE  RecencyInv'
  <2>1. EvictedIdle'
    BY <1>1, IdleStays
  <2>2. LateOnlyWhenIdle'
    BY <1>1, LateStays, Arrives
  <2> QED BY <1>1, <2>1, <2>2 DEF RecencyInv
<1>2. ASSUME NEW f \in Frames, AppendToCached(f) PROVE RecencyInv'
  <2> DEFINE i == NodeOf(f.evt)
             S == Splice(itemList, i)
             v == WithFrame(S[1].value, f, Number)
             From == [j \in DOMAIN itemList |-> IF j <= i THEN j - 1 ELSE j]
  <2>1. /\ Take(f) /\ f.evt \in iterMap /\ bpc = "get"
        /\ itemList' = [S EXCEPT ![1].value = v]
        /\ UNCHANGED <<late, finishedEventIds>>
    BY <1>2 DEF AppendToCached, Cached, Take, CanTake
  <2>2. i \in DOMAIN itemList /\ itemList[i].key = f.evt
    BY <2>1, NodeOfKey
  <2>3. f.evt \notin finishedEventIds
    BY <2>1 DEF PublishedOnce
  <2> HIDE DEF i
  <2>4. /\ S \in Seq(Item) /\ DOMAIN S = DOMAIN itemList /\ S[1] = itemList[i]
        /\ \A j \in DOMAIN itemList : j # 1 => S[j] = itemList[From[j]]
    <3>1. S \in Seq(Item) /\ DOMAIN S = DOMAIN itemList /\ S[1] = itemList[i]
      BY <1>0, <2>2, SpliceProperties
    <3>2. \A j \in DOMAIN itemList : j # 1 => S[j] = itemList[From[j]]
      BY <1>0, <2>2 DEF Splice
    <3> QED BY <3>1, <3>2
  <2>5. /\ \A j \in DOMAIN itemList : j # 1 => From[j] \in DOMAIN itemList /\ From[j] # i
        /\ \A a, b \in DOMAIN itemList : a # 1 /\ a < b => From[a] < From[b]
    BY <1>0, <2>2
  <2> HIDE DEF From, S
  <2>6. 1 \in DOMAIN S /\ S[1].key = f.evt /\ S[1].value \in Event
    <3>1. itemList[i].value \in Event
      BY <1>0, <2>2, ItemOf
    <3> QED BY <3>1, <1>0, <2>2, <2>4
  <2>7. Number \in Nat /\ v \in Event /\ v.frames = Append(S[1].value.frames, Number)
        /\ v.frames # <<>>
    <3>1. f \in Frames /\ Number \in Nat
      BY <1>2, <1>0 DEF Number
    <3> QED BY <3>1, <2>6, WithFrameProperties
  <2> HIDE DEF v
  <2>8. /\ DOMAIN itemList' = DOMAIN itemList
        /\ \A j \in DOMAIN itemList :
             itemList'[j] = Pair(S[j].key, IF j = 1 THEN v ELSE S[j].value)
    BY <2>1, <2>4, <2>6, <2>7, ReplaceProperties
  <2>9. itemList' # <<>> /\ itemList'[1].key = f.evt
    BY <2>4, <2>6, <2>8, <1>0 DEF Pair
  <2>10. RecentOf(itemList[1])' = Number
    <3>1. itemList'[1].value.frames = v.frames
      BY <2>4, <2>6, <2>8 DEF Pair
    <3>2. v.frames[Len(v.frames)] = Number
      BY <2>6, <2>7 DEF Event
    <3> QED BY <3>1, <3>2, <2>7 DEF RecentOf
  <2>11. ASSUME NEW j \in DOMAIN itemList', j # 1
         PROVE  /\ From[j] \in DOMAIN itemList /\ itemList'[j] = itemList[From[j]]
                /\ itemList'[j].key # f.evt /\ itemList'[j].value.frames # <<>>
    <3>1. From[j] \in DOMAIN itemList /\ From[j] # i /\ S[j] = itemList[From[j]]
      BY <2>4, <2>5, <2>8, <2>11
    <3>2. itemList[From[j]] \in Item
      BY <3>1, <1>0
    <3>3. itemList'[j] = itemList[From[j]]
      BY <2>8, <2>11, <3>1, <3>2 DEF Pair, Item
    <3>4. itemList[From[j]].key # f.evt
      BY <3>1, <2>2 DEF CacheCoherent
    <3>5. itemList[From[j]].value.frames # <<>>
      BY <3>1, <2>1 DEF CacheCoherent
    <3> QED BY <3>1, <3>3, <3>4, <3>5
  <2>12. \A a, b \in DOMAIN itemList' : a # 1 /\ a < b => From[a] < From[b]
    BY <2>5, <2>8
  <2>13. RecentFirst'
    BY <2>1, <2>9, <2>10, <2>11, <2>12, NewInFront
  <2> QED BY <2>1, <2>3, <2>13, <1>1
<1>3. ASSUME NEW f \in Frames, NEW v \in Event, Take(f), Insert(f.evt, v),
             f.evt \notin iterMap, f.evt \notin finishedEventIds,
             UNCHANGED <<finishedEventIds, out, late>>,
             v.frames = <<>> \/ v.frames = <<Number>>
      PROVE  RecencyInv'
  <2> DEFINE From == [j \in DOMAIN itemList' |-> j - 1]
  <2>1. f.evt \in EventIds /\ f.evt \notin KeysOf(itemList) /\ bpc = "get"
        /\ Len(arrived') = Number /\ Number \in Nat
    BY <1>0, <1>3, FramesAssumption, Arrives DEF CacheCoherent, Take, CanTake
  <2>2. /\ Len(itemList') = Len(itemList) + 1 /\ itemList'[1] = Pair(f.evt, v)
        /\ \A j \in DOMAIN itemList' : j # 1 =>
             j - 1 \in DOMAIN itemList /\ itemList'[j] = itemList[j - 1]
    BY <1>0, <1>3, <2>1, InsertProperties DEF Insert
  <2>3. itemList' # <<>> /\ itemList'[1].key = f.evt
    BY <1>0, <2>2 DEF Pair
  <2>4. RecentOf(itemList[1])' = Number
    <3>1. itemList'[1].value.frames = v.frames
      BY <2>2 DEF Pair
    <3> QED BY <3>1, <1>3, <2>1 DEF RecentOf
  <2>5. ASSUME NEW j \in DOMAIN itemList', j # 1
        PROVE  /\ From[j] \in DOMAIN itemList /\ itemList'[j] = itemList[From[j]]
               /\ itemList'[j].key # f.evt /\ itemList'[j].value.frames # <<>>
    BY <2>1, <2>2, <2>5 DEF CacheCoherent, KeysOf
  <2>6. \A a, b \in DOMAIN itemList' : a # 1 /\ a < b => From[a] < From[b]
    BY <1>0
  <2> HIDE DEF From
  <2>7. RecentFirst'
    BY <1>3, <2>3, <2>4, <2>5, <2>6, NewInFront
  <2> QED BY <1>1, <1>3, <2>7
<1>4. ASSUME NEW f \in Frames, StartEvent(f) \/ StartEventWhenFull(f) PROVE RecencyInv'
  <2>1. /\ Take(f) /\ f.evt \notin iterMap /\ f.evt \notin finishedEventIds
        /\ UNCHANGED <<finishedEventIds, out, late>>
        /\ Insert(f.evt, WithFrame(NewEvent, f, Number)) \/ Insert(f.evt, NewEvent)
    BY <1>4 DEF StartEvent, StartEventWhenFull, Cached, EventWasAlreadyWritten
  <2>2. NewEvent \in Event /\ NewEvent.frames = <<>> /\ Number \in Nat
    BY <1>0 DEF NewEvent, Event, Number
  <2>3. /\ WithFrame(NewEvent, f, Number) \in Event
        /\ WithFrame(NewEvent, f, Number).frames = <<Number>>
    <3>1. WithFrame(NewEvent, f, Number).frames = Append(<<>>, Number)
      BY <2>2, WithFrameProperties
    <3>2. WithFrame(NewEvent, f, Number) \in Event
      BY <2>2, WithFrameProperties
    <3> QED BY <3>1, <3>2
  <2> QED BY <2>1, <2>2, <2>3, <1>3
<1>5. ASSUME NEW f \in Frames, DropLate(f) PROVE RecencyInv'
  <2>1. /\ Take(f) /\ bpc = "get" /\ f.evt \notin iterMap /\ f.evt \in finishedEventIds
        /\ late' = late \cup {Number} /\ UNCHANGED <<itemList, iterMap, finishedEventIds>>
    BY <1>5 DEF DropLate, Take, CanTake, Cached, EventWasAlreadyWritten, cacheVars
  <2>2. Number \in late'
    BY <2>1
  <2>3. RecentFirst'
    <3>1. ASSUME NEW i \in DOMAIN itemList
          PROVE  /\ RecentOf(itemList[i])' = RecentOf(itemList[i])
                 /\ IsLast(RecentOf(itemList[i]), itemList[i].key)'
      <4>1. itemList[i].value.frames # <<>>
        BY <2>1 DEF CacheCoherent
      <4>2. PICK l, e : l = RecentOf(itemList[i]) /\ e = itemList[i].key
        OBVIOUS
      <4>3. IsLast(l, e)
        BY <4>2 DEF RecentFirst
      <4>4. IsLast(l, e)'
        BY <4>3, <2>1, <2>2, LastStays
      <4>5. RecentOf(itemList[i])' = l /\ itemList'[i].key = e
        BY <4>1, <4>2, <2>1 DEF RecentOf
      <4> QED BY <4>2, <4>4, <4>5
    <3> QED BY <3>1, <2>1 DEF RecentFirst
  <2>4. EvictedIdle'
    BY <2>1, <2>2, IdleStays
  <2>5. LateOnlyWhenIdle'
    <3>1. \E l \in 1..Len(arrived) :
            IsLast(l, f.evt) /\ Cardinality(Others(l, f.evt)) >= CacheSize
      BY <2>1 DEF EvictedIdle
    <3> QED BY <3>1, <2>1, LateStays
  <2> QED BY <2>3, <2>4, <2>5 DEF RecencyInv
<1>6. ASSUME UNCHANGED <<arrived, late>>, NEW l, NEW e
      PROVE  (IsLast(l, e) => IsLast(l, e)') /\ Others(l, e)' = Others(l, e)
  BY <1>6 DEF IsLast, Others
<1>7. ASSUME UNCHANGED <<arrived, late>> PROVE LateOnlyWhenIdle'
  <2> DEFINE Idle(a, dropped) ==
               \A t \in dropped :
                 \E last \in (1..(t - 1)) \ dropped :
                   /\ a[last].evt = a[t].evt
                   /\ \A u \in (last + 1)..(t - 1) : a[u].evt = a[t].evt => u \in dropped
                   /\ Cardinality({a[u].evt : u \in (last + 1)..(t - 1)} \ {a[t].evt}) >= CacheSize
  <2>1. Idle(arrived, late)
    BY DEF LateOnlyWhenIdle
  <2>2. LateOnlyWhenIdle' <=> Idle(arrived', late')
    BY DEF LateOnlyWhenIdle
  <2> HIDE DEF Idle
  <2>3. Idle(arrived', late')
    BY <2>1, <1>7
  <2> QED BY <2>2, <2>3
<1>8. ASSUME UNCHANGED <<arrived, late>>, DOMAIN itemList' \subseteq DOMAIN itemList,
             \A i \in DOMAIN itemList' :
               /\ itemList'[i].key = itemList[i].key
               /\ RecentOf(itemList[i])' = RecentOf(itemList[i])
      PROVE  RecentFirst'
  <2>1. ASSUME NEW i \in DOMAIN itemList' PROVE IsLast(RecentOf(itemList[i]), itemList[i].key)'
    <3>1. PICK l, e : l = RecentOf(itemList[i]) /\ e = itemList[i].key
      OBVIOUS
    <3>2. IsLast(l, e)
      BY <3>1, <1>8 DEF RecentFirst
    <3>3. IsLast(l, e)'
      BY <3>2, <1>6, <1>8
    <3>4. RecentOf(itemList[i])' = l /\ itemList'[i].key = e
      BY <3>1, <1>8
    <3> QED BY <3>3, <3>4
  <2>2. ASSUME NEW i \in DOMAIN itemList', NEW j \in DOMAIN itemList', i < j
        PROVE  RecentOf(itemList[j])' < RecentOf(itemList[i])'
    BY <2>2, <1>8 DEF RecentFirst
  <2> QED BY <2>1, <2>2 DEF RecentFirst
<1>9. CASE Evict
  <2> DEFINE f == arrived[Len(arrived)]
             W == WithoutOldest
             v == WithFrame(W[1].value, f, Len(arrived))
  <2>1. /\ bpc = "evict" /\ bpc' = "get"
        /\ finishedEventIds' = finishedEventIds \cup {Oldest.value.eventId}
        /\ itemList' = [W EXCEPT ![1].value = v]
        /\ UNCHANGED <<arrived, late>>
    BY <1>9 DEF Evict, ProcessAndOutput
  <2>2. /\ Len(itemList) = CacheSize + 1 /\ arrived # <<>> /\ itemList # <<>>
        /\ itemList[1].value.frames = <<>> /\ CacheSize \in Nat /\ CacheSize >= 1
    BY <2>1, <1>0, CacheSizeAssumption DEF IInv, EvictState
  <2>3. Oldest.value.eventId = Oldest.key
    BY <2>2, <1>0 DEF CacheCoherent, Oldest
  <2>4. /\ W \in Seq(Item) /\ DOMAIN W = 1..CacheSize
        /\ \A j \in DOMAIN W : j \in DOMAIN itemList /\ W[j] = itemList[j]
    BY <2>2, <1>0, DropProperties DEF WithoutOldest
  <2> HIDE DEF W
  <2>5. 1 \in DOMAIN W /\ W[1] = itemList[1] /\ W[1] \in Item
    BY <2>2, <2>4
  <2>6. v \in Event /\ v.frames # <<>> /\ v.frames[Len(v.frames)] = Len(arrived)
    <3>1. W[1].value \in Event /\ W[1].value.frames = <<>> /\ f \in Frames
      BY <2>2, <2>5, <1>0 DEF Item
    <3>2. v \in Event
      BY <3>1, <1>0, WithFrameProperties
    <3>3. v.frames = Append(<<>>, Len(arrived))
      <4>1. v.frames = Append(W[1].value.frames, Len(arrived))
        BY <3>1, <1>0, WithFrameProperties
      <4> QED BY <3>1, <4>1
    <3> QED BY <3>2, <3>3, <1>0
  <2> HIDE DEF v, f
  <2>7. /\ DOMAIN itemList' = DOMAIN W
        /\ \A j \in DOMAIN W :
             itemList'[j] = Pair(W[j].key, IF j = 1 THEN v ELSE W[j].value)
    <3> DEFINE L == [W EXCEPT ![1].value = v]
    <3>1. /\ DOMAIN L = DOMAIN W
          /\ \A j \in DOMAIN W : L[j] = Pair(W[j].key, IF j = 1 THEN v ELSE W[j].value)
      BY <2>4, <2>5, <2>6, ReplaceProperties, Zenon
    <3> HIDE DEF L
    <3>2. itemList' = L
      BY <2>1 DEF L
    <3> QED BY <3>1, <3>2
  <2>8. RecentFirst'
    <3>1. ASSUME NEW i \in DOMAIN itemList'
          PROVE  /\ i \in DOMAIN itemList /\ itemList'[i].key = itemList[i].key
                 /\ RecentOf(itemList[i])' = RecentOf(itemList[i])
      <4>1. /\ i \in DOMAIN W /\ i \in DOMAIN itemList /\ itemList'[i].key = itemList[i].key
            /\ itemList'[i].value = IF i = 1 THEN v ELSE itemList[i].value
        BY <2>4, <2>7 DEF Pair
      <4>2. CASE i = 1
        BY <4>1, <4>2, <2>1, <2>2, <2>6 DEF RecentOf
      <4>3. CASE i # 1
        BY <4>1, <4>3, <2>1 DEF RecentOf
      <4> QED BY <4>1, <4>2, <4>3
    <3> QED BY <3>1, <2>1, <1>8
  <2>9. EvictedIdle'
    <3>1. ASSUME NEW e \in finishedEventIds'
          PROVE  \E l \in 1..Len(arrived') : IsLast(l, e)' /\ Cardinality(Others(l, e)') >= CacheSize
      <4>1. \E l \in 1..Len(arrived) : IsLast(l, e) /\ Cardinality(Others(l, e)) >= CacheSize
        <5>1. CASE e \in finishedEventIds
          BY <5>1, <2>1 DEF EvictedIdle
        <5>2. CASE e = Oldest.key
          BY <5>2, <2>1, OldestIdle
        <5> QED BY <5>1, <5>2, <2>1, <2>3
      <4>2. PICK l \in 1..Len(arrived) : IsLast(l, e) /\ Cardinality(Others(l, e)) >= CacheSize
        BY <4>1
      <4> QED BY <4>2, <1>6, <2>1
    <3> QED BY <3>1 DEF EvictedIdle
  <2> QED BY <2>1, <2>8, <2>9, <1>7 DEF RecencyInv
<1>10. CASE FlushOldest
  <2>1. /\ bpc' = "flush" /\ itemList # <<>> /\ itemList' = WithoutOldest
        /\ UNCHANGED <<arrived, late>>
    BY <1>10 DEF FlushOldest
  <2>2. ASSUME NEW i \in DOMAIN itemList'
        PROVE  i \in DOMAIN itemList /\ itemList'[i] = itemList[i]
    BY <2>1, <1>0, DropProperties DEF WithoutOldest
  <2>3. RecentFirst'
    BY <2>1, <2>2, <1>8 DEF RecentOf
  <2>4. EvictedIdle'
    BY <2>1 DEF EvictedIdle
  <2> QED BY <2>1, <2>3, <2>4, <1>7 DEF RecencyInv
<1>11. CASE (\E f \in Frames : ThrowOn(f)) \/ NoMoreTasks \/ Close \/ DivideByZero
            \/ UNCHANGED builderVars
  <2>1. /\ UNCHANGED <<itemList, arrived, finishedEventIds, late>>
        /\ bpc' = bpc \/ bpc' \notin {"get", "evict"}
    BY <1>11 DEF ThrowOn, NoMoreTasks, Close, DivideByZero, builderVars, cacheVars
  <2>2. RecentFirst'
    BY <2>1, <1>8 DEF RecentOf
  <2>3. EvictedIdle'
    <3>1. CASE bpc' = bpc
      <4>1. ASSUME bpc \in {"get", "evict"}, NEW e \in finishedEventIds
            PROVE  \E l \in 1..Len(arrived') : IsLast(l, e)' /\ Cardinality(Others(l, e)') >= CacheSize
        <5>1. PICK l \in 1..Len(arrived) : IsLast(l, e) /\ Cardinality(Others(l, e)) >= CacheSize
          BY <4>1 DEF EvictedIdle
        <5> QED BY <5>1, <1>6, <2>1
      <4> QED BY <4>1, <2>1, <3>1 DEF EvictedIdle
    <3>2. CASE bpc' \notin {"get", "evict"}
      BY <3>2 DEF EvictedIdle
    <3> QED BY <3>1, <3>2, <2>1
  <2> QED BY <2>1, <2>2, <2>3, <1>7 DEF RecencyInv
<1> QED
  BY <1>2, <1>4, <1>5, <1>9, <1>10, <1>11 DEF Next, TakeFrame, Terminated

LEMMA RecencyInit == Init => RecencyInv
<1> SUFFICES ASSUME Init PROVE RecencyInv
  OBVIOUS
<1>1. itemList = <<>> /\ finishedEventIds = {} /\ late = {}
  BY DEF Init, CacheInit
<1>2. DOMAIN itemList = {}
  BY <1>1
<1> QED BY <1>1, <1>2, InitInv DEF RecencyInv, RecentFirst, EvictedIdle, LateOnlyWhenIdle

LEMMA RecencyHolds == SafetySpec => []RecencyInv
<1>1. RecencyInv => IInv
  BY DEF RecencyInv
<1>2. RecencyInv /\ [Next]_builderVars => RecencyInv'
  BY <1>1, StepInv, RecencyStep
<1> QED BY <1>2, RecencyInit, PTL DEF SafetySpec

(* A frame is dropped only if frames of CacheSize other events have        *)
(* arrived since the last frame its event was given.                       *)
THEOREM LateOnlyWhenIdleCorrect == SafetySpec => []LateOnlyWhenIdle
<1>1. RecencyInv => LateOnlyWhenIdle
  BY DEF RecencyInv
<1> QED BY <1>1, RecencyHolds, PTL
=============================================================================
