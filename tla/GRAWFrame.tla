------------------------------- MODULE GRAWFrame -------------------------------
(***************************************************************************)
(* The class GRAWFrame: the constructor that takes a RawFrame, the bytes   *)
(* of one frame as they were read, and makes data items of them.           *)
(*                                                                         *)
(* A raw frame is its size (in blocks of SizeUnit bytes), the four header  *)
(* fields that say how its data is laid out, and what follows the header   *)
(* as big-endian 16-bit words.  The other fields are only copied; the meta *)
(* type, the revision and the hit patterns are only used to log warnings.  *)
(* The sizes are computed in 32 bits: products and sums of the fields wrap *)
(* around at UintMod.                                                      *)
(***************************************************************************)
EXTENDS Integers, Sequences, FiniteSets

CONSTANTS
  RawFrames,    \* [size, frameSize, frameType, itemSize, nItems, words], and
                \* the items that were written and what was damaged since
  Strays,       \* what items may be made of the memory behind a frame
  SizeUnit,     \* 256
  UintMod,      \* 2^32, the values of a uint32_t
  NumAgets,     \* 4
  NumChannels,  \* 68
  NumTbs        \* 512

WordType == 0..65535

\* A data item that Event::AppendFrame can store.
DataType ==
  [agetId : 0..(NumAgets - 1), channel : 0..(NumChannels - 1),
   timeBucketId : 0..(NumTbs - 1), sample : 0..4095]

ASSUME GRAWFrameAssumption ==
  /\ {SizeUnit, UintMod, NumAgets, NumChannels, NumTbs} \subseteq Nat \ {0}
  /\ SizeUnit % 4 = 0 /\ UintMod % 4 = 0 /\ NumAgets <= 4
  /\ Strays \subseteq Seq(DataType)
  /\ \A raw \in RawFrames :
       /\ {raw.size, raw.itemSize, raw.nItems} \subseteq Nat /\ raw.size > 0
       /\ raw.nItems < UintMod /\ raw.size * SizeUnit < UintMod
       /\ raw.words \in Seq(WordType)
       /\ Len(raw.words) * 2 = (raw.size - 1) * SizeUnit

PartialReadout == 1
FullReadout == 2
HeaderSize == 1

\* The layout of an item (GRAW.rst:90-108): all its fields in two words, or
\* the AGET and the sample in one.
ItemType ==
  [agetId : 0..3, channel : 0..127, timeBucketId : 0..511, sample : 0..4095]
PartialWords(item, unused) ==
  << item.agetId * 16384 + item.channel * 128 + item.timeBucketId \div 4,
     (item.timeBucketId % 4) * 16384 + unused * 4096 + item.sample >>
FullWord(item) == item.agetId * 16384 + item.sample

\* The blocks behind the header are as many as these bytes need.
Holds(raw, bytes) ==
  (raw.size - 2) * SizeUnit < bytes /\ bytes <= (raw.size - 1) * SizeUnit

\* A partial readout holds the items that were written, whatever its header
\* says now.  In an intact full readout the samples of an AGET come time bucket
\* by time bucket, and within one channel by channel; some may be missing at
\* the end.
ASSUME WrittenAssumption ==
  \A raw \in RawFrames :
    LET w == raw.written IN
    /\ w \in Seq(ItemType)
    /\ raw.frameType = PartialReadout =>
         /\ Holds(raw, 4 * Len(w))
         /\ \A i \in DOMAIN w : \E unused \in 0..3 :
              <<raw.words[2 * i - 1], raw.words[2 * i]>> = PartialWords(w[i], unused)
         /\ raw.damage \in {"none", "sizes"} => raw.nItems = Len(w)
    /\ (raw.frameType = FullReadout /\ raw.damage = "none") =>
         /\ Holds(raw, 2 * Len(w)) /\ raw.nItems = Len(w)
         /\ \A i \in DOMAIN w :
              /\ raw.words[i] = FullWord(w[i])
              /\ w[i].channel < NumChannels /\ w[i].timeBucketId < NumTbs
              /\ Cardinality({j \in 1..i : w[j].agetId = w[i].agetId})
                   = w[i].timeBucketId * NumChannels + w[i].channel + 1

VARIABLES
  rawFrame,
  phase,      \* "header", "items", "done"; "threw", "crashed"
  frameSize, itemSize, nItems,
  data        \* the data items, in order

vars == <<rawFrame, phase, frameSize, itemSize, nItems, data>>

Init ==
  /\ rawFrame \in RawFrames
  /\ phase = "header"
  /\ frameSize = 0 /\ itemSize = 0 /\ nItems = 0 /\ data = <<>>

Item(aget, channel, tb, sample) ==
  [agetId |-> aget, channel |-> channel, timeBucketId |-> tb, sample |-> sample]

\* What the loops below leave in their vector or array: the elements of s, one
\* after the other, whose index is in keep.
KeptUpTo(s, keep) ==
  LET kept[n \in 0..Len(s)] == IF n = 0 THEN <<>>
                               ELSE IF n \in keep THEN Append(kept[n - 1], s[n])
                               ELSE kept[n - 1]
  IN  kept
Kept(s, keep) == KeptUpTo(s, keep)[Len(s)]

-----------------------------------------------------------------------------
(* The header. *)

\* A wrong frameSize field is replaced by the size of the raw frame.
FrameSize == rawFrame.size

\* A wrong itemSize field is corrected for the two known frame types.
ItemSize ==
  CASE rawFrame.frameType = PartialReadout -> 4
    [] rawFrame.frameType = FullReadout -> 2
    [] OTHER -> rawFrame.itemSize

\* nItems * itemSize, in 32 bits.
Bytes(n, size) == (n * size) % UintMod

\* Fault: the header is not counted among the blocks of the frame.
HeaderNotCounted(n, size) == (Bytes(n, size) + SizeUnit - 1) \div SizeUnit

\* The number of blocks taken up by the header and n items of this size, which
\* is rounded up exactly once the sum has wrapped.
BlocksFor(n, size) ==
  (((Bytes(n, size) + HeaderSize * SizeUnit) % UintMod) + SizeUnit - 1) \div SizeUnit

ItemsFit == FrameSize = BlocksFor(rawFrame.nItems, ItemSize)

\* Fault: the number of items is only ever lowered.
NumberOnlyLowered ==
  /\ phase = "header"
  /\ ItemsFit \/ ItemSize > 0
  /\ frameSize' = FrameSize
  /\ itemSize' = ItemSize
  /\ nItems' = IF FrameSize >= BlocksFor(rawFrame.nItems, ItemSize) THEN rawFrame.nItems
               ELSE ((FrameSize - HeaderSize) * SizeUnit) \div ItemSize
  /\ phase' = "items"
  /\ UNCHANGED <<rawFrame, data>>

\* If the nItems field does not go with the size of the frame, the items are
\* taken to fill the frame.
ParseHeader ==
  /\ phase = "header"
  /\ ItemsFit \/ ItemSize > 0
  /\ frameSize' = FrameSize
  /\ itemSize' = ItemSize
  /\ nItems' = IF ItemsFit THEN rawFrame.nItems
               ELSE ((FrameSize - HeaderSize) * SizeUnit) \div ItemSize
  /\ phase' = "items"
  /\ UNCHANGED <<rawFrame, data>>

\* An unknown frame type leaves an item size of 0, which nItems is divided by.
HeaderCrashes ==
  /\ phase = "header" /\ ~ItemsFit /\ ItemSize = 0
  /\ phase' = "crashed"
  /\ UNCHANGED <<rawFrame, frameSize, itemSize, nItems, data>>

\* dataEnd, after the header, and the number of items up to there.
ItemBytes == Bytes(nItems, itemSize)
ItemCount == ItemBytes \div itemSize
ItemsInside == HeaderSize * SizeUnit + ItemBytes <= rawFrame.size * SizeUnit

\* A dataEnd beyond the frame is undefined behaviour.  The loop runs into the
\* memory behind the frame: it stops the program there, it throws (a full readout
\* has more samples than its arrays, a partial one may have more items than there
\* is memory for), or it takes what it finds for items.
ReadOutside ==
  /\ phase = "items" /\ rawFrame.frameType \in {PartialReadout, FullReadout}
  /\ ~ItemsInside
  /\ \/ phase' \in {"crashed", "threw"} /\ UNCHANGED data
     \/ /\ rawFrame.frameType = PartialReadout
        /\ phase' = "done" /\ data' \in Strays
  /\ UNCHANGED <<rawFrame, frameSize, itemSize, nItems>>

-----------------------------------------------------------------------------
(* Partial readout: an item is two words, and names its channel and time    *)
(* bucket.  Items with impossible values are left out.                      *)

AgetId(hi, lo) == hi \div 2^14

\* Fault: the mask of the channel lacks its highest bit.
SixBitChannel(hi, lo) == (hi \div 2^7) % 2^6

Channel(hi, lo) == (hi \div 2^7) % 2^7

TBid(hi, lo) == (hi % 2^7) * 4 + lo \div 2^14

Sample(hi, lo) == lo % 2^12

Decoded(hi, lo) == Item(AgetId(hi, lo), Channel(hi, lo), TBid(hi, lo), Sample(hi, lo))

\* Fault: no one looks at the values.
AnyItem(item) == TRUE

Possible(item) ==
  item.agetId < NumAgets /\ item.channel < NumChannels /\ item.timeBucketId < NumTbs

ItemsFound ==
  [i \in 1..ItemCount |-> Decoded(rawFrame.words[2 * i - 1], rawFrame.words[2 * i])]

ExtractPartialReadoutData ==
  /\ phase = "items" /\ rawFrame.frameType = PartialReadout /\ ItemsInside
  /\ data' = Kept(ItemsFound, {i \in 1..ItemCount : Possible(ItemsFound[i])})
  /\ phase' = "done"
  /\ UNCHANGED <<rawFrame, frameSize, itemSize, nItems>>

-----------------------------------------------------------------------------
(* Full readout: an item is one word with its AGET and its sample.  The     *)
(* samples of an AGET come time bucket by time bucket, and within one       *)
(* channel by channel; what is missing at the end is 0.                     *)

WordAget(w) == w \div 2^14
WordSample(w) == w % 2^12

ArrayLength == NumTbs * NumChannels   \* 34816

SamplesOf(aget) ==
  Kept([i \in 1..ItemCount |-> WordSample(rawFrame.words[i])],
       {i \in 1..ItemCount : WordAget(rawFrame.words[i]) = aget})

\* Fault: the samples come channel by channel.
IndexByChannel(tb, channel) == channel * NumTbs + tb + 1

IndexOf(tb, channel) == tb * NumChannels + channel + 1

\* Every AGET gets an item for each channel and time bucket.
ItemAt(n) ==
  LET aget == n \div ArrayLength
      tb == (n % ArrayLength) \div NumChannels
      channel == n % NumChannels
      samples == SamplesOf(aget)
      i == IndexOf(tb, channel)
  IN  Item(aget, channel, tb, IF i <= Len(samples) THEN samples[i] ELSE 0)

\* at() throws when an AGET has more samples than the array has elements.
Overflows == \E aget \in 0..(NumAgets - 1) : Len(SamplesOf(aget)) > ArrayLength

ExtractFullReadoutData ==
  /\ phase = "items" /\ rawFrame.frameType = FullReadout /\ ItemsInside
  /\ IF Overflows THEN phase' = "threw" /\ UNCHANGED data
     ELSE /\ phase' = "done"
          /\ data' = [n \in 1..(NumAgets * ArrayLength) |-> ItemAt(n - 1)]
  /\ UNCHANGED <<rawFrame, frameSize, itemSize, nItems>>

\* A frame of any other type has no items.
ExtractNothing ==
  /\ phase = "items" /\ rawFrame.frameType \notin {PartialReadout, FullReadout}
  /\ phase' = "done"
  /\ UNCHANGED <<rawFrame, frameSize, itemSize, nItems, data>>

Terminated == phase \in {"done", "threw", "crashed"} /\ UNCHANGED vars

Next ==
  \/ ParseHeader \/ HeaderCrashes \/ ReadOutside
  \/ ExtractPartialReadoutData \/ ExtractFullReadoutData \/ ExtractNothing
  \/ Terminated

Spec == Init /\ [][Next]_vars

-----------------------------------------------------------------------------
(* Properties *)

\* Every variable has its type.  An item's AGET and channel exist, and its time
\* bucket is below num_tbs, so that Event::AppendFrame can store its sample.
TypeOK ==
  /\ rawFrame \in RawFrames
  /\ phase \in {"header", "items", "done", "threw", "crashed"}
  /\ {frameSize, itemSize, nItems} \subseteq Nat
  /\ \A i \in DOMAIN data : data[i] \in DataType

\* The items that are read lie within the raw frame, also where the product of
\* nItems and itemSize exceeds 32 bits, with one exception: a frame that is only
\* a header, and gives a number of items whose bytes wrap around just when those
\* of the header are added, is taken to be intact.  No longer frame is ever read
\* beyond its end, whatever its header says.  (GRAWFrame.cpp 78-83, 121-122)
ItemsInsideFrame ==
  phase = "items" =>
    \/ ItemsInside
    \/ rawFrame.size = HeaderSize /\ ItemBytes + HeaderSize * SizeUnit > UintMod

Written == rawFrame.written
\* The place among the items of a written item whose values are possible.
PlaceOf(i) == Cardinality({j \in 1..i : Possible(Written[j])})
WrittenInPlace ==
  \A i \in DOMAIN Written : Possible(Written[i]) =>
    PlaceOf(i) \in DOMAIN data /\ data[PlaceOf(i)] = Written[i]
IsPartial == rawFrame.frameType = PartialReadout
IsFull == rawFrame.frameType = FullReadout

\* The items of a partial readout are those that were written, in their order,
\* without those on channels that do not exist; a wrong size of the frame or of
\* its items in the header makes no difference.  (GRAW.rst:90-108, the layout
\* of an item; ExtractAgetId to ExtractSample)
PartialItemsRead ==
  (phase = "done" /\ IsPartial /\ rawFrame.damage \in {"none", "sizes"}) =>
    Len(data) = PlaceOf(Len(Written)) /\ WrittenInPlace

\* If the number of items is corrected, no item that was written is lost; what
\* may follow is the padding of the frame.  (GRAWFrame.cpp 78-83)
NothingLostWhenCorrected ==
  (phase = "done" /\ IsPartial /\ ~ItemsFit) => WrittenInPlace

\* A full readout that holds no more than one sample for each channel and time
\* bucket of an AGET overruns no array, and gives each of them exactly one item,
\* with the sample that was written for it, or 0.  (ExtractFullReadoutData)
FullReadoutInPlace ==
  (phase \in {"done", "threw"} /\ IsFull /\ rawFrame.damage = "none") =>
    \A aget \in 0..(NumAgets - 1), channel \in 0..(NumChannels - 1), tb \in 0..(NumTbs - 1) :
      LET found == {i \in DOMAIN data : data[i].agetId = aget /\ data[i].channel = channel
                                        /\ data[i].timeBucketId = tb}
          samples == {Written[i].sample : i \in
                       {j \in DOMAIN Written : Written[j].agetId = aget
                          /\ Written[j].channel = channel /\ Written[j].timeBucketId = tb}}
      IN  /\ Cardinality(found) = 1
          /\ {data[i].sample : i \in found} = IF samples = {} THEN {0} ELSE samples
=============================================================================
