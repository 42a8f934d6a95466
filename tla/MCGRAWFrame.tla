------------------------------ MODULE MCGRAWFrame ------------------------------
(* Raw frames for GRAWFrame, made from the items that were written. *)
EXTENDS GRAWFrame, SequencesExt

WordsPerBlock == SizeUnit \div 2
Raw(type, itsize, items, words) ==
  LET blocks == (Len(words) + WordsPerBlock - 1) \div WordsPerBlock
  IN  [size |-> blocks + 1, frameSize |-> blocks + 1, frameType |-> type,
       itemSize |-> itsize, nItems |-> Len(items),
       words |-> words \o [i \in 1..(blocks * WordsPerBlock - Len(words)) |-> 0],
       written |-> items, damage |-> "none"]

RawPartial(items, unused) ==
  Raw(1, 4, items, FlattenSeq([i \in DOMAIN items |-> PartialWords(items[i], unused)]))
RawFull(items) == Raw(2, 2, items, [i \in DOMAIN items |-> FullWord(items[i])])

\* Items at the limits of each field, also with a channel or a time bucket
\* that does not exist.
OneItem ==
  {Item(a, c, t, s) : a \in {0, 3}, t \in {0, NumTbs - 1, NumTbs, 511}, s \in {0, 4095},
                      c \in {0, NumChannels - 1, NumChannels, 63, 64, 127}}
SomeItems ==
  {[i \in 1..n |-> Item(i % 4, i, i, 100 + i)] : n \in {0, 1, 3, 4, 5, 8}}

\* Numbers of items whose bytes wrap around: 4 or 2 times them is near UintMod, so
\* that only the sum with the header's bytes exceeds it, or a little more.
Wrapping ==
  {UintMod \div 4 + k : k \in {-4, -3, -1, 0, 3, 5}}
    \cup {UintMod \div 2 + k : k \in {-8, -7, -1, 0, 3, 5}} \cup {UintMod - 1}

\* What memory behind a frame may be taken for.
MCStrays == {<<>>, <<Item(0, 0, 0, 1), Item(3, NumChannels - 1, NumTbs - 1, 4095)>>}

\* Wrong fields in the header.
Damaged(raws) ==
  UNION {
    {[r EXCEPT !.frameSize = s, !.damage = "sizes"] : r \in raws, s \in {0, 9}},
    {[r EXCEPT !.itemSize = s, !.damage = "sizes"] : r \in raws, s \in {0, 2, 4}},
    {[r EXCEPT !.nItems = n, !.damage = "nItems"] : r \in raws,
       n \in {0, 2, 4, 5, 12, 100} \cup Wrapping},
    {[r EXCEPT !.frameType = 0, !.itemSize = s, !.damage = "type"] : r \in raws, s \in {0, 3}} }

MCPartialFrames ==
  {RawPartial(<<item>>, u) : item \in OneItem, u \in {0, 3}}
    \cup {RawPartial(items, 0) : items \in SomeItems}
    \cup Damaged({RawPartial(items, 0) : items \in SomeItems})

\* A full readout: the samples of the AGETs by time bucket and channel, the
\* last of them missing, or with too many from one AGET.
Readout(agets, base) ==
  FlattenSeq([n \in 1..(NumTbs * NumChannels) |->
    [k \in 1..agets |-> Item(k - 1, (n - 1) % NumChannels, (n - 1) \div NumChannels,
                             (base + 10 * n + k) % 4096)]])
Readouts == {Readout(agets, base) : agets \in 1..4, base \in {0, 4000}}
Missing(items, n) == SubSeq(items, 1, Len(items) - n)
TooMany(items, n) == items \o [i \in 1..n |-> Item(0, 0, 0, 7)]

MCFullFrames ==
  {RawFull(Missing(r, n)) : r \in Readouts, n \in {0, 1, 4}}
    \cup {[RawFull(TooMany(r, n)) EXCEPT !.damage = "excess"] : r \in Readouts, n \in {1, 3}}
    \cup Damaged({RawFull(r) : r \in Readouts} \cup {RawFull(<<>>)})

MCRawFrames == MCPartialFrames \cup MCFullFrames
=============================================================================
