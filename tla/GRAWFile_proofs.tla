---------------------------- MODULE GRAWFile_proofs ----------------------------
(***************************************************************************)
(* Proofs about the reading of one file, for every file: of any length,    *)
(* with any frames, cut off anywhere or overwritten with anything, and for *)
(* every depth of the index and every width of the size field.             *)
(***************************************************************************)
EXTENDS GRAWFile, WellFoundedInduction, SequenceTheorems, TLAPS

-----------------------------------------------------------------------------
(* What a file is. *)

LEMMA FileTypes ==
  ASSUME NEW c \in Contents
  PROVE  /\ c.blocks \in Seq(BlockType) /\ Len(c.blocks) \in Nat
         /\ c.tail.bytes \in 0..(BlockBytes - 1)
         /\ \A p \in Nat : BlockIn(c, p) \in BlockType
         /\ c.written \in Seq(WrittenType)
         /\ Len(c.written) \in Nat /\ DOMAIN c.written = 1..Len(c.written)
         /\ \A n \in 0..Len(c.written) : EndOf(c.written, n) \in Nat
<1>1. c \in FileType
  BY ContentsAssumption
<1>2. /\ c.blocks \in Seq(BlockType) /\ c.tail.block \in BlockType
      /\ c.tail.bytes \in 0..(BlockBytes - 1)
      /\ c.written \in Seq(WrittenType)
  BY <1>1 DEF FileType
<1>3. /\ Len(c.blocks) \in Nat /\ Len(c.written) \in Nat
      /\ DOMAIN c.blocks = 1..Len(c.blocks) /\ DOMAIN c.written = 1..Len(c.written)
  BY <1>2
<1>4. ASSUME NEW p \in Nat PROVE BlockIn(c, p) \in BlockType
  <2>1. CASE p < Len(c.blocks)
    <3>1. p + 1 \in 1..Len(c.blocks)
      BY <2>1, <1>3
    <3> QED BY <3>1, <2>1, <1>2 DEF BlockIn
  <2>2. CASE ~(p < Len(c.blocks))
    BY <2>2, <1>2 DEF BlockIn
  <2> QED BY <2>1, <2>2
<1>5. ASSUME NEW n \in 0..Len(c.written) PROVE EndOf(c.written, n) \in Nat
  <2>1. CASE n = 0
    BY <2>1 DEF EndOf
  <2>2. CASE n # 0
    <3>1. n \in 1..Len(c.written)
      BY <2>2, <1>3
    <3>2. c.written[n] \in WrittenType
      BY <3>1, <1>2
    <3>3. c.written[n].at \in Nat /\ c.written[n].size \in Nat
      BY <3>2, GRAWFileAssumption DEF WrittenType
    <3> QED BY <3>3, <2>2 DEF EndOf
  <2> QED BY <2>1, <2>2
<1> QED BY <1>2, <1>3, <1>4, <1>5

(* The frame behind the first k written begins where they end, and reaches to *)
(* the end of the first k + 1.                                                *)
LEMMA NextWritten ==
  ASSUME NEW c \in Contents, NEW k \in 0..(Len(c.written) - 1)
  PROVE  /\ k + 1 \in DOMAIN c.written
         /\ c.written[k + 1].at = EndOf(c.written, k)
         /\ c.written[k + 1].size \in 1..(SizeMod - 1)
         /\ c.written[k + 1].evt \in EventIds
         /\ EndOf(c.written, k + 1) = EndOf(c.written, k) + c.written[k + 1].size
<1>1. Len(c.written) \in Nat /\ DOMAIN c.written = 1..Len(c.written)
  BY FileTypes
<1>2. k + 1 \in DOMAIN c.written /\ (k + 1) - 1 = k /\ k + 1 # 0
  BY <1>1
<1>3. c.written[k + 1].at = EndOf(c.written, (k + 1) - 1)
  BY <1>2, ContentsAssumption
<1>4. c.written[k + 1] \in WrittenType
  BY <1>2, <1>1, FileTypes
<1>5. EndOf(c.written, k + 1) = c.written[k + 1].at + c.written[k + 1].size
  BY <1>2 DEF EndOf
<1> QED BY <1>2, <1>3, <1>4, <1>5 DEF WrittenType

(* Every nonempty set of natural numbers has a least element. *)
LEMMA LeastOf ==
  ASSUME NEW S, S \subseteq Nat, S # {}
  PROVE  \E m \in S : \A k \in S : m <= k
<1>1. PICK m \in S : \A k \in S : ~(<<k, m>> \in OpToRel(<, Nat))
  BY WFMin, NatLessThanWellFounded
<1>2. ASSUME NEW k \in S, k < m PROVE <<k, m>> \in OpToRel(<, Nat)
  BY <1>2 DEF OpToRel
<1>3. m \in Nat /\ \A k \in S : k \in Nat /\ ~(k < m)
  BY <1>1, <1>2
<1>4. \A k \in S : m <= k
  BY <1>3
<1> QED BY <1>4

(* More frames end later: otherwise the least number of them that do not       *)
(* would have a frame of negative size.                                        *)
LEMMA EndsGrow ==
  ASSUME NEW c \in Contents, NEW n \in 0..Len(c.written), NEW m \in n..Len(c.written)
  PROVE  EndOf(c.written, n) <= EndOf(c.written, m)
<1> DEFINE Early == {k \in n..Len(c.written) : EndOf(c.written, k) < EndOf(c.written, n)}
<1>0. /\ Len(c.written) \in Nat
      /\ \A k \in 0..Len(c.written) : EndOf(c.written, k) \in Nat
  BY FileTypes
<1>1. SUFFICES Early = {}
  <2>1. ~(EndOf(c.written, m) < EndOf(c.written, n))
    BY <1>1
  <2>2. m \in 0..Len(c.written)
    BY <1>0
  <2> QED BY <2>1, <2>2, <1>0
<1>2. SUFFICES ASSUME Early # {} PROVE FALSE
  OBVIOUS
<1>3. Early \subseteq Nat
  BY <1>0
<1>4. PICK k \in Early : \A j \in Early : k <= j
  <2> HIDE DEF Early
  <2> QED BY <1>2, <1>3, LeastOf
<1>5. k \in n..Len(c.written) /\ EndOf(c.written, k) < EndOf(c.written, n)
  BY <1>4
<1>6. k # n /\ k - 1 \in n..Len(c.written) /\ k - 1 \in 0..(Len(c.written) - 1)
  <2>1. EndOf(c.written, n) \in Nat
    BY <1>0
  <2>2. k # n
    BY <1>5, <2>1
  <2> QED BY <2>2, <1>5, <1>0
<1>7. EndOf(c.written, k) = EndOf(c.written, k - 1) + c.written[k].size
      /\ c.written[k].size \in Nat
  <2>1. (k - 1) + 1 = k
    BY <1>5
  <2>2. /\ EndOf(c.written, (k - 1) + 1) = EndOf(c.written, k - 1) + c.written[(k - 1) + 1].size
        /\ c.written[(k - 1) + 1].size \in 1..(SizeMod - 1)
    BY <1>6, NextWritten
  <2> QED BY <2>1, <2>2, GRAWFileAssumption
<1>8. /\ EndOf(c.written, k - 1) \in Nat /\ EndOf(c.written, k) \in Nat
      /\ EndOf(c.written, n) \in Nat
  BY <1>0, <1>5, <1>6
<1>9. EndOf(c.written, k - 1) < EndOf(c.written, n)
  BY <1>5, <1>7, <1>8
<1>10. k - 1 \in Early
  BY <1>6, <1>9
<1>11. k <= k - 1
  BY <1>4, <1>10
<1> QED BY <1>11, <1>5

(* A written frame that begins within a file that was not overwritten has its *)
(* header there; behind the last one there is nothing.                        *)
LEMMA HeaderWritten ==
  ASSUME NEW c \in Contents, c.damage # "overwritten",
         NEW k \in 0..Len(c.written), EndOf(c.written, k) <= Len(c.blocks),
         ~(EndOf(c.written, k) = Len(c.blocks) /\ c.tail.bytes = 0)
  PROVE  /\ k \in 0..(Len(c.written) - 1)
         /\ IsHeader(c, c.written[k + 1])
<1>1. /\ Len(c.written) \in Nat /\ Len(c.blocks) \in Nat
      /\ EndOf(c.written, k) \in Nat /\ EndOf(c.written, Len(c.written)) \in Nat
  BY FileTypes
<1>2. c.damage = "none" \/ c.damage = "cut"
  <2>1. c \in FileType
    BY ContentsAssumption
  <2> QED BY <2>1 DEF FileType
<1>3. k # Len(c.written)
  <2>1. SUFFICES ASSUME k = Len(c.written) PROVE FALSE
    OBVIOUS
  <2>2. CASE c.damage = "none"
    BY <2>1, <2>2, ContentsAssumption
  <2>3. CASE c.damage = "cut"
    <3>1. EndOf(c.written, Len(c.written)) > Len(c.blocks)
      BY <2>3, ContentsAssumption
    <3> QED BY <3>1, <2>1, <1>1
  <2> QED BY <1>2, <2>2, <2>3
<1>4. k \in 0..(Len(c.written) - 1)
  BY <1>1, <1>3
<1>5. k + 1 \in DOMAIN c.written /\ c.written[k + 1].at = EndOf(c.written, k)
  BY <1>4, NextWritten
<1>6. IsHeader(c, c.written[k + 1])
  BY <1>5, ContentsAssumption
<1> QED BY <1>4, <1>6

-----------------------------------------------------------------------------
(* What GetNextFrameSize may find. *)

LEMMA BytesThere ==
  ASSUME content \in Contents, NEW p \in Nat
  PROVE  /\ BytesAt(p) \in Nat /\ Blocks \in Nat /\ content.tail.bytes \in Nat
         /\ p < Blocks => BytesAt(p) = BlockBytes
         /\ BytesAt(p) > 0 => p <= Blocks /\ ~(p = Blocks /\ content.tail.bytes = 0)
         /\ BlockAt(p) \in BlockType
<1>1. Blocks \in Nat /\ content.tail.bytes \in Nat /\ BlockAt(p) \in BlockType
  BY FileTypes DEF Blocks, BlockAt
<1> QED BY <1>1 DEF BytesAt, BlockBytes

LEMMA SizesFit ==
  ASSUME content \in Contents, NEW p \in Nat, NEW s \in SizesAt(p)
  PROVE  s \in 0..(SizeMod - 1)
<1>1. BlockAt(p) \in BlockType /\ SizeMod \in Nat \ {0}
  BY BytesThere, GRAWFileAssumption
<1>2. BlockAt(p).size \in Nat
  BY <1>1 DEF BlockType
<1>3. BlockAt(p).size % SizeMod \in 0..(SizeMod - 1)
  BY <1>1, <1>2
<1> QED BY <1>3 DEF SizesAt

(* A size that is returned leads to the next frame or to the end of the file. *)
LEMMA Accepted ==
  ASSUME TypeOK, NEW r \in SizeResults, r.exception = "none"
  PROVE  /\ good /\ r.size \in SizesAt(pos) /\ r.size \in 1..(SizeMod - 1)
         /\ ReachesNextFrame(pos, r.size)
<1>1. good
  BY DEF SizeResults
<1>2. PICK s \in SizesAt(pos) : r = [size |-> s, exception |-> SizeException(pos, s)]
  BY <1>1 DEF SizeResults
<1>3. s \in 0..(SizeMod - 1)
  BY SizesFit DEF TypeOK
<1>4. r.size = s /\ SizeException(pos, s) = "none"
  BY <1>2
<1>5. s # 0 /\ ReachesNextFrame(pos, s)
  BY <1>4 DEF SizeException
<1>6. s \in 1..(SizeMod - 1)
  BY <1>3, <1>5, GRAWFileAssumption
<1> QED BY <1>1, <1>4, <1>5, <1>6

LEMMA ExceptionType ==
  ASSUME NEW r \in SizeResults
  PROVE  r.exception \in {"none", "End_of_File", "Frame_Read_Error", "Bad_File"}
<1>1. CASE ~good
  BY <1>1 DEF SizeResults
<1>2. CASE good
  <2>1. PICK s \in SizesAt(pos) : r = [size |-> s, exception |-> SizeException(pos, s)]
    BY <1>2 DEF SizeResults
  <2> QED BY <2>1 DEF SizeException
<1> QED BY <1>1, <1>2

(* At the end of the first k frames of a file that was not overwritten only    *)
(* the next frame is found.                                                    *)
LEMMA FrameFound ==
  ASSUME TypeOK, content.damage # "overwritten",
         NEW k \in 0..Len(Written), pos = EndOfFrame(k),
         NEW r \in SizeResults, r.exception = "none"
  PROVE  /\ k \in 0..(Len(Written) - 1)
         /\ r.size = Written[k + 1].size
         /\ BlockAt(pos).evt = Written[k + 1].evt
<1>0. content \in Contents /\ pos \in Nat
  BY DEF TypeOK
<1>1. BytesAt(pos) >= SizeBytes /\ r.size \in SizesAt(pos)
  BY Accepted DEF ReachesNextFrame
<1>2. pos <= Blocks /\ ~(pos = Blocks /\ content.tail.bytes = 0)
  <2>1. BytesAt(pos) \in Nat
    BY <1>0, BytesThere
  <2>2. BytesAt(pos) > 0
    BY <1>1, <2>1 DEF SizeBytes
  <2> QED BY <1>0, <2>2, BytesThere
<1>3. k \in 0..(Len(Written) - 1) /\ IsHeader(content, Written[k + 1])
  BY <1>0, <1>2, HeaderWritten DEF Written, EndOfFrame, Blocks
<1>4. Written[k + 1].at = pos /\ Written[k + 1].size \in 1..(SizeMod - 1)
  BY <1>0, <1>3, NextWritten DEF Written, EndOfFrame
<1>5. BlockAt(pos).size = Written[k + 1].size /\ BlockAt(pos).evt = Written[k + 1].evt
  BY <1>3, <1>4 DEF IsHeader, BlockAt
<1>6. r.size = BlockAt(pos).size % SizeMod
  BY <1>1 DEF SizesAt
<1>7. r.size = Written[k + 1].size
  BY <1>4, <1>5, <1>6, GRAWFileAssumption, SMTT(30)
<1> QED BY <1>3, <1>5, <1>7

(* and it is found if all of it is there. *)
LEMMA FrameNotMissed ==
  ASSUME TypeOK, good, content.damage # "overwritten",
         NEW k \in 0..(Len(Written) - 1), pos = EndOfFrame(k),
         EndOfFrame(k + 1) <= Blocks, NEW r \in SizeResults
  PROVE  r.exception = "none"
<1> DEFINE w == Written[k + 1]
           q == EndOfFrame(k + 1)
<1>0. content \in Contents /\ pos \in Nat /\ Len(Written) \in Nat
  BY FileTypes DEF TypeOK, Written
<1>1. /\ w.at = pos /\ w.size \in 1..(SizeMod - 1) /\ q = pos + w.size
      /\ k \in 0..Len(Written) /\ k + 1 \in 0..Len(Written)
  BY <1>0, NextWritten DEF Written, EndOfFrame
<1>2. /\ Blocks \in Nat /\ q \in Nat /\ w.size \in Nat /\ pos < Blocks
      /\ SizeMod \in Nat \ {0}
  BY <1>0, <1>1, BytesThere, GRAWFileAssumption
<1>3. BytesAt(pos) >= SizeBytes
  BY <1>0, <1>2, BytesThere DEF SizeBytes, BlockBytes
<1>4. IsHeader(content, w)
  BY <1>0, <1>1, <1>2, HeaderWritten DEF Written, EndOfFrame, Blocks
<1>5. BlockAt(pos).size = w.size /\ BlockAt(pos).meta = BlockIn(content, 0).meta
  BY <1>1, <1>4 DEF IsHeader, BlockAt
<1>6. SizesAt(pos) = {w.size}
  BY <1>1, <1>2, <1>3, <1>5, SMTT(30) DEF SizesAt
<1>7. ReachesNextFrame(pos, w.size)
  <2>1. CASE q = Blocks /\ content.tail.bytes = 0
    <3>1. BytesAt(q) = 0
      BY <2>1, <1>2 DEF BytesAt
    <3> QED BY <3>1, <1>1, <1>3 DEF ReachesNextFrame
  <2>2. CASE ~(q = Blocks /\ content.tail.bytes = 0)
    <3>1. k + 1 \in 0..(Len(Written) - 1) /\ IsHeader(content, Written[(k + 1) + 1])
      BY <2>2, <1>0, <1>1, HeaderWritten DEF Written, EndOfFrame, Blocks
    <3>2. Written[(k + 1) + 1].at = q
      BY <3>1, <1>0, NextWritten DEF Written, EndOfFrame
    <3>3. BlockAt(q).meta = BlockIn(content, 0).meta
      BY <3>1, <3>2 DEF IsHeader, BlockAt
    <3> QED BY <3>3, <1>1, <1>3, <1>5 DEF ReachesNextFrame
  <2> QED BY <2>1, <2>2
<1>8. PICK s \in SizesAt(pos) : r = [size |-> s, exception |-> SizeException(pos, s)]
  BY DEF SizeResults
<1>9. s = w.size /\ s # 0
  BY <1>1, <1>2, <1>6, <1>8
<1> HIDE DEF w
<1> QED BY <1>7, <1>8, <1>9 DEF SizeException

-----------------------------------------------------------------------------
(* Types *)

\* Beyond TypeOK: nothing is read from a file that is being indexed.
IndexedFirst == phase = "index" => frames = <<>>

ReadType == [at : Nat, size : 1..(SizeMod - 1), short : BOOLEAN]

TypeInv == TypeOK /\ IndexedFirst

LEMMA SmallestMeta ==
  ASSUME TypeOK, Len(metas) = IndexDepth
  PROVE  MinMeta \in EventIds
<1> DEFINE S == {metas[i] : i \in DOMAIN metas}
<1>1. metas \in Seq(EventIds) /\ EventIds \subseteq Nat /\ IndexDepth \in Nat \ {0}
  BY GRAWFileAssumption DEF TypeOK
<1>2. 1 \in DOMAIN metas /\ \A i \in DOMAIN metas : metas[i] \in EventIds
  BY <1>1
<1>3. S # {} /\ S \subseteq EventIds /\ S \subseteq Nat
  BY <1>1, <1>2
<1> HIDE DEF S
<1>4. \E m \in S : \A k \in S : m <= k
  BY <1>3, LeastOf
<1>5. Min(S) \in S
  BY <1>4 DEF Min
<1>6. MinMeta = Min(S)
  BY DEF MinMeta, S
<1> QED BY <1>3, <1>5, <1>6

LEMMA TypeInit ==
  Init => TypeInv
BY GRAWFileAssumption DEF Init, TypeInv, TypeOK, IndexedFirst

LEMMA TypeStep ==
  TypeInv /\ [Next]_vars => TypeInv'
<1> SUFFICES ASSUME TypeInv, [Next]_vars PROVE TypeInv'
  OBVIOUS
<1> USE DEF TypeInv
<1>0. /\ content \in Contents /\ pos \in Nat /\ metas \in Seq(EventIds)
      /\ frames \in Seq(ReadType) /\ Len(metas) <= IndexDepth
      /\ IndexDepth \in Nat \ {0} /\ SizeMod \in Nat \ {0}
  BY GRAWFileAssumption DEF TypeOK, ReadType
<1>1. CASE ReadFrameMetadata
  <2>1. PICK r \in SizeResults :
          /\ r.exception = "none"
          /\ IF BytesAt(pos) >= EvtIdBytes
               THEN metas' = Append(metas, BlockAt(pos).evt) /\ pos' = pos + r.size
                    /\ UNCHANGED good
               ELSE /\ \E e \in EventIds : metas' = Append(metas, e)
                    /\ good' = FALSE /\ UNCHANGED pos
    BY <1>1 DEF ReadFrameMetadata
  <2>2. r.size \in Nat
    <3>1. r.size \in 1..(SizeMod - 1)
      BY <2>1, Accepted
    <3> QED BY <3>1, <1>0
  <2>3. BlockAt(pos).evt \in EventIds
    BY <1>0, BytesThere DEF BlockType
  <2>4. PICK e \in EventIds : metas' = Append(metas, e)
    BY <2>1, <2>3
  <2>5. metas' \in Seq(EventIds) /\ Len(metas') <= IndexDepth
    BY <2>4, <1>0, <1>1 DEF ReadFrameMetadata
  <2>6. pos' \in Nat
    BY <2>1, <2>2, <1>0
  <2>7. good' \in BOOLEAN
    <3>1. good' = good \/ good' = FALSE
      BY <2>1
    <3> QED BY <3>1 DEF TypeOK
  <2> QED BY <2>5, <2>6, <2>7, <1>1 DEF ReadFrameMetadata, TypeOK, IndexedFirst
<1>2. CASE IndexingThrows
  BY <1>2, ExceptionType DEF IndexingThrows, TypeOK, IndexedFirst
<1>3. CASE IndexFile
  <2>1. key' \in EventIds
    BY <1>3, SmallestMeta DEF IndexFile
  <2> QED BY <2>1, <1>3 DEF IndexFile, Rewind, TypeOK, IndexedFirst
<1>4. CASE ReadRawFrame
  <2>1. PICK r \in SizeResults :
          /\ r.exception = "none"
          /\ frames' = Append(frames,
               [at |-> pos, size |-> r.size, short |-> BytesFrom(pos) < r.size * BlockBytes])
          /\ pos' = pos + r.size
          /\ good' = (BytesFrom(pos) >= r.size * BlockBytes)
    BY <1>4 DEF ReadRawFrame, GoodAfter
  <2>2. r.size \in 1..(SizeMod - 1) /\ r.size \in Nat
    <3>1. r.size \in 1..(SizeMod - 1)
      BY <2>1, Accepted
    <3> QED BY <3>1, <1>0
  <2>3. (BytesFrom(pos) < r.size * BlockBytes) \in BOOLEAN
        /\ (BytesFrom(pos) >= r.size * BlockBytes) \in BOOLEAN
    OBVIOUS
  <2>4. [at |-> pos, size |-> r.size, short |-> BytesFrom(pos) < r.size * BlockBytes] \in ReadType
    BY <1>0, <2>2, <2>3 DEF ReadType
  <2>5. frames' \in Seq(ReadType)
    BY <2>1, <2>4, <1>0
  <2>6. pos' \in Nat /\ good' \in BOOLEAN
    BY <2>1, <2>2, <2>3, <1>0
  <2> QED BY <2>5, <2>6, <1>4 DEF ReadRawFrame, TypeOK, IndexedFirst, ReadType
<1>5. CASE CloseFile
  BY <1>5, ExceptionType DEF CloseFile, TypeOK, IndexedFirst
<1>6. CASE Terminated \/ UNCHANGED vars
  BY <1>6 DEF Terminated, vars, TypeOK, IndexedFirst
<1> QED BY <1>1, <1>2, <1>3, <1>4, <1>5, <1>6 DEF Next

LEMMA TypeInvariant ==
  Spec => []TypeInv
<1> QED BY TypeInit, TypeStep, PTL DEF Spec

(* Whatever is in the file, the variables have their types; in particular a   *)
(* frame has a size that its 16 bits hold and that is not zero.               *)
THEOREM TypeCorrect ==
  Spec => []TypeOK
<1>1. TypeInv => TypeOK
  BY DEF TypeInv
<1> QED BY <1>1, TypeInvariant, PTL

-----------------------------------------------------------------------------
(* Where frames lie *)

FramesEnd == IF frames = <<>> THEN 0 ELSE frames[Len(frames)].at + frames[Len(frames)].size

\* As long as the stream is good it stands behind the last frame that was
\* returned, where the same meta type is found again or nothing is.
NextInPlace ==
  phase = "merge" /\ good =>
    /\ pos = FramesEnd
    /\ frames # <<>> => BytesAt(pos) = 0 \/ BlockAt(pos).meta = BlockAt(0).meta

TileInv == TypeInv /\ FramesTile /\ NextInPlace

(* What a frame that is returned adds to those before it. *)
LEMMA FrameAppended ==
  ASSUME TypeOK, ReadRawFrame
  PROVE  \E r \in SizeResults :
           /\ r.exception = "none" /\ r.size \in Nat
           /\ frames' = Append(frames,
                [at |-> pos, size |-> r.size, short |-> BytesFrom(pos) < r.size * BlockBytes])
           /\ Len(frames') = Len(frames) + 1 /\ frames' # <<>>
           /\ Len(frames) \in Nat /\ DOMAIN frames = 1..Len(frames)
           /\ DOMAIN frames' = 1..(Len(frames) + 1)
           /\ \A i \in 1..Len(frames) : frames'[i] = frames[i]
           /\ frames'[Len(frames) + 1] =
                [at |-> pos, size |-> r.size, short |-> BytesFrom(pos) < r.size * BlockBytes]
           /\ pos' = pos + r.size
           /\ good' = (BytesFrom(pos) >= r.size * BlockBytes)
<1> DEFINE x(r) == [at |-> pos, size |-> r.size, short |-> BytesFrom(pos) < r.size * BlockBytes]
<1>1. PICK r \in SizeResults :
        /\ r.exception = "none"
        /\ frames' = Append(frames, x(r))
        /\ pos' = pos + r.size
        /\ good' = (BytesFrom(pos) >= r.size * BlockBytes)
  BY DEF ReadRawFrame, GoodAfter
<1>2. r.size \in Nat
  <2>1. r.size \in 1..(SizeMod - 1) /\ SizeMod \in Nat
    BY <1>1, Accepted, GRAWFileAssumption
  <2> QED BY <2>1
<1>3. frames \in Seq(ReadType)
  BY DEF TypeOK, ReadType
<1> HIDE DEF x
<1>4. /\ Len(frames) \in Nat /\ DOMAIN frames = 1..Len(frames)
      /\ Len(frames') = Len(frames) + 1 /\ DOMAIN frames' = 1..(Len(frames) + 1)
      /\ \A i \in 1..Len(frames) : frames'[i] = frames[i]
      /\ frames'[Len(frames) + 1] = x(r)
  BY <1>1, <1>3
<1>5. frames' # <<>>
  BY <1>4
<1> QED BY <1>1, <1>2, <1>4, <1>5 DEF x

LEMMA TileStep ==
  TileInv /\ [Next]_vars => TileInv'
<1> SUFFICES ASSUME TileInv, [Next]_vars PROVE TileInv'
  OBVIOUS
<1>0. TypeInv' /\ TypeOK /\ content \in Contents /\ pos \in Nat
  BY TypeStep DEF TileInv, TypeInv, TypeOK
<1>1. CASE UNCHANGED <<content, frames>> /\ phase' # "merge"
  BY <1>0, <1>1 DEF TileInv, FramesTile, NextInPlace, BlockAt
<1>2. CASE IndexFile
  <2>1. frames' = <<>> /\ content' = content /\ (good' => pos' = 0)
    BY <1>2 DEF IndexFile, Rewind, TileInv, TypeInv, IndexedFirst
  <2> QED BY <2>1, <1>0 DEF TileInv, FramesTile, NextInPlace, FramesEnd
<1>3. CASE ReadRawFrame
  <2> DEFINE n == Len(frames)
  <2>1. PICK r \in SizeResults :
          /\ r.exception = "none" /\ r.size \in Nat
          /\ n \in Nat /\ DOMAIN frames = 1..n
          /\ Len(frames') = n + 1 /\ frames' # <<>> /\ DOMAIN frames' = 1..(n + 1)
          /\ \A i \in 1..n : frames'[i] = frames[i]
          /\ frames'[n + 1].at = pos /\ frames'[n + 1].size = r.size
          /\ pos' = pos + r.size
    <3>1. PICK r \in SizeResults :
            /\ r.exception = "none" /\ r.size \in Nat
            /\ n \in Nat /\ DOMAIN frames = 1..n
            /\ Len(frames') = n + 1 /\ frames' # <<>> /\ DOMAIN frames' = 1..(n + 1)
            /\ \A i \in 1..n : frames'[i] = frames[i]
            /\ frames'[n + 1] =
                 [at |-> pos, size |-> r.size, short |-> BytesFrom(pos) < r.size * BlockBytes]
            /\ pos' = pos + r.size
      BY <1>0, <1>3, FrameAppended
    <3>2. frames'[n + 1].at = pos /\ frames'[n + 1].size = r.size
      BY <3>1
    <3> QED BY <3>1, <3>2
  <2>2. good /\ BytesAt(pos) >= SizeBytes
        /\ (BytesAt(pos + r.size) = 0 \/ BlockAt(pos + r.size).meta = BlockAt(pos).meta)
    BY <1>0, <2>1, Accepted DEF ReachesNextFrame
  <2>3. content' = content /\ phase' = "merge" /\ phase = "merge"
    BY <1>3 DEF ReadRawFrame
  <2>4. pos = FramesEnd /\ BlockAt(pos).meta = BlockAt(0).meta
    <3>1. /\ pos = FramesEnd
          /\ frames # <<>> => BytesAt(pos) = 0 \/ BlockAt(pos).meta = BlockAt(0).meta
      BY <2>2, <2>3 DEF TileInv, NextInPlace
    <3>2. BytesAt(pos) # 0
      BY <2>2 DEF SizeBytes
    <3>3. frames = <<>> => pos = 0
      BY <3>1 DEF FramesEnd
    <3> QED BY <3>1, <3>2, <3>3
  <2>5. NextInPlace'
    <3>1. FramesEnd' = pos + r.size
      BY <2>1 DEF FramesEnd
    <3>2. BytesAt(pos)' = BytesAt(pos + r.size) /\ BlockAt(pos)' = BlockAt(pos + r.size)
          /\ BlockAt(0)' = BlockAt(0)
      BY <2>1, <2>3 DEF BytesAt, BlockAt, Blocks
    <3> QED BY <3>1, <3>2, <2>1, <2>2, <2>4 DEF NextInPlace
  <2>6. FramesTile'
    <3> SUFFICES ASSUME NEW i \in 1..(n + 1)
                 PROVE  /\ frames'[i].at =
                             IF i = 1 THEN 0 ELSE frames'[i - 1].at + frames'[i - 1].size
                        /\ BlockIn(content, frames'[i].at).meta = BlockIn(content, 0).meta
      BY <2>1, <2>3 DEF FramesTile, BlockAt
    <3>1. CASE i \in 1..n
      <4>1. i = 1 \/ i - 1 \in 1..n
        BY <3>1, <2>1
      <4>2. /\ frames[i].at = IF i = 1 THEN 0 ELSE frames[i - 1].at + frames[i - 1].size
            /\ BlockIn(content, frames[i].at).meta = BlockIn(content, 0).meta
        BY <3>1, <2>1 DEF TileInv, FramesTile, BlockAt
      <4>3. frames'[i] = frames[i] /\ (i # 1 => frames'[i - 1] = frames[i - 1])
        BY <4>1, <3>1, <2>1
      <4> QED BY <4>2, <4>3
    <3>2. CASE i = n + 1 /\ n = 0
      <4>1. frames = <<>>
        BY <3>2, <1>0 DEF TypeOK
      <4> QED BY <3>2, <4>1, <2>1, <2>4 DEF FramesEnd, BlockAt
    <3>3. CASE i = n + 1 /\ n # 0
      <4>1. i - 1 = n /\ n \in 1..n /\ i # 1 /\ frames # <<>>
        BY <3>3, <2>1
      <4>2. frames'[i].at = frames[n].at + frames[n].size
        BY <3>3, <4>1, <2>1, <2>4 DEF FramesEnd
      <4>3. frames'[i - 1] = frames[n]
        BY <4>1, <2>1
      <4> QED BY <4>1, <4>2, <4>3, <3>3, <2>1, <2>4 DEF BlockAt
    <3> QED BY <3>1, <3>2, <3>3, <2>1
  <2> QED BY <1>0, <2>5, <2>6 DEF TileInv
<1>4. CASE UNCHANGED vars
  BY <1>0, <1>4 DEF vars, TileInv, FramesTile, NextInPlace, FramesEnd, BytesAt, BlockAt, Blocks
<1>5. CASE ReadFrameMetadata \/ IndexingThrows \/ CloseFile
  <2>1. UNCHANGED <<content, frames>> /\ phase' # "merge"
    BY <1>5 DEF ReadFrameMetadata, IndexingThrows, CloseFile
  <2> QED BY <1>1, <2>1
<1> QED BY <1>2, <1>3, <1>4, <1>5 DEF Next, Terminated

LEMMA TileInvariant ==
  Spec => []TileInv
<1>1. Init => TileInv
  <2> SUFFICES ASSUME Init PROVE TileInv
    OBVIOUS
  <2>1. frames = <<>> /\ phase = "index"
    BY DEF Init
  <2> QED BY <2>1, TypeInit DEF TileInv, FramesTile, NextInPlace
<1> QED BY <1>1, TileStep, PTL DEF Spec

(* The frames returned from any file lie one behind the other from its        *)
(* beginning, and all begin with the same meta type: between two calls the    *)
(* stream, if it is still good, stands where GetNextFrameSize looked ahead.   *)
THEOREM FramesTileCorrect ==
  Spec => []FramesTile
<1>1. TileInv => FramesTile
  BY DEF TileInv
<1> QED BY <1>1, TileInvariant, PTL

-----------------------------------------------------------------------------
(* Which frames are found *)

\* Every frame returned from a file that was not overwritten is the one that
\* was written there.
Followed ==
  content.damage # "overwritten" =>
    /\ Len(frames) <= Len(Written)
    /\ \A i \in DOMAIN frames :
         frames[i] = [at |-> EndOfFrame(i - 1), size |-> Written[i].size,
                      short |-> BytesFrom(EndOfFrame(i - 1)) < Written[i].size * BlockBytes]

FollowInv == TileInv /\ Followed

LEMMA FollowedEnd ==
  ASSUME TypeOK, Followed, content.damage # "overwritten"
  PROVE  /\ Len(frames) \in 0..Len(Written) /\ Len(Written) \in Nat
         /\ FramesEnd = EndOfFrame(Len(frames))
<1>1. /\ content \in Contents /\ Len(frames) \in Nat /\ DOMAIN frames = 1..Len(frames)
      /\ (frames = <<>> <=> Len(frames) = 0)
  BY DEF TypeOK
<1>2. Len(Written) \in Nat /\ Len(frames) \in 0..Len(Written)
  BY <1>1, FileTypes DEF Written, Followed
<1>3. CASE frames = <<>>
  BY <1>1, <1>3 DEF FramesEnd, EndOfFrame, EndOf
<1>4. CASE frames # <<>>
  <2> DEFINE k == Len(frames) - 1
  <2>1. k \in 0..(Len(Written) - 1) /\ k + 1 = Len(frames) /\ k + 1 \in DOMAIN frames
        /\ (k + 1) - 1 = k
    BY <1>1, <1>2, <1>4
  <2>2. frames[k + 1].at = EndOfFrame(k) /\ frames[k + 1].size = Written[k + 1].size
    BY <2>1 DEF Followed
  <2>3. EndOfFrame(k + 1) = EndOfFrame(k) + Written[k + 1].size
    BY <2>1, <1>1, NextWritten DEF Written, EndOfFrame
  <2> QED BY <2>1, <2>2, <2>3, <1>4 DEF FramesEnd
<1> QED BY <1>2, <1>3, <1>4

LEMMA FollowStep ==
  FollowInv /\ [Next]_vars => FollowInv'
<1> SUFFICES ASSUME FollowInv, [Next]_vars PROVE Followed'
  BY TileStep DEF FollowInv
<1>0. TypeOK /\ content \in Contents
  BY DEF FollowInv, TileInv, TypeInv, TypeOK
<1>1. CASE UNCHANGED <<content, frames>>
  BY <1>1 DEF FollowInv, Followed, Written, EndOfFrame, BytesFrom, Blocks
<1>2. CASE ReadRawFrame
  <2>0. content' = content /\ phase = "merge"
    BY <1>2 DEF ReadRawFrame
  <2> DEFINE short(p, size) == BytesFrom(p) < size * BlockBytes
             n == Len(frames)
  <2>1. /\ Written' = Written
        /\ \A i : EndOfFrame(i)' = EndOfFrame(i) /\ BytesFrom(EndOfFrame(i))' = BytesFrom(EndOfFrame(i))
    BY <2>0 DEF Written, EndOfFrame, BytesFrom, Blocks
  <2>2. PICK r \in SizeResults :
          /\ r.exception = "none" /\ r.size \in Nat
          /\ n \in Nat /\ DOMAIN frames = 1..n
          /\ Len(frames') = n + 1 /\ DOMAIN frames' = 1..(n + 1)
          /\ \A i \in 1..n : frames'[i] = frames[i]
          /\ frames'[n + 1] = [at |-> pos, size |-> r.size, short |-> short(pos, r.size)]
    BY <1>0, <1>2, FrameAppended
  <2>3. SUFFICES ASSUME content.damage # "overwritten"
                 PROVE  /\ Len(frames') <= Len(Written)
                        /\ \A i \in DOMAIN frames' :
                             frames'[i] = [at |-> EndOfFrame(i - 1), size |-> Written[i].size,
                                short |-> short(EndOfFrame(i - 1), Written[i].size)]
    BY <2>0, <2>1 DEF Followed
  <2>4. n \in 0..Len(Written) /\ Len(Written) \in Nat /\ FramesEnd = EndOfFrame(n)
    BY <1>0, <2>3, FollowedEnd DEF FollowInv
  <2>5. good
    BY <1>0, <2>2, Accepted
  <2>6. pos = EndOfFrame(n)
    BY <2>0, <2>4, <2>5 DEF FollowInv, TileInv, NextInPlace
  <2>7. n \in 0..(Len(Written) - 1) /\ r.size = Written[n + 1].size
    BY <1>0, <2>2, <2>3, <2>4, <2>6, FrameFound
  <2>8. Len(frames') <= Len(Written)
    BY <2>2, <2>4, <2>7
  <2>9. \A i \in 1..n : frames[i] = [at |-> EndOfFrame(i - 1), size |-> Written[i].size,
                                     short |-> short(EndOfFrame(i - 1), Written[i].size)]
    BY <2>2, <2>3 DEF FollowInv, Followed
  <2> HIDE DEF short
  <2>10. ASSUME NEW i \in 1..(n + 1)
         PROVE  frames'[i] = [at |-> EndOfFrame(i - 1), size |-> Written[i].size,
                              short |-> short(EndOfFrame(i - 1), Written[i].size)]
    <3>1. CASE i \in 1..n
      BY <3>1, <2>2, <2>9
    <3>2. CASE i = n + 1
      <4>1. i - 1 = n
        BY <3>2, <2>2
      <4>2. frames'[i] = [at |-> EndOfFrame(i - 1), size |-> Written[i].size,
                          short |-> short(pos, Written[i].size)]
        BY <4>1, <3>2, <2>2, <2>6, <2>7
      <4> QED BY <4>1, <4>2, <2>6
    <3> QED BY <3>1, <3>2, <2>2
  <2> QED BY <2>8, <2>10, <2>2
<1>3. CASE [Next]_vars /\ ~ReadRawFrame
  BY <1>1, <1>3 DEF Next, vars, ReadFrameMetadata, IndexingThrows, IndexFile, CloseFile, Terminated
<1> QED BY <1>2, <1>3

LEMMA FollowInit ==
  Init => FollowInv
<1> SUFFICES ASSUME Init PROVE FollowInv
  OBVIOUS
<1>1. frames = <<>> /\ phase = "index" /\ content \in Contents
  BY DEF Init
<1>2. Len(Written) \in Nat
  BY <1>1, FileTypes DEF Written
<1> QED BY <1>1, <1>2, TypeInit DEF FollowInv, TileInv, FramesTile, NextInPlace, Followed

LEMMA FewerBlocks ==
  ASSUME NEW here \in Nat, NEW p \in Nat, NEW rest \in Nat, NEW size \in Nat,
         (here - p) * 256 + rest < size * 256
  PROVE  here < p + size
OBVIOUS

(* A frame that is cut short ends behind the file. *)
LEMMA ShortEndsBehind ==
  ASSUME content \in Contents, NEW k \in 0..(Len(Written) - 1),
         BytesFrom(EndOfFrame(k)) < Written[k + 1].size * BlockBytes
  PROVE  EndOfFrame(k + 1) > Blocks
<1>1. /\ EndOfFrame(k + 1) = EndOfFrame(k) + Written[k + 1].size
      /\ Written[k + 1].size \in 1..(SizeMod - 1)
  BY NextWritten DEF Written, EndOfFrame
<1>2. Len(Written) \in Nat /\ k \in 0..Len(Written) /\ EndOfFrame(k) \in Nat
  BY FileTypes DEF Written, EndOfFrame
<1>3. Written[k + 1].size \in Nat \ {0} /\ Blocks \in Nat /\ content.tail.bytes \in Nat
  <2>1. Blocks \in Nat /\ content.tail.bytes \in Nat
    BY <1>2, BytesThere
  <2>2. SizeMod \in Nat
    BY GRAWFileAssumption
  <2>3. Written[k + 1].size \in Nat \ {0}
    BY <1>1, <2>2
  <2> QED BY <2>1, <2>3
<1>4. Blocks < EndOfFrame(k) + Written[k + 1].size
  <2>1. CASE EndOfFrame(k) > Blocks
    BY <1>2, <1>3, <2>1
  <2>2. CASE ~(EndOfFrame(k) > Blocks)
    <3>1. (Blocks - EndOfFrame(k)) * 256 + content.tail.bytes < Written[k + 1].size * 256
      BY <2>2 DEF BytesFrom, BlockBytes
    <3>2. EndOfFrame(k) \in Nat /\ Written[k + 1].size \in Nat
          /\ Blocks \in Nat /\ content.tail.bytes \in Nat
      BY <1>2, <1>3
    <3> QED BY <3>1, <3>2, FewerBlocks
  <2> QED BY <2>1, <2>2
<1>5. EndOfFrame(k) \in Nat /\ Written[k + 1].size \in Nat /\ Blocks \in Nat
  BY <1>2, <1>3
<1> QED BY <1>1, <1>4, <1>5

-----------------------------------------------------------------------------
(* A file that was written completely *)

\* The index, like the merge, follows the frames that were written, and the
\* stream never fails.
Intact ==
  content.damage = "none" =>
    /\ good
    /\ phase = "index" => pos = EndOfFrame(Len(metas))
    /\ Len(metas) <= Len(Written)
    /\ \A i \in DOMAIN metas : metas[i] = Written[i].evt
    /\ phase = "closed" => Len(frames) = Len(Written)
    /\ phase = "failed" => Len(Written) < IndexDepth

IntactInv == FollowInv /\ Intact

(* In such a file the frame behind the first k is found. *)
LEMMA NoneMissed ==
  ASSUME TypeOK, content.damage = "none", good,
         NEW k \in 0..Len(Written), pos = EndOfFrame(k),
         NEW r \in SizeResults, r.exception # "none"
  PROVE  k = Len(Written)
<1>0. content \in Contents
  BY DEF TypeOK
<1>1. Len(Written) \in Nat /\ EndOfFrame(Len(Written)) = Blocks
  BY <1>0, FileTypes, ContentsAssumption DEF Written, EndOfFrame, Blocks
<1>2. SUFFICES ASSUME k # Len(Written) PROVE FALSE
  OBVIOUS
<1>3. k \in 0..(Len(Written) - 1) /\ k + 1 \in 0..Len(Written)
      /\ Len(Written) \in (k + 1)..Len(Written)
  BY <1>1, <1>2
<1>4. EndOfFrame(k + 1) <= Blocks
  <2>1. EndOfFrame(k + 1) <= EndOfFrame(Len(Written))
    BY <1>0, <1>3, EndsGrow DEF Written, EndOfFrame
  <2> QED BY <1>1, <2>1
<1> QED BY <1>3, <1>4, FrameNotMissed

LEMMA IntactStep ==
  IntactInv /\ [Next]_vars => IntactInv'
<1> SUFFICES ASSUME IntactInv, [Next]_vars PROVE Intact'
  BY FollowStep DEF IntactInv
<1>0. TypeOK /\ content \in Contents /\ content' = content
  BY DEF IntactInv, FollowInv, TileInv, TypeInv, TypeOK, Next, vars, ReadFrameMetadata,
         IndexingThrows, IndexFile, ReadRawFrame, CloseFile, Terminated
<1>1. Written' = Written /\ \A i : EndOfFrame(i)' = EndOfFrame(i)
  BY <1>0 DEF Written, EndOfFrame
<1>2. SUFFICES ASSUME content.damage = "none"
      PROVE  /\ good'
             /\ phase' = "index" => pos' = EndOfFrame(Len(metas'))
             /\ Len(metas') <= Len(Written)
             /\ \A i \in DOMAIN metas' : metas'[i] = Written[i].evt
             /\ phase' = "closed" => Len(frames') = Len(Written)
             /\ phase' = "failed" => Len(Written) < IndexDepth
  BY <1>0, <1>1 DEF Intact
<1>3. /\ good
      /\ phase = "index" => pos = EndOfFrame(Len(metas))
      /\ Len(metas) <= Len(Written)
      /\ \A i \in DOMAIN metas : metas[i] = Written[i].evt
      /\ phase = "closed" => Len(frames) = Len(Written)
      /\ phase = "failed" => Len(Written) < IndexDepth
  BY <1>2 DEF IntactInv, Intact
<1>4. /\ metas \in Seq(EventIds) /\ Len(metas) \in Nat /\ Len(Written) \in Nat
      /\ Len(metas) \in 0..Len(Written) /\ content.tail.bytes = 0
  <2>1. metas \in Seq(EventIds) /\ Len(metas) \in Nat
    BY <1>0 DEF TypeOK
  <2>2. Len(Written) \in Nat /\ content.tail.bytes = 0
    BY <1>0, <1>2, FileTypes, ContentsAssumption DEF Written
  <2> QED BY <2>1, <2>2, <1>3
<1>5. CASE ReadFrameMetadata
  <2>1. PICK r \in SizeResults :
          /\ r.exception = "none"
          /\ IF BytesAt(pos) >= EvtIdBytes
               THEN metas' = Append(metas, BlockAt(pos).evt) /\ pos' = pos + r.size
                    /\ UNCHANGED good
               ELSE /\ \E e \in EventIds : metas' = Append(metas, e)
                    /\ good' = FALSE /\ UNCHANGED pos
    BY <1>5 DEF ReadFrameMetadata
  <2> DEFINE k == Len(metas)
  <2>2. phase = "index" /\ phase' = "index" /\ pos = EndOfFrame(k) /\ pos \in Nat
    BY <1>0, <1>3, <1>5 DEF ReadFrameMetadata, TypeOK
  <2>3. k \in 0..(Len(Written) - 1) /\ r.size = Written[k + 1].size
        /\ BlockAt(pos).evt = Written[k + 1].evt
    BY <1>0, <1>2, <1>4, <2>1, <2>2, FrameFound
  <2>4. EndOfFrame(k + 1) = pos + r.size /\ Written[k + 1].evt \in EventIds
    BY <1>0, <2>2, <2>3, NextWritten DEF Written, EndOfFrame
  <2>5. BytesAt(pos) >= EvtIdBytes
    <3>1. BytesAt(pos) >= SizeBytes
      BY <1>0, <2>1, Accepted DEF ReachesNextFrame
    <3>2. BytesAt(pos) = BlockBytes \/ BytesAt(pos) = 0
      BY <1>4 DEF BytesAt
    <3> QED BY <3>1, <3>2 DEF BlockBytes, SizeBytes, EvtIdBytes
  <2>6. metas' = Append(metas, Written[k + 1].evt) /\ pos' = EndOfFrame(k + 1) /\ good'
    BY <1>3, <2>1, <2>3, <2>4, <2>5
  <2>7. /\ Len(metas') = k + 1 /\ DOMAIN metas' = 1..(k + 1)
        /\ \A i \in 1..k : metas'[i] = metas[i]
        /\ metas'[k + 1] = Written[k + 1].evt
    BY <1>4, <2>4, <2>6
  <2>8. \A i \in 1..(k + 1) : metas'[i] = Written[i].evt
    <3>1. \A i \in 1..k : metas'[i] = Written[i].evt
      BY <1>3, <1>4, <2>7
    <3>2. ASSUME NEW i \in 1..(k + 1), i \notin 1..k PROVE i = k + 1
      BY <1>4, <3>2
    <3> HIDE DEF k
    <3> QED BY <3>1, <3>2, <2>7
  <2> QED BY <2>2, <2>3, <2>6, <2>7, <2>8, <1>4
<1>6. CASE IndexingThrows
  <2>1. Len(metas) = Len(Written)
    <3>1. PICK r \in SizeResults : r.exception # "none"
      BY <1>6 DEF IndexingThrows
    <3>2. pos = EndOfFrame(Len(metas))
      BY <1>3, <1>6 DEF IndexingThrows
    <3> QED BY <1>0, <1>2, <1>3, <1>4, <3>1, <3>2, NoneMissed
  <2> QED BY <2>1, <1>3, <1>6 DEF IndexingThrows
<1>7. CASE IndexFile
  BY <1>3, <1>7 DEF IndexFile, Rewind
<1>8. CASE ReadRawFrame \/ CloseFile
  <2> DEFINE k == Len(frames)
  <2>1. k \in 0..Len(Written) /\ pos = EndOfFrame(k)
    <3>1. Followed /\ content.damage # "overwritten"
      BY <1>2 DEF IntactInv, FollowInv
    <3>2. k \in 0..Len(Written) /\ FramesEnd = EndOfFrame(k)
      BY <1>0, <3>1, FollowedEnd
    <3>3. pos = FramesEnd
      BY <1>3, <1>8 DEF IntactInv, FollowInv, TileInv, NextInPlace, ReadRawFrame, CloseFile
    <3> QED BY <3>2, <3>3
  <2>2. CASE ReadRawFrame
    <3>1. PICK r \in SizeResults :
            r.exception = "none" /\ good' = (BytesFrom(pos) >= r.size * BlockBytes)
      BY <1>0, <2>2, FrameAppended
    <3>2. k \in 0..(Len(Written) - 1) /\ r.size = Written[k + 1].size
      BY <1>0, <1>2, <2>1, <3>1, FrameFound
    <3>3. EndOfFrame(k + 1) <= Blocks
      <4>1. EndOfFrame(Len(Written)) = Blocks
        BY <1>0, <1>2, ContentsAssumption DEF Written, EndOfFrame, Blocks
      <4>2. k + 1 \in 0..Len(Written) /\ Len(Written) \in (k + 1)..Len(Written)
        BY <1>4, <3>2
      <4>3. EndOfFrame(k + 1) <= EndOfFrame(Len(Written))
        BY <1>0, <4>2, EndsGrow DEF Written, EndOfFrame
      <4> QED BY <4>1, <4>3
    <3>4. Blocks \in Nat /\ EndOfFrame(k + 1) \in Nat
      <4>1. k + 1 \in 0..Len(Written)
        BY <1>4, <3>2
      <4> QED BY <1>0, <4>1, FileTypes DEF Written, EndOfFrame, Blocks
    <3>5. ~(BytesFrom(pos) < Written[k + 1].size * BlockBytes)
      <4>1. ~(EndOfFrame(k + 1) > Blocks)
        BY <3>3, <3>4
      <4> QED BY <1>0, <2>1, <3>2, <4>1, ShortEndsBehind
    <3>6. good'
      <4>1. BytesFrom(pos) \in Nat
        <5>1. pos \in Nat /\ Blocks \in Nat /\ content.tail.bytes = 0
          BY <1>0, <1>4, <3>4 DEF TypeOK
        <5> QED BY <5>1 DEF BytesFrom, BlockBytes
      <4>2. Written[k + 1].size * BlockBytes \in Nat
        <5>1. Written[k + 1].size \in 1..(SizeMod - 1) /\ SizeMod \in Nat
          BY <1>0, <3>2, NextWritten, GRAWFileAssumption DEF Written
        <5>2. Written[k + 1].size \in Nat
          BY <5>1
        <5> QED BY <5>2 DEF BlockBytes
      <4>3. BytesFrom(pos) >= Written[k + 1].size * BlockBytes
        BY <3>5, <4>1, <4>2
      <4>4. good' = (BytesFrom(pos) >= Written[k + 1].size * BlockBytes)
        BY <3>1, <3>2
      <4> QED BY <4>3, <4>4
    <3> QED BY <3>6, <1>3, <2>2 DEF ReadRawFrame
  <2>3. CASE CloseFile
    <3>1. PICK r \in SizeResults : r.exception # "none"
      BY <2>3 DEF CloseFile
    <3>2. k = Len(Written)
      BY <1>0, <1>2, <1>3, <2>1, <3>1, NoneMissed
    <3> QED BY <3>2, <1>3, <2>3 DEF CloseFile
  <2> QED BY <1>8, <2>2, <2>3
<1>9. CASE Terminated \/ UNCHANGED vars
  BY <1>3, <1>9 DEF Terminated, vars
<1> QED BY <1>5, <1>6, <1>7, <1>8, <1>9 DEF Next

LEMMA IntactInvariant ==
  Spec => []IntactInv
<1>1. Init => IntactInv
  <2> SUFFICES ASSUME Init PROVE IntactInv
    OBVIOUS
  <2>1. /\ good /\ phase = "index" /\ pos = 0 /\ metas = <<>> /\ content \in Contents
        /\ FollowInv
    BY FollowInit DEF Init
  <2>2. Len(Written) \in Nat /\ EndOfFrame(0) = 0
    BY <2>1, FileTypes DEF Written, EndOfFrame, EndOf
  <2> QED BY <2>1, <2>2 DEF IntactInv, Intact
<1> QED BY <1>1, IntactStep, PTL DEF Spec

(* Of a file that was written completely, however many frames of whatever     *)
(* sizes, every frame is read, in order and in full, and it is indexed under   *)
(* the ids of its first frames.  The proof follows both passes over the file:  *)
(* at the end of a frame that was written the header of the next one, and only *)
(* it, is found, and the byte looked at behind it is that of another header or *)
(* the end of the file.                                                        *)
THEOREM ReadsWhatWasWrittenCorrect ==
  Spec => []ReadsWhatWasWritten
<1>1. IntactInv => ReadsWhatWasWritten
  <2> SUFFICES ASSUME IntactInv, content.damage = "none" PROVE ReadsWhatWasWritten
    BY DEF ReadsWhatWasWritten
  <2>1. TypeOK /\ content \in Contents /\ Followed
    BY DEF IntactInv, FollowInv, TileInv, TypeInv, TypeOK
  <2>2. Len(Written) \in Nat /\ DOMAIN Written = 1..Len(Written)
        /\ Len(frames) \in Nat /\ DOMAIN frames = 1..Len(frames)
        /\ Len(metas) \in Nat /\ DOMAIN metas = 1..Len(metas)
    BY <2>1, FileTypes DEF TypeOK, Written
  <2>3. Len(frames) <= Len(Written)
    BY <2>1 DEF Followed
  <2>4. ASSUME NEW i \in DOMAIN frames
        PROVE  frames[i] = [at |-> EndOfFrame(i - 1), size |-> Written[i].size, short |-> FALSE]
    <3>1. frames[i] = [at |-> EndOfFrame(i - 1), size |-> Written[i].size,
                       short |-> BytesFrom(EndOfFrame(i - 1)) < Written[i].size * BlockBytes]
      BY <2>1 DEF Followed
    <3>2. i - 1 \in 0..(Len(Written) - 1) /\ (i - 1) + 1 = i
          /\ i \in 0..Len(Written) /\ Len(Written) \in i..Len(Written)
      BY <2>2, <2>3
    <3>3. EndOfFrame(i) <= Blocks
      <4>1. EndOfFrame(Len(Written)) = Blocks
        BY <2>1, ContentsAssumption DEF Written, EndOfFrame, Blocks
      <4>2. EndOfFrame(i) <= EndOfFrame(Len(Written))
        BY <2>1, <3>2, EndsGrow DEF Written, EndOfFrame
      <4> QED BY <4>1, <4>2
    <3>4. EndOfFrame(i) \in Nat /\ Blocks \in Nat
      BY <2>1, <3>2, FileTypes DEF Written, EndOfFrame, Blocks
    <3>5. ~(BytesFrom(EndOfFrame(i - 1)) < Written[(i - 1) + 1].size * BlockBytes)
      <4>1. ~(EndOfFrame((i - 1) + 1) > Blocks)
        BY <3>2, <3>3, <3>4
      <4> QED BY <2>1, <3>2, <4>1, ShortEndsBehind
    <3> DEFINE short == BytesFrom(EndOfFrame(i - 1)) < Written[i].size * BlockBytes
    <3>6. short = FALSE
      BY <3>2, <3>5
    <3> HIDE DEF short
    <3>7. frames[i] = [at |-> EndOfFrame(i - 1), size |-> Written[i].size, short |-> short]
      BY <3>1 DEF short
    <3> QED BY <3>6, <3>7
  <2>5. /\ Len(metas) <= Len(Written)
        /\ \A i \in DOMAIN metas : metas[i] = Written[i].evt
        /\ phase = "closed" => Len(frames) = Len(Written)
        /\ phase = "failed" => Len(Written) < IndexDepth
    BY DEF IntactInv, Intact
  <2>6. ASSUME NEW i \in DOMAIN metas PROVE i <= Len(Written)
    <3>1. i \in 1..Len(metas) /\ Len(metas) <= Len(Written)
      BY <2>2, <2>5
    <3> QED BY <3>1, <2>2
  <2> QED BY <2>3, <2>4, <2>5, <2>6 DEF ReadsWhatWasWritten
<1> QED BY <1>1, IntactInvariant, PTL

-----------------------------------------------------------------------------
(* A file that was cut off *)

\* Reading stops where the file does: in the middle of a frame the stream has
\* failed, and the frame that was to follow ends behind the file.
CutFile ==
  content.damage = "cut" =>
    /\ phase = "merge" /\ ~good /\ frames # <<>> => EndOfFrame(Len(frames)) > Blocks
    /\ phase = "closed" /\ frames # <<>> =>
         \/ EndOfFrame(Len(frames)) > Blocks
         \/ /\ Len(frames) < Len(Written)
            /\ EndOfFrame(Len(frames) + 1) > Blocks

CutInv == FollowInv /\ CutFile

LEMMA CutStep ==
  CutInv /\ [Next]_vars => CutInv'
<1> SUFFICES ASSUME CutInv, [Next]_vars PROVE CutFile'
  BY FollowStep DEF CutInv
<1>0. TypeOK /\ content \in Contents /\ content' = content
  BY DEF CutInv, FollowInv, TileInv, TypeInv, TypeOK, Next, vars, ReadFrameMetadata,
         IndexingThrows, IndexFile, ReadRawFrame, CloseFile, Terminated
<1>1. Written' = Written /\ Blocks' = Blocks /\ \A i : EndOfFrame(i)' = EndOfFrame(i)
  BY <1>0 DEF Written, EndOfFrame, Blocks
<1>2. CASE UNCHANGED vars
  BY <1>2 DEF vars, CutInv, CutFile, Written, EndOfFrame, Blocks
<1>3. CASE ReadFrameMetadata \/ IndexingThrows
  BY <1>3 DEF ReadFrameMetadata, IndexingThrows, CutFile
<1>4. CASE IndexFile
  <2>1. frames' = <<>>
    BY <1>4 DEF IndexFile, CutInv, FollowInv, TileInv, TypeInv, IndexedFirst
  <2> QED BY <2>1 DEF CutFile
<1>5. CASE ReadRawFrame
  <2> DEFINE k == Len(frames)
  <2>1. SUFFICES ASSUME content.damage = "cut", ~good'
                 PROVE  EndOfFrame(Len(frames')) > Blocks
    BY <1>0, <1>1, <1>5 DEF CutFile, ReadRawFrame
  <2>2. PICK r \in SizeResults :
          /\ r.exception = "none" /\ r.size \in Nat /\ Len(frames') = k + 1
          /\ good' = (BytesFrom(pos) >= r.size * BlockBytes)
    BY <1>0, <1>5, FrameAppended
  <2>3. k \in 0..Len(Written) /\ FramesEnd = EndOfFrame(k) /\ Len(Written) \in Nat
    BY <1>0, <2>1, FollowedEnd DEF CutInv, FollowInv
  <2>4. pos = EndOfFrame(k)
    <3>1. good
      BY <1>0, <2>2, Accepted
    <3> QED BY <3>1, <1>5, <2>3 DEF ReadRawFrame, CutInv, FollowInv, TileInv, NextInPlace
  <2>5. k \in 0..(Len(Written) - 1) /\ r.size = Written[k + 1].size
    BY <1>0, <2>1, <2>2, <2>3, <2>4, FrameFound
  <2>6. BytesFrom(EndOfFrame(k)) < Written[k + 1].size * BlockBytes
    <3>1. pos \in Nat /\ Blocks \in Nat /\ content.tail.bytes \in Nat
      BY <1>0, BytesThere DEF TypeOK
    <3>2. BytesFrom(pos) \in Nat
      BY <3>1 DEF BytesFrom, BlockBytes
    <3>3. r.size * BlockBytes \in Nat
      BY <2>2 DEF BlockBytes
    <3>4. ~(BytesFrom(pos) >= r.size * BlockBytes)
      BY <2>1, <2>2
    <3>5. BytesFrom(pos) < r.size * BlockBytes
      BY <3>2, <3>3, <3>4
    <3> QED BY <3>5, <2>4, <2>5
  <2>7. EndOfFrame(k + 1) > Blocks
    BY <1>0, <2>5, <2>6, ShortEndsBehind
  <2> QED BY <2>2, <2>7
<1>6. CASE CloseFile
  <2> DEFINE k == Len(frames)
  <2>1. phase = "merge" /\ phase' = "closed" /\ frames' = frames
    BY <1>6 DEF CloseFile
  <2>2. SUFFICES ASSUME content.damage = "cut", frames # <<>>, ~(EndOfFrame(k) > Blocks)
                 PROVE  k < Len(Written) /\ EndOfFrame(k + 1) > Blocks
    BY <1>0, <1>1, <2>1 DEF CutFile
  <2>3. good
    BY <2>1, <2>2 DEF CutInv, CutFile
  <2>4. k \in 0..Len(Written) /\ FramesEnd = EndOfFrame(k) /\ Len(Written) \in Nat
    BY <1>0, <2>2, FollowedEnd DEF CutInv, FollowInv
  <2>5. pos = EndOfFrame(k)
    BY <2>1, <2>3, <2>4 DEF CutInv, FollowInv, TileInv, NextInPlace
  <2>6. k # Len(Written)
    BY <1>0, <2>2, ContentsAssumption DEF Written, EndOfFrame, Blocks
  <2>7. k \in 0..(Len(Written) - 1) /\ k + 1 \in 0..Len(Written)
    BY <2>4, <2>6
  <2>8. PICK r \in SizeResults : r.exception # "none"
    BY <1>6 DEF CloseFile
  <2>9. ~(EndOfFrame(k + 1) <= Blocks)
    BY <1>0, <2>2, <2>3, <2>5, <2>7, <2>8, FrameNotMissed
  <2>10. EndOfFrame(k + 1) \in Nat /\ Blocks \in Nat
    BY <1>0, <2>7, FileTypes DEF Written, EndOfFrame, Blocks
  <2> QED BY <2>7, <2>9, <2>10
<1> QED BY <1>2, <1>3, <1>4, <1>5, <1>6 DEF Next, Terminated

LEMMA CutInvariant ==
  Spec => []CutInv
<1>1. Init => CutInv
  <2> SUFFICES ASSUME Init PROVE CutInv
    OBVIOUS
  <2>1. phase = "index" /\ FollowInv
    BY FollowInit DEF Init
  <2> QED BY <2>1 DEF CutInv, CutFile
<1> QED BY <1>1, CutStep, PTL DEF Spec

(* Of a file that was cut off anywhere every frame before the cut is returned,  *)
(* if any frame is, and none of them is short: the stream fails no earlier      *)
(* than inside the frame that was cut.                                          *)
THEOREM CompleteFramesReadCorrect ==
  Spec => []CompleteFramesRead
<1>1. CutInv => CompleteFramesRead
  <2> SUFFICES ASSUME CutInv, content.damage = "cut", phase = "closed", frames # <<>>,
                      NEW i \in DOMAIN Written, EndOfFrame(i) <= Blocks
               PROVE  i \in DOMAIN frames /\ ~frames[i].short
    BY DEF CompleteFramesRead
  <2> DEFINE k == Len(frames)
  <2>1. TypeOK /\ content \in Contents /\ Followed
    BY DEF CutInv, FollowInv, TileInv, TypeInv, TypeOK
  <2>2. /\ Len(Written) \in Nat /\ DOMAIN Written = 1..Len(Written)
        /\ k \in 0..Len(Written) /\ DOMAIN frames = 1..k /\ Blocks \in Nat
        /\ \A n \in 0..Len(Written) : EndOfFrame(n) \in Nat
    BY <2>1, FileTypes, FollowedEnd DEF TypeOK, Written, EndOfFrame, Blocks
  <2>3. ASSUME NEW n \in 0..Len(Written), EndOfFrame(n) > Blocks PROVE i < n
    <3>1. SUFFICES ASSUME n <= i PROVE FALSE
      BY <2>2
    <3>2. i \in n..Len(Written)
      BY <2>2, <3>1
    <3>3. EndOfFrame(n) <= EndOfFrame(i)
      BY <2>1, <3>2, EndsGrow DEF Written, EndOfFrame
    <3>4. EndOfFrame(n) \in Nat /\ EndOfFrame(i) \in Nat
      BY <2>2
    <3> QED BY <3>3, <3>4, <2>2, <2>3
  <2>4. i \in 1..k
    <3>1. CASE EndOfFrame(k) > Blocks
      <4>1. i < k
        BY <3>1, <2>2, <2>3
      <4> QED BY <4>1, <2>2
    <3>2. CASE k < Len(Written) /\ EndOfFrame(k + 1) > Blocks
      <4>1. k + 1 \in 0..Len(Written)
        BY <3>2, <2>2
      <4>2. i < k + 1
        BY <3>2, <4>1, <2>3
      <4> QED BY <4>2, <2>2
    <3> QED BY <3>1, <3>2 DEF CutInv, CutFile
  <2>5. frames[i] = [at |-> EndOfFrame(i - 1), size |-> Written[i].size,
                     short |-> BytesFrom(EndOfFrame(i - 1)) < Written[i].size * BlockBytes]
    BY <2>1, <2>2, <2>4 DEF Followed
  <2>6. ~(BytesFrom(EndOfFrame(i - 1)) < Written[i].size * BlockBytes)
    <3>1. i - 1 \in 0..(Len(Written) - 1) /\ (i - 1) + 1 = i /\ i \in 0..Len(Written)
      BY <2>2
    <3>2. ~(EndOfFrame((i - 1) + 1) > Blocks)
      BY <3>1, <2>2
    <3>3. ~(BytesFrom(EndOfFrame(i - 1)) < Written[(i - 1) + 1].size * BlockBytes)
      BY <2>1, <3>1, <3>2, ShortEndsBehind
    <3> QED BY <3>1, <3>3
  <2>7. ~frames[i].short
    <3> DEFINE short == BytesFrom(EndOfFrame(i - 1)) < Written[i].size * BlockBytes
    <3>1. frames[i].short = short
      BY <2>5
    <3> QED BY <3>1, <2>6
  <2> QED BY <2>2, <2>4, <2>7
<1> QED BY <1>1, CutInvariant, PTL
===============================================================================
