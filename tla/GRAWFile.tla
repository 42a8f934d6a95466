------------------------------- MODULE GRAWFile -------------------------------
(***************************************************************************)
(* The classes GRAWFile and DataFile: how frames are found in a file, and  *)
(* how Merger uses them.  A file is first indexed (IndexDepth times        *)
(* ReadFrameMetadata, then Rewind) and then read (ReadRawFrame until it    *)
(* throws, then CloseFile).                                                *)
(*                                                                         *)
(* A file is a sequence of blocks of sizeUnit (256) bytes and a last,      *)
(* incomplete one.  A frame starts at a block; a block is what its bytes   *)
(* mean when they are taken for the header of a frame: the meta type (byte *)
(* 0), the size in blocks (bytes 1-3) and the event id (bytes 22-25).  Any *)
(* block may be so taken, also one in the middle of a frame.               *)
(*                                                                         *)
(* The stream is its position and its state: good, or failed since a read  *)
(* found too few bytes.  (seekg clears eofbit but never failbit.)          *)
(***************************************************************************)
EXTENDS Naturals, Sequences, FiniteSetsExt

CONSTANTS
  Contents,    \* the files: what they hold, and what was written to them
  EventIds,
  IndexDepth,  \* 20
  SizeMod      \* 2^16, the values of the uint16_t that holds the 24-bit size

ASSUME GRAWFileAssumption ==
  /\ EventIds \subseteq Nat /\ 0 \in EventIds
  /\ IndexDepth \in Nat \ {0} /\ SizeMod \in Nat \ {0}

BlockBytes == 256

\* A file is what it holds (blocks and tail), the frames that were written to
\* it (each with the block it begins at), and what became of it since.
BlockType == [meta : Nat, size : Nat, evt : EventIds]
WrittenType == [evt : EventIds, size : 1..(SizeMod - 1), at : Nat]
FileType ==
  [blocks : Seq(BlockType), tail : [bytes : 0..(BlockBytes - 1), block : BlockType],
   written : Seq(WrittenType), damage : {"none", "cut", "overwritten"}]

\* The block behind the first n frames that were written.
EndOf(w, n) == IF n = 0 THEN 0 ELSE w[n].at + w[n].size

BlockIn(c, p) == IF p < Len(c.blocks) THEN c.blocks[p + 1] ELSE c.tail.block

\* The block where the frame f was written is its header, with the meta type
\* that all frames of a file have.
IsHeader(c, f) ==
  LET b == BlockIn(c, f.at)
  IN b.meta = BlockIn(c, 0).meta /\ b.size = f.size /\ b.evt = f.evt

\* Frames are written one behind the other; they make up the whole of an
\* intact file, and more than a file that was cut off.
ASSUME ContentsAssumption ==
  \A c \in Contents :
    LET w == c.written IN
    /\ c \in FileType
    /\ \A i \in DOMAIN w : w[i].at = EndOf(w, i - 1)
    /\ c.damage = "none" => c.tail.bytes = 0 /\ EndOf(w, Len(w)) = Len(c.blocks)
    /\ c.damage = "cut" => EndOf(w, Len(w)) > Len(c.blocks)
    /\ c.damage # "overwritten" =>
         \A i \in DOMAIN w : w[i].at <= Len(c.blocks) => IsHeader(c, w[i])

VARIABLES
  content,
  phase,    \* "index", "merge", "closed"; "failed" if indexing threw
  pos,      \* the position of the stream, in blocks
  good,     \* filestream.good()
  metas,    \* the event ids ReadFrameMetadata has returned
  key,      \* minEvtId, once the file is indexed
  frames,   \* the frames ReadRawFrame has returned
  thrown    \* the exception that ended the reading or the indexing

vars == <<content, phase, pos, good, metas, key, frames, thrown>>

Init ==
  /\ content \in Contents
  /\ phase = "index" /\ pos = 0 /\ good = TRUE
  /\ metas = <<>> /\ key = 0 /\ frames = <<>> /\ thrown = "none"

-----------------------------------------------------------------------------
(* The bytes of the file. *)

Blocks == Len(content.blocks)

\* How many bytes of the block at p the file has, and the block.
BytesAt(p) == IF p < Blocks THEN BlockBytes
              ELSE IF p = Blocks THEN content.tail.bytes ELSE 0
BlockAt(p) == BlockIn(content, p)

BytesFrom(p) == IF p > Blocks THEN 0
                ELSE (Blocks - p) * BlockBytes + content.tail.bytes

-----------------------------------------------------------------------------
(* GetNextFrameSize reads a header and looks at the byte behind the frame. *)

SizeBytes == 4
EvtIdBytes == 26

\* Fault: the size keeps all its 24 bits.
WideSizesAt(p) ==
  IF BytesAt(p) >= SizeBytes THEN {BlockAt(p).size} ELSE 0..(SizeMod - 1)

\* Each byte of the size is read into an uninitialized variable, which a read
\* at the end of the file leaves as it is.
SizesAt(p) ==
  IF BytesAt(p) >= SizeBytes THEN {BlockAt(p).size % SizeMod} ELSE 0..(SizeMod - 1)

\* Fault: whatever follows the frame is accepted.
ReachesAnything(p, size) == TRUE

\* Fault: a frame must be followed by another one.
ReachesOnlyFrames(p, size) ==
  /\ BytesAt(p) >= SizeBytes
  /\ BytesAt(p + size) > 0
  /\ BlockAt(p + size).meta = BlockAt(p).meta

\* The byte behind the frame is the meta type again, or the end of the file.
\* Once a read of the size has failed the stream does not move, and peek()
\* fails without reporting the end of the file.
ReachesNextFrame(p, size) ==
  /\ BytesAt(p) >= SizeBytes
  /\ \/ BytesAt(p + size) = 0
     \/ BlockAt(p + size).meta = BlockAt(p).meta

\* The exception GetNextFrameSize throws for this size, or "none".
SizeException(p, size) ==
  IF size = 0
    THEN IF BytesAt(p) < SizeBytes THEN "End_of_File" ELSE "Frame_Read_Error"
    ELSE IF ReachesNextFrame(p, size) THEN "none" ELSE "Frame_Read_Error"

\* What can come of a call at the current position.
SizeResults ==
  IF good THEN {[size |-> s, exception |-> SizeException(pos, s)] : s \in SizesAt(pos)}
          ELSE {[size |-> 0, exception |-> "Bad_File"]}

-----------------------------------------------------------------------------
(* Indexing *)

\* The bytes of the event id are read like those of the size.  When they are
\* missing the stream has failed, so that the seek to the next frame is
\* without effect, and an arbitrary id is returned.
ReadFrameMetadata ==
  /\ phase = "index" /\ Len(metas) < IndexDepth
  /\ \E r \in SizeResults :
       /\ r.exception = "none"
       /\ IF BytesAt(pos) >= EvtIdBytes
            THEN /\ metas' = Append(metas, BlockAt(pos).evt)
                 /\ pos' = pos + r.size
                 /\ UNCHANGED good
            ELSE /\ \E e \in EventIds : metas' = Append(metas, e)
                 /\ good' = FALSE
                 /\ UNCHANGED pos
  /\ UNCHANGED <<content, phase, key, frames, thrown>>

IndexingThrows ==
  /\ phase = "index" /\ Len(metas) < IndexDepth
  /\ \E r \in SizeResults :
       /\ r.exception # "none"
       /\ thrown' = r.exception
  /\ phase' = "failed"
  /\ UNCHANGED <<content, pos, good, metas, key, frames>>

\* Fault: the file is left where indexing ended.
NoRewind == UNCHANGED <<pos, good>>

\* filestream.seekg(0)
Rewind == pos' = (IF good THEN 0 ELSE pos) /\ UNCHANGED good

MinMeta == Min({metas[i] : i \in DOMAIN metas})

IndexFile ==
  /\ phase = "index" /\ Len(metas) = IndexDepth
  /\ key' = MinMeta
  /\ Rewind
  /\ phase' = "merge"
  /\ UNCHANGED <<content, metas, frames, thrown>>

-----------------------------------------------------------------------------
(* Reading *)

\* The read fails when the file ends inside the frame.
GoodAfter(size) == good' = (BytesFrom(pos) >= size * BlockBytes)

\* The frame is returned even if the file ends before it does; the rest of
\* its buffer is then uninitialized (short).
ReadRawFrame ==
  /\ phase = "merge"
  /\ \E r \in SizeResults :
       /\ r.exception = "none"
       /\ frames' = Append(frames,
            [at |-> pos, size |-> r.size, short |-> BytesFrom(pos) < r.size * BlockBytes])
       /\ pos' = pos + r.size
       /\ GoodAfter(r.size)
  /\ UNCHANGED <<content, phase, metas, key, thrown>>

\* Fault: the file is tried again unless it ended in the way expected.
CloseFileAtEnd ==
  /\ phase = "merge"
  /\ \E r \in SizeResults :
       IF r.exception = "End_of_File"
         THEN thrown' = r.exception /\ phase' = "closed"
         ELSE r.exception # "none" /\ UNCHANGED <<thrown, phase>>
  /\ UNCHANGED <<content, pos, good, metas, key, frames>>

\* Merger closes the file on any exception, and never reads from it again.
CloseFile ==
  /\ phase = "merge"
  /\ \E r \in SizeResults :
       /\ r.exception # "none"
       /\ thrown' = r.exception
  /\ phase' = "closed"
  /\ UNCHANGED <<content, pos, good, metas, key, frames>>

Terminated == phase \in {"closed", "failed"} /\ UNCHANGED vars

Next ==
  \/ ReadFrameMetadata \/ IndexingThrows \/ IndexFile
  \/ ReadRawFrame \/ CloseFile
  \/ Terminated

\* The main thread goes on reading.
Spec == Init /\ [][Next]_vars /\ WF_vars(Next)

-----------------------------------------------------------------------------
(* Properties *)

\* Every variable has its type; a frame's size fits the uint16_t it is kept in
\* and is not zero.
TypeOK ==
  /\ content \in Contents
  /\ phase \in {"index", "merge", "closed", "failed"}
  /\ pos \in Nat /\ good \in BOOLEAN
  /\ metas \in Seq(EventIds) /\ Len(metas) <= IndexDepth
  /\ key \in EventIds
  /\ frames \in Seq([at : Nat, size : 1..(SizeMod - 1), short : BOOLEAN])
  /\ thrown \in {"none", "End_of_File", "Frame_Read_Error", "Bad_File"}

Written == content.written
EndOfFrame(i) == EndOf(Written, i)

\* A file that was written completely is read completely: the frames found
\* by following the sizes are those that were written, in order, and when the
\* file is closed none is missing; the ids it is indexed under are those of
\* its first frames.  Such a file is only rejected when it has fewer frames
\* than the index reads.  (GRAWFile::ReadRawFrame, Merger.cpp 29-43,
\* FileIndex::indexFiles)
ReadsWhatWasWritten ==
  content.damage = "none" =>
    /\ Len(frames) <= Len(Written)
    /\ \A i \in DOMAIN metas : i <= Len(Written) /\ metas[i] = Written[i].evt
    /\ \A i \in DOMAIN frames :
         frames[i] = [at |-> EndOfFrame(i - 1), size |-> Written[i].size, short |-> FALSE]
    /\ phase = "closed" => Len(frames) = Len(Written)
    /\ phase = "failed" => Len(Written) < IndexDepth

\* Whatever the file holds, the frames returned lie one behind the other from
\* the beginning of the file, and each begins with the same meta type: a size
\* that leads into the middle of something else is never followed.
\* (GRAWFile::GetNextFrameSize 95-108)
FramesTile ==
  \A i \in DOMAIN frames :
    /\ frames[i].at = IF i = 1 THEN 0 ELSE frames[i - 1].at + frames[i - 1].size
    /\ BlockAt(frames[i].at).meta = BlockAt(0).meta

\* From a file that was cut off every frame before the cut is returned, if
\* any frame is.  (GRAWFile.cpp 99-107: the end of the file is accepted in the
\* place of the next frame)
CompleteFramesRead ==
  (content.damage = "cut" /\ phase = "closed" /\ frames # <<>>) =>
    \A i \in DOMAIN Written :
      EndOfFrame(i) <= Blocks => i \in DOMAIN frames /\ ~frames[i].short

\* The reading of any file comes to an end.
ReadingEnds == <>(phase \in {"closed", "failed"})

\* FileIndex.cpp:30, "Rewind again to leave file read pointer at the
\* beginning": a file that has been indexed is read from its beginning.
RewoundAfterIndexing ==
  (phase = "merge" /\ frames = <<>>) => (pos = 0 /\ good)

\* GMExceptions.h:136: when the end of the file has been reached,
\* End_of_File is thrown.
EndReportedAsEndOfFile ==
  (content.damage = "none" /\ phase = "closed") => thrown = "End_of_File"
=============================================================================
