# A verification of graw2hdf

graw2hdf (`src/src`, `src/include`) reads the GRAW files of one run of a time
projection chamber, one file for each AsAd board, gathers the frames that carry
the same event id, and writes one dataset for each event to an HDF5 file.  This
directory holds TLA+ models of the program, from its command line to its exit
code, their model checking with TLC, and proofs with TLAPS about most of them.

## The system

```
 command line --main--> lookup table, input directory, output path
                              |
 files --GRAWFile--> main thread --frameQueue--> EventBuilder --eventQueue--> HDFWriter --> HDF5
             FileIndex   (Merger)   SyncQueue      LRUCache      SyncQueue
                                                   GRAWFrame, Event, LookupTable
```

| Component | State | Operations | Correct when |
|---|---|---|---|
| `SyncQueue` | list, `finished`, mutex, one condition variable | `put`, `get`, `finish` | tasks arrive once and in order; no lost wakeup; `finish` returns, and only then does `get` throw |
| `LRUCache` | list of pairs, map of iterators | `insert`, `get`, `evictOldestElement`, `flush` | list and map agree after any calls, also around the callback |
| `EventBuilder` | cache, `finishedEventIds` | `run`, `makeNewEvent`, `processAndOutputEvent` | each frame is in one event, each event is put once, only idle events are evicted |
| `FileIndex` | multimap from the smallest event id of a file to the file | `indexFiles`, `findFilesForEvtId` | the files that can hold an event are found, closed ones are not |
| `Merger` | list of files, event counter | constructor, `MergeByEvtId` | all frames of all files are read, files are read in step, the threads end |
| `HDFWriter` | event in hand | `run` | no event is skipped silently or reordered |
| `HDFDataStore` | output file | constructor, `writeEvent` | no dataset name is used twice; rows say what the traces say |
| `GRAWFile`, `DataFile` | stream position and state | opening, `GetNextFrameSize`, `ReadRawFrame`, `ReadFrameMetadata`, `Rewind`, `CloseFile` | the frames that were written are the ones that are read |
| `GRAWFrame` | header, data items | constructor, two extraction functions | items are those that were written and lie inside the frame |
| `Event` | traces by address | `AppendFrame`, `SubtractFPN` | the last sample stays, no trace with signal is lost |
| `LookupTable` | hash table | `ReadFile`, `Find` | every address has the pad of the first line that lists it |
| `main` | options, files found | option handling, directory walk, `MergeFiles` | all files are merged or none; an error that is reported leaves the old output alone |

The three threads share only the two queues.  The main thread owns the files,
the index and the event counter; the builder owns the cache, the set of
finished ids and the events in it; the writer owns the output file.  The
builder's cache calls back into the builder (`processAndOutputEvent`) from the
middle of an insertion, and the callback may block on the event queue.

What is hard here: three predicates wait on one condition variable; a task that
is still queued when `finished` is set would be lost; the chain of bounded queues
blocks backwards; the eviction callback runs while the cache is half changed;
frames that come too late are dropped, and how late that is depends on how the
files are interleaved; a file is closed and erased in the middle of a round; a
stream that has failed stays failed; sizes are read into uninitialized variables
and cut to 16 bits; an integer division may be by zero; an exception in a
thread ends the process; and before the merge starts a dozen steps look at files
that another process may remove, each with its own way to fail.  `PROJECT.json`
lists these hazards with their lines and the properties that cover them.

## The modules

| Module | Models | Kind |
|---|---|---|
| `SyncQueue` | `include/SyncQueue.h` | operations on a queue's variables; instantiated twice by `Merger` |
| `TaskStream` | what a queue promises | abstract specification |
| `QueueClients` | a queue, its producer, its consumers | specification; implements `TaskStream` |
| `LRUCache` | `include/LRUCache.h` | operations on the cache |
| `EventAssembly` | what the builder promises | abstract specification |
| `EventBuilder` | `EventBuilder` in `Merger.cpp` | specification on `LRUCache`; implements `EventAssembly` |
| `FileIndex` | `FileIndex.cpp` | operators |
| `Merger` | `Merger.cpp`, all three threads | specification; composes `FileIndex`, two `SyncQueue`s and `EventBuilder` |
| `GRAWFile` | `GRAWFile.cpp`, `indexFiles` | specification of one file's reading |
| `GRAWFrame` | `GRAWFrame.cpp` | specification of one frame's parsing |
| `Event` | `Event.cpp`, `writeEvent` | specification of one event's life |
| `LookupTable` | `LookupTable.h`, `PadLookupTable.h` | operations on the table |
| `Graw2hdf` | `main.cpp`, opening of the files, of the table and of the output | specification on `LookupTable`; the merge is one step of it |
| `QueueClients_proofs`, `EventAssembly_proofs`, `EventBuilder_proofs`, `Merger_proofs`, `GRAWFile_proofs`, `GRAWFrame_proofs`, `Event_proofs`, `Graw2hdf_proofs` | | proofs |
| `MC*` | | values for constants |

How the state corresponds to the code:

* **SyncQueue.**  `q` and `finished` are the members; `waiting` is the set of
  threads inside `cond.wait`.  A method holds the mutex from its first line to
  its last except inside `cond.wait`, so each call is one step if its predicate
  holds and one step into `waiting` if not; `notify_all` empties `waiting`, and
  `SpuriousWakeup` lets any waiting thread go.  A thread that has been woken
  evaluates its predicate again, as `cond.wait` does.
* **LRUCache.**  `itemList` is the list, front first.  A list iterator stays
  valid until its node is erased, so the map is represented by its set of keys
  `iterMap`; that the two stay in agreement is the property `CacheCoherent`.
* **EventBuilder.**  Frames are numbered by arrival and an event is its id and
  the numbers of its frames.  `StartEventWhenFull` is the part of `makeNewEvent`
  before the eviction callback, `Evict` the callback and the rest of it, up to
  `AppendFrame`: between the two the thread may block on the event queue, with a
  new event without frames at the front.
  `kind` tells what a frame does: `"ok"`, `"fatal"` (parsing or appending it
  throws), `"deadfpn"` (its noise channels are silent, and `SubtractFPN` may
  divide by zero).  `GRAWFrame` and `Event` show which frames these are.
* **EventAssembly.**  What a user sees: `ids`, the event ids of the frames that
  have arrived; `open`, for every id its unpublished frames; `published`;
  `discarded`.  There is no cache: which event is published when is free.
* **Merger.**  `mpc` is where the main thread is; `pos`, `isOpen` the streams;
  `files` the member; `todo` the files of a round that have not been left, taken
  in the order of the multimap (`ComesFirst`); `nread` the inner loop; `hand` the
  frame read and not yet put.  A file is the sequence of frames that can be read
  from it once it has been indexed; `GRAWFile` shows that these are the frames
  that were written, up to the first that is broken.  A file that breaks off in
  the header of the last frame the index reads is the empty sequence: indexing
  may throw, or index it under arbitrary memory (`MayIndex`, `Keys`), but then
  its stream has failed and no frame can be read.  The builder's steps are those of
  `EventBuilder` joined with a queue operation, and so implement it by the way they
  are written.  An exception that leaves a thread stops everything (`Alive`).  A
  builder that waits in `put` is past the noise subtraction and cannot die there
  (`BuilderDies`); one that has been woken and has not tested for room again can
  in the model and not in the code, which adds behaviours and removes none.
* **GRAWFile.**  A file is a sequence of 256-byte blocks and an incomplete last
  one; a block is what its first bytes mean when taken for a header.  A read of
  an uninitialized byte gives any value.  `good` is the state of the stream:
  `seekg` clears only `eofbit`, so after a failed read it has no effect.  With a
  file come the frames that were written to it and where they begin;
  `ContentsAssumption` says what an intact file and one that was cut off have in
  common with them, and nothing of a file with an overwritten header.
* **GRAWFrame.**  A frame is its layout fields and the 16-bit words behind the
  header.  `ParseHeader` makes the corrections, the three `Extract` actions the
  items.  The sizes are computed in 32 bits, as `GRAWFrame.cpp:80` and 122 do, and
  wrap at `UintMod`; `ReadOutside` is what follows if the end of the items then lies
  outside of the frame: the program crashes, throws, or takes the memory behind
  the frame for items (`Strays`).  `Kept` is what a loop that passes over some elements leaves behind, as
  a recursive function of the number of elements it has seen.  With a frame come
  the items that were written; `WrittenAssumption` is the layout of `GRAW.rst`
  applied to them, and leaves open which fields of the header were damaged.
* **Event.**  `data` is the map of traces.  An address carries the CoBo number of
  the frame's header; `mm` remembers from which CoBo's directory the frame came.
  The memory a new trace gets is arbitrary (`Garbage`).  `SubtractFPN` shows only
  what the code does to the event: the mean is computed, may crash, and is
  subtracted from copies.  The two loops, over the items of a frame and over
  `fpn_channels`, are recursive functions of the number of passes
  (`StoredUpTo`, `SumUpTo`).  `FramesAssumption` says that the items of a frame are
  such as `GRAWFrame` makes (its `TypeOK`).
* **LookupTable.**  A line of the CSV file is the sequence of its elements:
  numbers, `Blank`, or `Text` for what `stoi` rejects.  `Addr` and `Hash` make
  the casts to 8 bits and the sum with decimal weights; a short line leaves its
  last element to be read again; `Emplace` keeps the first value of a key.
  `Event` uses a table keyed by the address itself, which `TableFaithful`
  justifies.
* **Graw2hdf.**  A path of the input directory is what the program can ask of it:
  whether it is a link, whether it ends in `.graw`, and what it leads to.  The
  walk, the opening of each file, the table and the output are steps of their
  own, because another process may remove a file between any two of them
  (`RemoveFile`); that a path has the right type (`FindFile`) and what it resolves
  to (`ResolveFile`, `ResolveThrows`) are two such steps.  `Throw` tells what `main` catches (`"failure"`, exit code 1)
  from what it does not (`"terminated"`).

Definitions whose comment begins with "Fault:" are used by no specification.
They are the bugs the properties have been tried against: `PROJECT.json` pairs
each property of each run with one of them under `mutants`.

## The runs

| Run | Bounds | Shows |
|---|---|---|
| `Queue.cfg` | capacity 3, 7 tasks, 2 consumers | order, nothing lost, no missed wakeup when threads of both roles wait, `finish` returns, refinement of `TaskStream` |
| `Builder.cfg` | cache 2, 4 event ids, 5 frames | all orders of arrival; refinement of `EventAssembly` |
| `Merge.cfg` | 3 files, 9 contents of them, index depth 2, 2 frames per round, queues of 2, cache 2, 8 values of an event id, both kinds of failing write, broken frames and files | the whole merge; it ends, complete or not; only recent events wait in memory |
| `RunSkewed.cfg` | the program's own constants 20, 8, 100, 10; files with events 0-23 and 1-23 | violation of `CombinesAllFiles` |
| `Reading.cfg` | files of up to 4 frames of 1-3 blocks, index depth 2, sizes modulo 8; cut in every block at 4 offsets, every block overwritten in 3 ways | reading and indexing |
| `ReadingRewind.cfg`, `ReadingEnd.cfg` | the same | violations of `RewoundAfterIndexing` and `EndReportedAsEndOfFile` |
| `Parsing.cfg` | the real field widths, 4 AGETs, 5 channels, 6 time buckets, blocks of 16 bytes, sizes modulo 1024; partial and full readouts, intact, incomplete, excessive and with each header field wrong | parsing |
| `Noise.cfg` | 2 AGETs (one beyond the limits of the loops), 2 FPN channels and 1 other, 2 time buckets, 3 of 6 frames, 4 tables | traces and noise |
| `NoiseDoc.cfg`, `NoiseBoards.cfg` | the same | violations of `NoiseSubtracted` and `RowsNameTheirBoard` |
| `Program.cfg` | 12 command lines, 7 tables, 10 directories, 3 files with 4 kinds of fault | every way from the command line to the exit code |

Why the bounds are enough.  More tasks are put than a queue holds, so that
every thread blocks, and the wait sets fill with each combination of roles.  The
cache has room for fewer events than there are, so that events are evicted,
late, and flushed; five frames are the shortest sequence in which an event is
used again, overtaken by two others and then late.  The triples of files are
aligned, shifted, disordered, of different lengths, too short for the index and
broken off within it; one has more events than the cache, the queue and the writer
hold together, and one has event ids that run to the end of their range, so that
`currentEvt` wraps while files are open;
the index depth, the frames of a round, the queues and the cache keep the
program's relation (a round is no more than the cache holds).  Files are cut in
every block, before, inside and behind each of the fields that are read.  Every
field of an item is taken at its limits.  The directories hold every combination
the walk tells apart: links to a file, to one found twice, to a directory, to
nowhere, closed directories, files with another name.  `MaxTasks`, `MaxFrames`
(in `EventBuilder` and `Event`) bound the models, not the program; `Merger` has
as many frames as its disks, and `BoundAssumption` says that the builder's bound
is no smaller, so that it stops nothing.  `EvtIdMod`, `SizeMod` and `UintMod` are the wraps
of `evtid_t`, `uint16_t` and `uint32_t`; the numbers of items of the damaged headers lie
on both sides of each of the sums that wrap.

**Fairness.**  Each of the three threads has weak fairness as a whole: a thread
that can take a step eventually takes one, which a scheduler and a mutex provide
(no thread holds it for ever: nothing under the mutex blocks except `cond.wait`).
Nothing is assumed of spurious wakeups or of the moment input ends.  `GRAWFile`
and `Graw2hdf` have one thread, which goes on; nothing is assumed of the other
process that removes files.  `ProgramEnds` leaves out a directory given as
lookup table: `eof()` never comes, and the program reads for ever.

## What disagrees with the documentation

* `CombinesAllFiles` (`intro.rst:16`: frames "from all of the files" are combined):
  the reading loop takes 8 frames from each file in turn, from the first event
  it is indexed under.  Two files that start one event apart stay a round apart,
  that is 8 events, and the cache of 10 events evicts the events of the first before
  the second gets there.  `AlignedNothingLate` is what does hold.
* `RewoundAfterIndexing` (`FileIndex.cpp:30`): not after a read that failed.
* `EndReportedAsEndOfFile` (`GMExceptions.h:136`): depends on uninitialized memory.
  The merge treats all exceptions alike, so no data is lost by it.
* `NoiseSubtracted` (`Event.h:92`): the mean is subtracted from copies.
* `RowsNameTheirBoard` (`GRAW.rst:64`, `GRAWFile.h:53`): the CoBo number of a row is
  the one in the frame's header, which the firmware writes as 0; the directory the
  file came from, which names the board, is not looked at.

No run shows the following, which the models contain all the same:

* `Event.h:94` ("the FPN channels are deleted from the event") and the comment at
  `Event.cpp:222`: the traces are erased under the address that has no pad
  (`Event.cpp:226`), and only for boards below `num_cobos` and `num_asads`.  An FPN
  channel to which the lookup table gives a pad, or of another board, is written
  like any other.  `OneRowPerTrace` asserts nothing of those.
* `GRAWFrame.cpp:80` corrects a number of items that does not go with the size of the
  frame.  In a frame that is only a header, a number whose bytes come to less than
  the header's short of 2^32 is not corrected, because the sum wraps around, and
  `dataEnd` of line 122 lies outside of the frame (`ReadOutside`).  It is the only such
  case (`ItemsInsideFrame`).  A number that is wrong by less than a block is not
  corrected either: then items are lost, or padding is read as items.
* A directory given as lookup table is read for ever (`LookupTable.h:75`).
* A file that was cut within a frame yields that frame with the rest of its bytes
  uninitialized (`GRAWFile.cpp:120`).  It is the last one (`FramesTile`).
* A line of the lookup table with fewer than five elements has its last element read
  again (`LookupTable.h:86`); `TableFaithful` reads such lines as the code does and
  blesses no other meaning, for the repository states none.
* Time buckets for which no sample came hold what the memory held (`Event.cpp:125`);
  no property says anything of them.

## What is proved

`QueueClients_proofs`, for every capacity, any set of consumers and any number of
tasks, from `CapacityAssumption` and `ClientsAssumption`:

* `TypeCorrect`, `FifoCorrect`, `WakeupsCorrect`, `StopCorrect`: the safety
  properties of the queue run.  The inductive invariant is `TypeOK`, `Fifo`,
  `NoMissedWakeup` and `ClosedEmpty` (once finished, the list is empty and the
  producer done); `StopsOnlyWhenDrained` speaks of the length of a history and
  follows from `ClosedEmpty` and `Fifo`.
* `StreamRefinement`: initial states map to initial states of `TaskStream`, each
  step to a step or a stutter.

`EventAssembly_proofs`, of the abstract assembly: `AssemblyCorrect`.  An event
holds only frames of its own id and each of them once; no event is published
twice or empty; a frame is discarded exactly if no event holds it.

`EventBuilder_proofs`, for every cache size, every set of event ids and every
stream of frames, from `CacheSizeAssumption` and `FramesAssumption`:

* `TypeCorrect`, `CacheCorrect`, `PublishedOnceCorrect`.  No one of them is
  inductive.  `EvictState` adds what holds between an insertion and its eviction:
  the new event is at the front, has no frame yet, and belongs to the frame in
  hand; that event's key is not among the finished ids.  Together with
  `CacheCoherent` (each cached event sits under its own id) it shows that what is
  put is never an id that has been put.  The lemmas on `Splice`, `Insert` and
  dropping the last node say what they do to the keys of a list.
* `AssemblyImplemented`: the builder implements `EventAssembly`.  The abstract
  `open` is the function from an id to the frames of the node that has its key,
  which the order of the list does not enter; so moving a node to the front or
  inserting an empty one is a stutter, and dropping the last one is `Publish`.
* `FramesInTheirEventCorrect`, `FramesFiledOnceCorrect`, `EachFiledCorrect`: these
  are not proved again for the cache but carried over from `AssemblyCorrect`
  through the refinement.
* `LateOnlyWhenIdleCorrect`.  That an event was evicted tells nothing of its age
  unless the list is in the order of last use.  `RecencyInv` says that it is:
  between the last frame of a node and now, frames of every event in front of it
  have arrived (`RecentFirst`), and for an event that was put, of `CacheSize` others
  (`EvictedIdle`).  An eviction, when `CacheSize` nodes are in front of the last one,
  turns the first into the second.

`Merger_proofs`, for any number of files with any contents, all sizes of index,
round, queues and cache, and any scheduling, from `SizesAssumption`,
`DisksAssumption` and `BoundAssumption`:

* `TypeCorrect`.  The lemma `BuilderImplemented`, that every step of the program is one
  of `EventBuilder` or leaves its variables alone, says no more than how the module is
  written; it carries the theorems about `EventBuilder` over to the program.
* `FramesConservedCorrect`: the invariant says that what has arrived, what is
  queued and what is in hand are the first `pos[f]` frames of each file, in order.
* `EventsConservedCorrect`, `NoNameCollisionCorrect`: what has been put is what has been
  handled, is being written or is queued.  A dataset is named after a handled event
  (`SavedHandled`), and so by the builder's `PublishedOnce` not after the one in hand.
* `ReadInStepCorrect`, without further assumptions: the property itself speaks only of
  disks on which no file lasts until the ids wrap (`NoWrap`), for once
  `currentEvt` has wrapped, every file lies ahead of it.  `StepInv` follows a round
  file by file: what is still to be read of a file is what the new value of the
  counter will ask for.
* `AlignedNothingLateCorrect`: for files with the same events in the same order.
  `AlignedInv` says that the frames of a round come before those of the next
  (`InRounds`).  The frames of an event are in one round of every file, so that
  between two of them only events of that round arrive: fewer others than a round
  has, and so than the cache holds (`FewOthers`); `LateOnlyWhenIdle` then says that
  neither is late.  This needs no `NoWrap`.
* `CompleteAtExitCorrect`: `DrainInv` follows the end of input through the program:
  a file leaves the list only when it has been read to its end, the frame queue is
  finished only when the list is empty, the builder flushes only after that, the
  event queue is finished only when the cache is empty, and `join` waits for both
  threads.  With `FramesConserved` and the builder's `EachFiled` every frame is
  then in an event that has been handled, or late.

`GRAWFile_proofs`, for every file, any index depth and any range of sizes, from
`GRAWFileAssumption` and `ContentsAssumption`:

* `TypeCorrect`, `FramesTileCorrect`: of any file, also one with overwritten headers.
  `TileInv` adds where the stream is between two calls: behind the last frame, as
  long as it is good.
* `ReadsWhatWasWrittenCorrect`: of an intact file.  `Followed` says that the frames read
  so far are the first of those written; at the end of each the look ahead finds
  the meta type of the next header, or the end of the file, and nothing else.
* `CompleteFramesReadCorrect`: of a file that was cut off.  The stream fails no
  earlier than in the frame that was cut, so that everything before it has been
  followed as in an intact file.

`GRAWFrame_proofs`, for every raw frame and any number of AGETs up to 4, channels and
time buckets, from `GRAWFrameAssumption` and `WrittenAssumption`:

* `ItemsInsideFrameCorrect`, `TypeCorrect`: for every header and all words, in 32-bit
  arithmetic.  A sum that wraps is less than a header, so it can only agree with the
  size of a frame that has nothing else: that is the exception in the property.  `ReadInv`
  says that the number of items that is read fits the frame (`HeaderInside`) and
  that the items are what the loops make of the words.
* The loops.  That a recursive function exists and contains what its steps say
  (`KeptSteps`) is not given by its definition; this, and what holds at every step
  of a loop, is proved by looking at the first step at which it would not be so
  (`Everywhere`, from the library's well-foundedness of `<`).  `KeptInPlace` is the loop invariant: each
  element that is kept is in the place given by how many are kept up to it, and
  every place has one.
* `DecodedIsWritten`: the shifts and masks of the partial readout undo the format
  for all values of the fields.  With the loop's invariant and `ItemsHeld` (the size
  of the frame determines that the items written fit, and that one block less
  would not do) it gives `PartialItemsReadCorrect` and `NothingLostCorrect`.
* `FullReadoutInPlaceCorrect`.  The samples of an AGET come in the order of their index,
  so the place of each in the loop's array is the index it is looked up under;
  every place is taken by a written sample, so no index beyond is, and the array
  is not overrun; `NumberTaken` and `NumberGiven` show that numbering the items by
  AGET, time bucket and channel misses and repeats none.

`Event_proofs`, for every sequence of frames, every lookup table, any electronics and
any contents of new memory, from `EventAssumption` and `FramesAssumption`:

* The loops.  `Recursion` shows that a recursive function over the passes of a loop
  exists, so that it has the values its steps say (`StoredSteps`, `SumSteps`);
  `AfterEveryStep` is the induction over the passes.  `StoredLast`: after the loop over
  a frame's items an element has the last sample stored for it, or is as it was.
  `SumAtLeast` compares two sums term by term.
* `TypeCorrect`, `LastSampleKeptCorrect`, `OneRowPerTraceCorrect`.  The invariant
  `TraceInv` adds to the first two which addresses have a trace: those a sample came
  for while the event is built, `Remaining` after the noise subtraction, and none if
  the lookup table is empty; and that the rows are the traces.  That a sample of an
  earlier frame is overwritten only by one that came after it is `LastKeptStep`.
* `CompleteEventsSurviveCorrect`.  `TraceInv` also says why the program may end here: the
  table is empty or some AGET's means are all zero.  Of the samples that came for an
  element one is the last (`LastExists`), so a complete trace holds samples and no
  garbage (`CompleteTrace`).  The total of a time bucket is then at least the number
  of its terms that are not zero, and their quotient not zero (`MeanNotZero`).

`Graw2hdf_proofs`, for every command line, table file, directory and any removal of
files, from `Graw2hdfAssumption`:

* `TableCorrect`.  The invariant says that the table has the hashes of the lines
  read, each with the pad of the first line that has it; that the hash is one to
  one within the limits of the addresses (`HashOneToOne`) turns hashes into addresses.
* `OutputCorrect`: nothing that throws what `main` catches comes after the output
  has been truncated.
* `AllOrNothingCorrect`: at each point of the program, what has been found and opened
  so far; a file that was passed and still exists has been found.

Only model-checked: liveness (`FinishReturns`, `EverythingIsPublished`,
`Termination`, `ReadingEnds`, `ProgramEnds`), which is out of the prover's reach, as is
the fairness part of the refinements; and `OnlyRecentEventsWait`.  Every other invariant
of a passing run is stated by a theorem.  The properties of the runs that expect a violation are false.

## What is not modelled

The text of the output path and the parsing of the options; logging, with the hit
patterns and counters that are only compared in order to log; HDF5 itself, which
creates what it is asked for or throws; failure to create a thread or to allocate
memory, and the release of memory; methods nothing calls (`LRUCache::extract`,
`GRAWFile::NextFrameEvtId`, writing of GRAW files).  The tests and the documentation
are read as statements about the program; most tests are of classes that the
source no longer has.

## Plan

The modules were written in this order: the queue (everything else depends on it),
the cache and the builder, the whole merge, the file, the frame, the event, and
then the program around the merge; the proofs followed the same order.  What could
come next:

1. The places where one module assumes what another one shows, as theorems: that the
   items of a frame of `GRAWFrame` satisfy the `FramesAssumption` of `Event`, and that
   a table of `Graw2hdf` is one of the `Tables` of `Event`.
2. An abstract specification of the file, a sequence of frames that is read from the
   front, implemented by `GRAWFile` and used by `Merger`.
