-------------------------------- MODULE Merger --------------------------------
(***************************************************************************)
(* The whole merge: the main thread indexes the files and reads their      *)
(* frames in rounds, one round per event id; the event builder and the     *)
(* writer run in threads of their own.  Two SyncQueues connect the three.  *)
(*                                                                         *)
(* A file is the sequence of the frames that can be read from it once it   *)
(* has been indexed: the next read throws, whether the file has ended or   *)
(* its next frame is broken.                                               *)
(***************************************************************************)
EXTENDS FileIndex

CONSTANTS
  Files,           \* 1..n, the paths given to the constructor, in order
  Disks,           \* the contents the files may have
  FramesPerRound,  \* 4*2, the frames read from a file before the next one
  QueueCapacity,   \* 100
  CacheSize,       \* 10
  EventIds,
  WriteFaults,     \* the exceptions a write may throw, of {"std", "h5"}
  MaxFrames        \* at least the number of frames on any disk

\* A frame as the disk has it: its event id, and whether it can be parsed and
\* its noise averaged.
RawFrame == [evt : EventIds, kind : {"ok", "fatal", "deadfpn"}]

ASSUME SizesAssumption ==
  /\ {IndexDepth, FramesPerRound, QueueCapacity, CacheSize, EvtIdMod} \subseteq Nat \ {0}
  /\ Files \subseteq Nat /\ EventIds \subseteq 0..(EvtIdMod - 1) /\ MaxFrames \in Nat
  /\ WriteFaults \subseteq {"std", "h5"}

ASSUME DisksAssumption == Disks \subseteq [Files -> Seq(RawFrame)]

ASSUME BoundAssumption ==
  \A D \in Disks : MapThenSumSet(LAMBDA f : Len(D[f]), Files) <= MaxFrames

VARIABLES
  disk,         \* the contents of the files, from the start to the end
  mpc,          \* the main thread: "index", "start", "round", "read", "put",
                \* "join", "exit", or "failed"
  pos,          \* for every file, how many of its frames have been read
  isOpen,       \* the files whose stream is open
  files,        \* Merger::files
  filemap,      \* the file index
  currentEvt,
  todo,         \* thisEvtFiles, those not yet left
  nread,        \* i, the frames put for the current file in this round
  hand,         \* fr, the frame read and not yet put
  fq, fqFinished, fqWaiting,   \* frameQueue
  itemList, iterMap, bpc, arrived, finishedEventIds, out, late, \* EventBuilder
  eq, eqFinished, eqWaiting,   \* eventQueue
  wpc,          \* the writer: "get", "write", "done", "aborted"
  wevt,         \* evt, the event being written
  handled,      \* history: the events the writer is through with
  saved         \* the names of the datasets in the output file

diskVars == <<disk, pos, isOpen, files, filemap>>
loopVars == <<mpc, currentEvt, todo, nread, hand>>
fqVars == <<fq, fqFinished, fqWaiting>>
builderVars == <<itemList, iterMap, bpc, arrived, finishedEventIds, out, late>>
eqVars == <<eq, eqFinished, eqWaiting>>
writerVars == <<wpc, wevt, handled, saved>>
mainVars == <<diskVars, loopVars>>
vars == <<mainVars, fqVars, builderVars, eqVars, writerVars>>

FrameAt(D, f, n) ==
  [evt |-> D[f][n].evt, kind |-> D[f][n].kind, file |-> f, n |-> n]

DiskFrames ==
  UNION {UNION {{FrameAt(D, f, n) : n \in DOMAIN D[f]} : f \in Files} : D \in Disks}

FQ == INSTANCE SyncQueue WITH
  Capacity <- QueueCapacity, q <- fq, finished <- fqFinished, waiting <- fqWaiting
EQ == INSTANCE SyncQueue WITH
  Capacity <- QueueCapacity, q <- eq, finished <- eqFinished, waiting <- eqWaiting
EB == INSTANCE EventBuilder WITH Frames <- DiskFrames

Init ==
  /\ disk \in Disks
  /\ mpc = "index"
  /\ pos = [f \in Files |-> 0]
  /\ isOpen = Files /\ files = Files /\ filemap = <<>>
  /\ currentEvt = 0 /\ todo = {} /\ nread = 0 /\ hand = <<>>
  /\ FQ!QueueInit /\ EB!Init /\ EQ!QueueInit
  /\ wpc = "get" /\ wevt = <<>> /\ handled = <<>> /\ saved = {}

\* Nothing runs any more once an exception has escaped from a thread.
Alive == bpc # "aborted" /\ wpc # "aborted"

Running == mpc \notin {"index", "start", "failed"} /\ Alive   \* the workers have been started

-----------------------------------------------------------------------------
(* The main thread: the constructor. *)

IndexFiles ==
  /\ mpc = "index"
  /\ \A f \in Files : MayIndex(disk[f])
  /\ filemap' \in [Files -> 0..(EvtIdMod - 1)]
  /\ \A f \in Files : filemap'[f] \in Keys(disk[f])
  /\ mpc' = "start"
  /\ UNCHANGED <<disk, pos, isOpen, files, currentEvt, todo, nread, hand>>

\* The exception reaches main(), which reports it and returns 1.
IndexFails ==
  /\ mpc = "index"
  /\ \E f \in Files : ~CanIndex(disk[f])
  /\ mpc' = "failed"
  /\ UNCHANGED <<diskVars, currentEvt, todo, nread, hand>>

(* MergeByEvtId *)

StartWorkers ==
  /\ mpc = "start"
  /\ mpc' = "round"
  /\ UNCHANGED <<diskVars, currentEvt, todo, nread, hand>>

NextEvt == (currentEvt + 1) % EvtIdMod

\* The head of the outer loop, while there are files left.
StartRound ==
  /\ mpc = "round" /\ files # {}
  /\ todo' = FindFilesForEvtId(filemap, isOpen, currentEvt)
  /\ nread' = 0
  /\ IF todo' = {} THEN currentEvt' = NextEvt /\ UNCHANGED mpc
                   ELSE mpc' = "read" /\ UNCHANGED currentEvt
  /\ UNCHANGED <<diskVars, hand>>

\* Fault: a file is read to its end before the next one.
NeverEnough(n) == FALSE

Enough(n) == n = FramesPerRound

\* The file whose turn it is.
IsCurrent(f) == f \in todo /\ ComesFirst(filemap, f, todo)

\* On to the next file of this round, or to the next round.
LeaveFile(f) ==
  /\ todo' = todo \ {f}
  /\ nread' = 0
  /\ IF todo' = {} THEN mpc' = "round" /\ currentEvt' = NextEvt
                   ELSE mpc' = "read" /\ UNCHANGED currentEvt

ReadRawFrame ==
  /\ mpc = "read"
  /\ \E f \in Files :
       /\ IsCurrent(f)
       /\ pos[f] < Len(disk[f])
       /\ hand' = <<FrameAt(disk, f, pos[f] + 1)>>
       /\ pos' = [pos EXCEPT ![f] = @ + 1]
  /\ mpc' = "put"
  /\ UNCHANGED <<disk, isOpen, files, filemap, currentEvt, todo, nread>>

\* Fault: the exception handler takes the file off the list and leaves it open.
EraseFile ==
  /\ mpc = "read"
  /\ \E f \in Files :
       /\ IsCurrent(f)
       /\ pos[f] = Len(disk[f])
       /\ files' = files \ {f}
       /\ LeaveFile(f)
  /\ UNCHANGED <<disk, pos, isOpen, filemap, hand>>

\* ReadRawFrame throws: the file is closed and taken off the list.
CloseFile ==
  /\ mpc = "read"
  /\ \E f \in Files :
       /\ IsCurrent(f)
       /\ pos[f] = Len(disk[f])
       /\ isOpen' = isOpen \ {f}
       /\ files' = files \ {f}
       /\ LeaveFile(f)
  /\ UNCHANGED <<disk, pos, filemap, hand>>

PutFrame ==
  /\ mpc = "put"
  /\ FQ!Put("main", hand[1])
  /\ hand' = <<>>
  /\ IF Enough(nread + 1) THEN LeaveFile(hand[1].file)
     ELSE nread' = nread + 1 /\ mpc' = "read" /\ UNCHANGED <<currentEvt, todo>>
  /\ UNCHANGED diskVars

FinishFrames ==
  /\ mpc = "round" /\ files = {}
  /\ FQ!Finish("main")
  /\ mpc' = "join"
  /\ UNCHANGED <<diskVars, currentEvt, todo, nread, hand>>

\* put() and finish() wait for the builder.
MainWaits ==
  /\ \/ mpc = "put" /\ FQ!PutBlocks("main")
     \/ mpc = "round" /\ files = {} /\ FQ!FinishBlocks("main")
  /\ UNCHANGED mainVars

\* builder.join() and then writer.join().
Join ==
  /\ mpc = "join"
  /\ bpc = "done" /\ wpc = "done"
  /\ mpc' = "exit"
  /\ UNCHANGED <<diskVars, currentEvt, todo, nread, hand>>

MainStep ==
  /\ Alive
  /\ \/ PutFrame \/ FinishFrames \/ MainWaits
     \/ /\ \/ IndexFiles \/ IndexFails \/ StartWorkers \/ StartRound
           \/ ReadRawFrame \/ CloseFile \/ Join
        /\ UNCHANGED fqVars
  /\ UNCHANGED <<builderVars, eqVars, writerVars>>

-----------------------------------------------------------------------------
(* The event builder: the module EventBuilder between the two queues.      *)

BuilderTakesFrame ==
  /\ bpc = "get"
  /\ FQ!Get("builder")
  /\ EB!TakeFrame(Head(fq))
  /\ UNCHANGED eqVars

BuilderSeesNoMoreTasks ==
  /\ FQ!GetThrows("builder")
  /\ EB!NoMoreTasks
  /\ UNCHANGED eqVars

BuilderPutsEvent ==
  /\ itemList # <<>>
  /\ EQ!Put("builder", EB!Oldest.value)
  /\ EB!Evict \/ EB!FlushOldest
  /\ UNCHANGED fqVars

BuilderFinishesEvents ==
  /\ EQ!Finish("builder")
  /\ EB!Close
  /\ UNCHANGED fqVars

\* SubtractFPN comes before put(): a builder that waits in put() is past it.
\* (So is one that has been woken and has not yet tested for room again; that
\* the model lets it die all the same adds behaviours and takes none away.)
BuilderDies ==
  /\ "builder" \notin eqWaiting
  /\ EB!DivideByZero
  /\ UNCHANGED <<fqVars, eqVars>>

\* get() waits for the main thread, put() and finish() for the writer.
BuilderWaits ==
  /\ \/ bpc = "get" /\ FQ!GetBlocks("builder") /\ UNCHANGED eqVars
     \/ /\ bpc \in {"evict", "flush"} /\ itemList # <<>>
        /\ EQ!PutBlocks("builder") /\ UNCHANGED fqVars
     \/ /\ bpc = "flush" /\ itemList = <<>>
        /\ EQ!FinishBlocks("builder") /\ UNCHANGED fqVars
  /\ UNCHANGED builderVars

BuilderStep ==
  /\ Running
  /\ \/ BuilderTakesFrame \/ BuilderSeesNoMoreTasks \/ BuilderPutsEvent
     \/ BuilderFinishesEvents \/ BuilderDies \/ BuilderWaits
  /\ UNCHANGED <<mainVars, writerVars>>

-----------------------------------------------------------------------------
(* The writer: HDFWriter::run. *)

WriterGets ==
  /\ wpc = "get"
  /\ EQ!Get("writer")
  /\ wevt' = <<Head(eq)>>
  /\ wpc' = "write"
  /\ UNCHANGED <<handled, saved>>

WriterWaits ==
  /\ wpc = "get"
  /\ EQ!GetBlocks("writer")
  /\ UNCHANGED writerVars

\* get() throws NoMoreTasks, the only way out of the loop.
WriterStops ==
  /\ wpc = "get"
  /\ EQ!GetThrows("writer")
  /\ wpc' = "done"
  /\ UNCHANGED <<wevt, handled, saved>>

Handle ==
  /\ handled' = Append(handled, wevt[1])
  /\ wevt' = <<>>
  /\ wpc' = "get"
  /\ UNCHANGED eqVars

\* writeEvent creates the dataset named after the event id.
WriteEvent ==
  /\ wpc = "write"
  /\ wevt[1].eventId \notin saved
  /\ saved' = saved \cup {wevt[1].eventId}
  /\ Handle

\* A std::exception is logged, and the event is lost.
WriteSkipped ==
  /\ wpc = "write"
  /\ "std" \in WriteFaults
  /\ Handle
  /\ UNCHANGED saved

\* An H5::Exception is not a std::exception: it escapes from run().
WriterDies ==
  /\ wpc = "write"
  /\ wevt[1].eventId \in saved \/ "h5" \in WriteFaults
  /\ wpc' = "aborted"
  /\ UNCHANGED <<wevt, handled, saved, eqVars>>

WriterStep ==
  /\ Running
  /\ \/ WriterGets \/ WriterWaits \/ WriterStops
     \/ WriteEvent \/ WriteSkipped \/ WriterDies
  /\ UNCHANGED <<mainVars, fqVars, builderVars>>

-----------------------------------------------------------------------------

Wakeup ==
  /\ Running
  /\ \E t \in {"main", "builder", "writer"} :
       \/ FQ!SpuriousWakeup(t) /\ UNCHANGED eqVars
       \/ EQ!SpuriousWakeup(t) /\ UNCHANGED fqVars
  /\ UNCHANGED <<mainVars, builderVars, writerVars>>

Terminated == mpc \in {"exit", "failed"} \/ ~Alive

Next ==
  \/ MainStep \/ BuilderStep \/ WriterStep \/ Wakeup
  \/ Terminated /\ UNCHANGED vars

\* Every thread that can take a step eventually takes one.
Fairness == WF_vars(MainStep) /\ WF_vars(BuilderStep) /\ WF_vars(WriterStep)

Spec == Init /\ [][Next]_vars /\ Fairness
-----------------------------------------------------------------------------
(* Properties *)

(* The type of every variable; each of the queues is within its capacity.  *)
TypeOK ==
  /\ disk \in Disks
  /\ mpc \in {"index", "start", "round", "read", "put", "join", "exit", "failed"}
  /\ pos \in [Files -> Nat] /\ \A f \in Files : pos[f] <= Len(disk[f])
  /\ files \subseteq Files /\ isOpen \subseteq Files
  /\ mpc \in {"index", "failed"} \/ filemap \in [Files -> 0..(EvtIdMod - 1)]
  /\ currentEvt \in 0..(EvtIdMod - 1)
  /\ todo \subseteq Files /\ nread \in 0..(FramesPerRound - 1)
  /\ hand \in Seq(DiskFrames) /\ Len(hand) = (IF mpc = "put" THEN 1 ELSE 0)
  /\ fq \in Seq(DiskFrames) /\ Len(fq) <= QueueCapacity
  /\ eq \in Seq(EB!Event) /\ Len(eq) <= QueueCapacity
  /\ fqFinished \in BOOLEAN /\ eqFinished \in BOOLEAN
  /\ fqWaiting \subseteq {"main", "builder"} /\ eqWaiting \subseteq {"builder", "writer"}
  /\ EB!TypeOK
  /\ wpc \in {"get", "write", "done", "aborted"}
  /\ wevt \in Seq(EB!Event) /\ Len(wevt) = (IF wpc \in {"write", "aborted"} THEN 1 ELSE 0)
  /\ handled \in Seq(EB!Event) /\ saved \subseteq Nat

(* Between the file and the builder no frame is lost, duplicated or        *)
(* overtaken by a later frame of its file, wherever the two threads are:   *)
(* the frames that have been read are those on their way, each once, and   *)
(* those of one file in the order of the file.                             *)
OnTheirWay == arrived \o fq \o hand

FramesConserved ==
  bpc # "aborted" =>
    /\ \A i \in DOMAIN OnTheirWay : \E f \in Files : \E n \in 1..pos[f] :
         OnTheirWay[i] = FrameAt(disk, f, n)
    /\ \A f \in Files : \A n \in 1..pos[f] : \E i \in DOMAIN OnTheirWay :
         OnTheirWay[i] = FrameAt(disk, f, n)
    /\ \A i, j \in DOMAIN OnTheirWay :
         (i < j /\ OnTheirWay[i].file = OnTheirWay[j].file)
           => OnTheirWay[i].n < OnTheirWay[j].n

(* Between the builder and the writer no event is lost, duplicated or      *)
(* reordered.                                                              *)
EventsConserved == out = handled \o wevt \o eq

(* writeEvent never asks HDF5 for a dataset name it has already used, so   *)
(* the exception that would end the process is never of that kind.         *)
NoNameCollision == wpc = "write" => wevt[1].eventId \notin saved

(* The files are read in step: at the start of a round a file that is      *)
(* still listed has had FramesPerRound reads for every event id from the   *)
(* one it is indexed under to the one before the current.  Only listed     *)
(* files are open.  This holds as long as the event ids do not wrap around *)
(* before a file has ended.                                                *)
NoWrap ==
  \A f \in Files : filemap[f] + Len(disk[f]) \div FramesPerRound + 1 < EvtIdMod

ReadInStep ==
  (mpc = "round" /\ NoWrap) =>
    /\ files = isOpen
    /\ \A f \in files :
         pos[f] = IF filemap[f] >= currentEvt THEN 0
                  ELSE FramesPerRound * (currentEvt - filemap[f])

(* When MergeByEvtId returns, nothing is left in the queues or in the      *)
(* cache, the writer has handled every event the builder put, and every    *)
(* frame of every file has reached the builder: the event of its id has    *)
(* been handled, and the frame is in it unless it was dropped as late.  No *)
(* event without a frame has been handled.                                 *)
CompleteAtExit ==
  mpc = "exit" =>
    /\ fq = <<>> /\ eq = <<>> /\ itemList = <<>> /\ out = handled
    /\ \A i \in DOMAIN handled : handled[i].frames # <<>>
    /\ \A f \in Files : \A n \in DOMAIN disk[f] :
         \E t \in DOMAIN arrived, i \in DOMAIN handled :
           /\ arrived[t] = FrameAt(disk, f, n)
           /\ handled[i].eventId = disk[f][n].evt
           /\ t \in late \/ \E k \in DOMAIN handled[i].frames : handled[i].frames[k] = t

(* When every file holds one frame of each of the same events, in the same *)
(* order, and a round is no more than the cache can hold, no frame is late *)
(* however the threads are scheduled.                                      *)
Aligned ==
  /\ FramesPerRound <= CacheSize
  /\ \A f, g \in Files :
       /\ disk[f] # <<>> /\ Len(disk[f]) = Len(disk[g])
       /\ \A n \in DOMAIN disk[f] :
            /\ disk[f][n].evt = disk[g][n].evt
            /\ n > 1 => disk[f][n - 1].evt < disk[f][n].evt

AlignedNothingLate == Aligned => late = {}

(* The documentation (intro.rst:16) has the program combine the frames of  *)
(* an event from all of the files: no frame is left out of its event.      *)
CombinesAllFiles == mpc = "exit" => late = {}

(* If the process dies, only recent events are missing from the file: when *)
(* the writer is not through with an event, the frames the builder has     *)
(* taken since the last of this event belong to at most as many other      *)
(* events as the cache and the event queue hold, and one more that is      *)
(* being made room for.  (A frame that throws, Merger.cpp:84;              *)
(* H5::Exception, Merger.cpp:133)                                          *)
Since(t) == {arrived[u].evt : u \in ((t + 1)..Len(arrived)) \ late}

OnlyRecentEventsWait ==
  \A t \in DOMAIN arrived \ late :
    \/ arrived[t].evt \in Since(t)
    \/ \E i \in DOMAIN handled : handled[i].eventId = arrived[t].evt
    \/ Cardinality(Since(t)) <= CacheSize + QueueCapacity + 1

(* The merge comes to an end: it is complete, or indexing failed, or an    *)
(* exception ended the process.  No thread waits for ever on a queue.      *)
Termination == <>Terminated
=============================================================================
