------------------------------- MODULE FileIndex -------------------------------
(***************************************************************************)
(* The class FileIndex: for every file the smallest event id among its     *)
(* first frames, and the files to read from for an event id.  A file is    *)
(* its position in the list the constructor was given.                     *)
(***************************************************************************)
EXTENDS Naturals, Sequences, FiniteSetsExt

CONSTANTS
  IndexDepth,   \* indexDepth, 5*4: how many frames indexFiles reads
  EvtIdMod      \* 2^32, the values of an evtid_t

\* ReadFrameMetadata throws when there is no further frame, and nothing in
\* indexFiles catches it.
CanIndex(frames) == Len(frames) >= IndexDepth

\* A file that breaks off within the last frame to be indexed may be indexed all
\* the same, with arbitrary memory for an event id, and then its stream has
\* failed: rewound or not, no frame can be read from it.
MayIndex(frames) == CanIndex(frames) \/ frames = <<>>

MinEvtId(frames) == Min({frames[i].evt : i \in 1..IndexDepth})

\* The ids a file may be indexed under.
Keys(frames) == IF CanIndex(frames) THEN {MinEvtId(frames)} ELSE 0..(EvtIdMod - 1)

\* findFilesForEvtId: the open files up to the given id.
FindFilesForEvtId(filemap, isOpen, evtid) == {f \in isOpen : filemap[f] <= evtid}

\* Its list is in the order of the multimap: by key, entries with equal keys
\* in the order they were inserted.  f is the first of the files in found.
ComesFirst(filemap, f, found) ==
  \A g \in found : filemap[f] < filemap[g] \/ (filemap[f] = filemap[g] /\ f <= g)
=============================================================================
