----------------------------- MODULE EventBuilder -----------------------------
(***************************************************************************)
(* The event builder: the thread that takes frames off the frame queue,    *)
(* gathers the frames of one event id in an Event held by the LRU cache,   *)
(* and puts an event on the event queue when the cache evicts it.          *)
(*                                                                         *)
(* The queues are left to the module Merger.  Here a frame is any member   *)
(* of Frames, the end of the frame queue comes at any time, and an event   *)
(* that is put is appended to out.  The frames are numbered by arrival;    *)
(* an Event is its eventId and the numbers of the frames appended to it.   *)
(***************************************************************************)
EXTENDS LRUCache, FiniteSets

CONSTANTS
  Frames,     \* what can arrive: records with the fields evt and kind
  EventIds,   \* the event ids that occur
  MaxFrames   \* bound: how many frames may arrive

ASSUME FramesAssumption ==
  /\ EventIds \subseteq Nat
  /\ \A f \in Frames : f.evt \in EventIds
  /\ MaxFrames \in Nat

VARIABLES
  bpc,               \* where the thread is: "get", "evict", "flush", "done";
                     \* "aborted" once the process has been terminated
  arrived,           \* history: the frames taken off the frame queue
  finishedEventIds,
  out,               \* the events put on the event queue
  late               \* history: the frames that were dropped

builderVars ==
  <<itemList, iterMap, bpc, arrived, finishedEventIds, out, late>>

Init ==
  /\ CacheInit
  /\ bpc = "get"
  /\ arrived = <<>>
  /\ finishedEventIds = {}
  /\ out = <<>>
  /\ late = {}

-----------------------------------------------------------------------------
(* A default-constructed Event, and Event::AppendFrame: the first frame    *)
(* determines the event id.                                                *)

NewEvent == [eventId |-> 0, frames |-> <<>>]

WithFrame(event, f, t) ==
  [eventId |-> IF event.frames = <<>> THEN f.evt ELSE event.eventId,
   frames  |-> Append(event.frames, t)]

\* Fault: nobody remembers what has been written.
NeverWritten(evt) == FALSE

EventWasAlreadyWritten(evt) == evt \in finishedEventIds

-----------------------------------------------------------------------------
(* One frame is taken off the queue and parsed.                            *)

CanTake == bpc = "get" /\ Len(arrived) < MaxFrames

Take(f) ==
  /\ CanTake
  /\ f.kind # "fatal"
  /\ arrived' = Append(arrived, f)

Number == Len(arrived) + 1

\* The frame's contents make the GRAWFrame constructor or AppendFrame throw,
\* and nothing in run() catches it: std::terminate ends the process.
ThrowOn(f) ==
  /\ CanTake
  /\ f.kind = "fatal"
  /\ bpc' = "aborted"
  /\ UNCHANGED <<cacheVars, arrived, finishedEventIds, out, late>>

\* Fault: get() leaves the item where it is, so the cache evicts the event
\* that was started first and not the one that was used least recently.
AppendInPlace(f) ==
  /\ Take(f)
  /\ Cached(f.evt)
  /\ itemList' = [itemList EXCEPT ![NodeOf(f.evt)].value = WithFrame(@, f, Number)]
  /\ UNCHANGED <<iterMap, bpc, finishedEventIds, out, late>>

\* The event is in the cache: it becomes the most recent one.
AppendToCached(f) ==
  /\ Take(f)
  /\ Cached(f.evt)
  /\ itemList' = [Splice(itemList, NodeOf(f.evt)) EXCEPT ![1].value = WithFrame(@, f, Number)]
  /\ UNCHANGED <<iterMap, bpc, finishedEventIds, out, late>>

\* The event was evicted earlier: a warning, and the frame is gone.
DropLate(f) ==
  /\ Take(f)
  /\ ~Cached(f.evt)
  /\ EventWasAlreadyWritten(f.evt)
  /\ late' = late \cup {Number}
  /\ UNCHANGED <<cacheVars, bpc, finishedEventIds, out>>

\* makeNewEvent with room in the cache, then AppendFrame.
StartEvent(f) ==
  /\ Take(f)
  /\ ~Cached(f.evt) /\ ~EventWasAlreadyWritten(f.evt)
  /\ Insert(f.evt, WithFrame(NewEvent, f, Number))
  /\ ~Overfull(itemList')
  /\ UNCHANGED <<bpc, finishedEventIds, out, late>>

\* makeNewEvent with a full cache: insert() has the new, still empty event
\* at the front and goes on to evict the oldest.
StartEventWhenFull(f) ==
  /\ Take(f)
  /\ ~Cached(f.evt) /\ ~EventWasAlreadyWritten(f.evt)
  /\ Insert(f.evt, NewEvent)
  /\ Overfull(itemList')
  /\ bpc' = "evict"
  /\ UNCHANGED <<finishedEventIds, out, late>>

TakeFrame(f) ==
  \/ ThrowOn(f) \/ AppendToCached(f) \/ DropLate(f)
  \/ StartEvent(f) \/ StartEventWhenFull(f)

-----------------------------------------------------------------------------
(* processAndOutputEvent, the callback of evictOldestElement.              *)

\* Fault: the event is put and not recorded.
OutputUnrecorded(event) ==
  /\ out' = Append(out, event)
  /\ UNCHANGED finishedEventIds

ProcessAndOutput(event) ==
  /\ finishedEventIds' = finishedEventIds \cup {event.eventId}
  /\ out' = Append(out, event)

\* insert() finishes: the oldest event is put and erased, and the frame that
\* caused the eviction is appended to the event at the front.
Evict ==
  /\ bpc = "evict"
  /\ ProcessAndOutput(Oldest.value)
  /\ itemList' = [WithoutOldest EXCEPT ![1].value =
                    WithFrame(@, arrived[Len(arrived)], Len(arrived))]
  /\ iterMap' = ForgetOldest
  /\ bpc' = "get"
  /\ UNCHANGED <<arrived, late>>

\* get() threw NoMoreTasks: flush() evicts until the cache is empty, and then
\* the event queue is finished.
NoMoreTasks ==
  /\ bpc = "get"
  /\ bpc' = "flush"
  /\ UNCHANGED <<cacheVars, arrived, finishedEventIds, out, late>>

\* Fault: flush() stops when one item is left.
FlushAllButOne ==
  /\ bpc = "flush" /\ Len(itemList) > 1
  /\ ProcessAndOutput(Oldest.value)
  /\ itemList' = WithoutOldest
  /\ iterMap' = ForgetOldest
  /\ UNCHANGED <<bpc, arrived, late>>

FlushOldest ==
  /\ bpc = "flush" /\ itemList # <<>>
  /\ ProcessAndOutput(Oldest.value)
  /\ itemList' = WithoutOldest
  /\ iterMap' = ForgetOldest
  /\ UNCHANGED <<bpc, arrived, late>>

Close ==
  /\ bpc = "flush" /\ itemList = <<>>
  /\ bpc' = "done"
  /\ UNCHANGED <<cacheVars, arrived, finishedEventIds, out, late>>

\* SubtractFPN divides by the number of nonzero bins of the mean FPN.  When a
\* frame's FPN samples are all zero that is an integer division by zero: the
\* process is killed, or (Evict, FlushOldest) the division yields something.
DivideByZero ==
  /\ bpc \in {"evict", "flush"} /\ itemList # <<>>
  /\ \E t \in DOMAIN Oldest.value.frames :
       arrived[Oldest.value.frames[t]].kind = "deadfpn"
  /\ bpc' = "aborted"
  /\ UNCHANGED <<cacheVars, arrived, finishedEventIds, out, late>>

Terminated == bpc \in {"done", "aborted"} /\ UNCHANGED builderVars

Next ==
  \/ \E f \in Frames : TakeFrame(f)
  \/ Evict \/ NoMoreTasks \/ FlushOldest \/ Close \/ DivideByZero
  \/ Terminated

\* The thread keeps running; only the arrival of frames is not its own doing.
Fairness == WF_builderVars(Evict \/ FlushOldest \/ Close \/ DivideByZero)

SafetySpec == Init /\ [][Next]_builderVars
Spec == SafetySpec /\ Fairness

-----------------------------------------------------------------------------
(* Properties *)

Event == [eventId : Nat, frames : Seq(Nat)]

(* The type of every variable.  The list is longer than CacheSize only     *)
(* while insert() is evicting.                                             *)
TypeOK ==
  /\ itemList \in Seq([key : EventIds, value : Event])
  /\ iterMap \subseteq EventIds
  /\ bpc \in {"get", "evict", "flush", "done", "aborted"}
  /\ arrived \in Seq(Frames)
  /\ finishedEventIds \subseteq Nat
  /\ out \in Seq(Event)
  /\ late \subseteq 1..Len(arrived)
  /\ bpc \in {"get", "flush"} => Len(itemList) <= CacheSize

(* The list and the map of the cache never drift apart: the map has        *)
(* exactly the keys of the list, and no key has two nodes.  An event is    *)
(* cached under its own event id; only the event that insert() is making   *)
(* room for has no frame, and so no event id, yet.                         *)
CacheCoherent ==
  /\ iterMap = KeysOf(itemList)
  /\ \A i, j \in DOMAIN itemList : itemList[i].key = itemList[j].key => i = j
  /\ \A i \in DOMAIN itemList :
       IF itemList[i].value.frames = <<>> THEN i = 1 /\ bpc \in {"evict", "aborted"}
       ELSE itemList[i].value.eventId = itemList[i].key

(* No event id is put on the event queue twice (the second dataset of that *)
(* name could not be created), and an event that was put is never opened   *)
(* again.  finishedEventIds is exactly what has been put.                  *)
PublishedOnce ==
  /\ \A i, j \in DOMAIN out : out[i].eventId = out[j].eventId => i = j
  /\ finishedEventIds = {out[i].eventId : i \in DOMAIN out}
  /\ finishedEventIds \cap iterMap = {}

\* The events that exist, put or still cached, and the frame being handled.
AllEvents == out \o [i \in DOMAIN itemList |-> itemList[i].value]
Slots == UNION {{i} \X DOMAIN AllEvents[i].frames : i \in DOMAIN AllEvents}
InHand == IF bpc \in {"evict", "aborted"} THEN {Len(arrived)} ELSE {}

(* A frame that has arrived is in exactly one event and there once, or it  *)
(* was dropped as late, or it is the one being handled: nothing is lost or *)
(* counted twice between the cache and the output.  Once the builder is    *)
(* done no event is left behind in the cache.                              *)
FramesFiledOnce ==
  /\ \A t \in 1..Len(arrived) :
       LET places == {p \in Slots : AllEvents[p[1]].frames[p[2]] = t}
       IN  IF t \in late THEN places = {}
           ELSE t \in InHand \/ \E p \in Slots : places = {p}
  /\ bpc = "done" => itemList = <<>>

(* An event holds frames of its own event id only, in order of arrival.    *)
FramesInTheirEvent ==
  \A i \in DOMAIN AllEvents :
    LET frames == AllEvents[i].frames IN
    /\ \A a \in DOMAIN frames : arrived[frames[a]].evt = AllEvents[i].eventId
    /\ \A a, b \in DOMAIN frames : a < b => frames[a] < frames[b]

(* A frame is dropped only if its event has been idle: since the most      *)
(* recent frame the event did get, frames of at least CacheSize other      *)
(* events have arrived.  This is all the protection the cache gives        *)
(* against reordering.                                                     *)
LateOnlyWhenIdle ==
  \A t \in late :
    \E last \in (1..(t - 1)) \ late :
      /\ arrived[last].evt = arrived[t].evt
      /\ \A u \in (last + 1)..(t - 1) : arrived[u].evt = arrived[t].evt => u \in late
      /\ Cardinality({arrived[u].evt : u \in (last + 1)..(t - 1)}
                       \ {arrived[t].evt}) >= CacheSize

(* Once NoMoreTasks has been seen, every event is put and the event queue  *)
(* is finished, unless the process dies on the way.                        *)
EverythingIsPublished ==
  bpc = "flush" ~> bpc = "aborted" \/ (bpc = "done" /\ itemList = <<>>)

(* The builder implements the assembly of events.  An event that has been  *)
(* inserted but not been given its first frame yet counts as holding it.   *)
FramesOf(e) ==
  IF e \notin iterMap THEN <<>>
  ELSE IF itemList[NodeOf(e)].value.frames = <<>> THEN <<Len(arrived)>>
  ELSE itemList[NodeOf(e)].value.frames

Assembly == INSTANCE EventAssembly WITH
  ids       <- [t \in DOMAIN arrived |-> arrived[t].evt],
  open      <- [e \in EventIds |-> FramesOf(e)],
  published <- out,
  discarded <- late

ImplementsAssembly == Assembly!Spec
=============================================================================
