----------------------------- MODULE EventAssembly -----------------------------
(***************************************************************************)
(* What the event builder promises, with no cache and no recency: every    *)
(* frame is either added to the open event of its event id or, if that     *)
(* event has been published, discarded; an event is published once, with   *)
(* all the frames that were added to it, and never changes after that.     *)
(* Frames are numbered in the order they arrive.                           *)
(***************************************************************************)
EXTENDS Naturals, Sequences

CONSTANT EventIds

VARIABLES
  ids,        \* the event ids of the frames that have arrived
  open,       \* for every event id, the frames added so far
  published,  \* the published events, in order of publication
  discarded   \* the frames that came too late

assemblyVars == <<ids, open, published, discarded>>

PublishedIds == {published[i].eventId : i \in DOMAIN published}

Init ==
  /\ ids = <<>>
  /\ open = [e \in EventIds |-> <<>>]
  /\ published = <<>>
  /\ discarded = {}

\* A frame of event e arrives in time.
Add(e) ==
  /\ e \notin PublishedIds
  /\ ids' = Append(ids, e)
  /\ open' = [open EXCEPT ![e] = Append(@, Len(ids) + 1)]
  /\ UNCHANGED <<published, discarded>>

\* A frame of event e arrives after the event was published.
Discard(e) ==
  /\ e \in PublishedIds
  /\ ids' = Append(ids, e)
  /\ discarded' = discarded \cup {Len(ids) + 1}
  /\ UNCHANGED <<open, published>>

Publish(e) ==
  /\ open[e] # <<>>
  /\ published' = Append(published, [eventId |-> e, frames |-> open[e]])
  /\ open' = [open EXCEPT ![e] = <<>>]
  /\ UNCHANGED <<ids, discarded>>

Next == \E e \in EventIds : Add(e) \/ Discard(e) \/ Publish(e)

Spec == Init /\ [][Next]_assemblyVars
=============================================================================
