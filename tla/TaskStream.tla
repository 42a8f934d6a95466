------------------------------ MODULE TaskStream ------------------------------
(***************************************************************************)
(* What a SyncQueue promises the two threads it connects, with no mutex,   *)
(* no condition variable and no capacity: a stream of tasks, delivered     *)
(* once each and in the order they were sent, that is closed only when all *)
(* of it has been delivered, after which the consumers are told to stop.   *)
(* Tasks are numbered in the order they are sent.                          *)
(***************************************************************************)
EXTENDS Naturals, Sequences

CONSTANTS Consumers, MaxTasks

VARIABLES
  sent,        \* how many tasks have been sent
  delivered,   \* the tasks delivered, in order of delivery
  closed,
  stopped      \* the consumers that have been told there are no more tasks

streamVars == <<sent, delivered, closed, stopped>>

Init == sent = 0 /\ delivered = <<>> /\ closed = FALSE /\ stopped = {}

Send ==
  /\ ~closed /\ sent < MaxTasks
  /\ sent' = sent + 1
  /\ UNCHANGED <<delivered, closed, stopped>>

Deliver ==
  /\ Len(delivered) < sent
  /\ delivered' = Append(delivered, Len(delivered) + 1)
  /\ UNCHANGED <<sent, closed, stopped>>

Close ==
  /\ ~closed /\ Len(delivered) = sent
  /\ closed' = TRUE
  /\ UNCHANGED <<sent, delivered, stopped>>

Stop(c) ==
  /\ closed /\ c \notin stopped
  /\ stopped' = stopped \cup {c}
  /\ UNCHANGED <<sent, delivered, closed>>

Next == Send \/ Deliver \/ Close \/ \E c \in Consumers : Stop(c)

\* Sending and closing are up to the producer; delivering what was sent and
\* stopping every consumer of a closed stream are the promise.
Spec ==
  /\ Init /\ [][Next]_streamVars
  /\ WF_streamVars(Deliver)
  /\ \A c \in Consumers : WF_streamVars(Stop(c))
=============================================================================
