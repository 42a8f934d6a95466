------------------------------ MODULE SyncQueue ------------------------------
(***************************************************************************)
(* The monitor class SyncQueue<T>: a bounded list protected by one mutex,  *)
(* with one condition variable shared by put, get and finish.              *)
(*                                                                         *)
(* A method runs under the mutex from its first line to its last, except   *)
(* while cond.wait has released it.  So a call is one atomic step when the *)
(* predicate it waits for holds (or once the caller has been woken and the *)
(* predicate holds), and one atomic step that joins the wait set when it   *)
(* does not.  The class is instantiated twice by the merger; this module   *)
(* therefore has operations and no behaviour of its own.                   *)
(***************************************************************************)
EXTENDS Naturals, Sequences

CONSTANT Capacity   \* the literal 100 in both overloads of put

ASSUME CapacityAssumption == Capacity \in Nat \ {0}

VARIABLES
  q,          \* the list of tasks, oldest first
  finished,   \* the flag finish() sets
  waiting     \* the threads inside cond.wait

queueVars == <<q, finished, waiting>>

QueueInit == q = <<>> /\ finished = FALSE /\ waiting = {}

-----------------------------------------------------------------------------
(* The predicates the three methods hand to cond.wait.                     *)

\* Fault: an off-by-one in the bound.
HasRoomOffByOne == Len(q) <= Capacity

HasRoom == Len(q) < Capacity

Ready == q # <<>> \/ finished

\* Fault: finish() does not wait for the list to drain.
DrainedIgnored == TRUE

Drained == q = <<>>

\* cond.wait(lock, pred) when pred is false: sleep and release the mutex.
Sleep(t, pred) ==
  /\ t \notin waiting
  /\ ~pred
  /\ waiting' = waiting \cup {t}
  /\ UNCHANGED <<q, finished>>

\* Fault: notify_one where the code has notify_all.
NotifyOne == IF waiting = {} THEN UNCHANGED waiting
             ELSE \E t \in waiting : waiting' = waiting \ {t}

NotifyAll == waiting' = {}

-----------------------------------------------------------------------------
(* put *)

\* Fault: a task is pushed at the end get() takes from.
PutInFront(t, task) ==
  /\ t \notin waiting
  /\ HasRoom
  /\ q' = <<task>> \o q
  /\ NotifyAll
  /\ UNCHANGED finished

Put(t, task) ==
  /\ t \notin waiting
  /\ HasRoom
  /\ q' = Append(q, task)
  /\ NotifyAll
  /\ UNCHANGED finished

PutBlocks(t) == Sleep(t, HasRoom)

(* get: returns the oldest task, or throws NoMoreTasks once finished. *)

\* Fault: get() forgets to notify, so nobody learns that there is room.
GetSilently(t) ==
  /\ t \notin waiting
  /\ Ready
  /\ ~finished
  /\ q' = Tail(q)
  /\ UNCHANGED <<finished, waiting>>

Get(t) ==
  /\ t \notin waiting
  /\ Ready
  /\ ~finished
  /\ q' = Tail(q)
  /\ NotifyAll
  /\ UNCHANGED finished

\* Fault: an empty list is taken for a finished one.
GetThrowsWhenEmpty(t) ==
  /\ t \notin waiting
  /\ q = <<>>
  /\ UNCHANGED queueVars

GetThrows(t) ==
  /\ t \notin waiting
  /\ finished
  /\ UNCHANGED queueVars

GetBlocks(t) == Sleep(t, Ready)

(* finish: waits until every task has been taken. *)

Finish(t) ==
  /\ t \notin waiting
  /\ Drained
  /\ finished' = TRUE
  /\ NotifyAll
  /\ UNCHANGED q

FinishBlocks(t) == Sleep(t, Drained)

\* A condition variable may wake a thread that nobody notified; the thread
\* evaluates its predicate again, so waking is all that happens.
SpuriousWakeup(t) ==
  /\ t \in waiting
  /\ waiting' = waiting \ {t}
  /\ UNCHANGED <<q, finished>>
=============================================================================
