----------------------------- MODULE QueueClients -----------------------------
(***************************************************************************)
(* A SyncQueue and the threads around it, as the merger uses each of its   *)
(* two queues: one producer puts tasks, and when it has no more it calls   *)
(* finish(); every consumer loops on get() until NoMoreTasks is thrown.    *)
(* The program has one consumer per queue.                                 *)
(***************************************************************************)
EXTENDS SyncQueue

CONSTANTS
  Producer,    \* the thread that puts and finishes
  Consumers,   \* the threads that get
  MaxTasks     \* bound: how many tasks the producer may put

ASSUME ClientsAssumption ==
  /\ Producer \notin Consumers
  /\ MaxTasks \in Nat

VARIABLES
  ppc,         \* the producer: "put", then "finish", then "done"
  produced,    \* the number of tasks put; the tasks are 1, 2, 3, ...
  delivered,   \* the tasks get() has returned, in order
  stopped      \* the consumers that have seen NoMoreTasks and returned

vars == <<q, finished, waiting, ppc, produced, delivered, stopped>>

Init ==
  /\ QueueInit
  /\ ppc = "put"
  /\ produced = 0
  /\ delivered = <<>>
  /\ stopped = {}

-----------------------------------------------------------------------------
(* The producer. *)

Produce ==
  /\ ppc = "put" /\ produced < MaxTasks
  /\ Put(Producer, produced + 1)
  /\ produced' = produced + 1
  /\ UNCHANGED <<ppc, delivered, stopped>>

ProduceBlocks ==
  /\ ppc = "put" /\ produced < MaxTasks
  /\ PutBlocks(Producer)
  /\ UNCHANGED <<ppc, produced, delivered, stopped>>

\* The producer runs out of input, at a moment the queue knows nothing about.
NoMoreInput ==
  /\ ppc = "put" /\ Producer \notin waiting
  /\ ppc' = "finish"
  /\ UNCHANGED <<queueVars, produced, delivered, stopped>>

FinishQueue ==
  /\ ppc = "finish"
  /\ Finish(Producer)
  /\ ppc' = "done"
  /\ UNCHANGED <<produced, delivered, stopped>>

FinishQueueBlocks ==
  /\ ppc = "finish"
  /\ FinishBlocks(Producer)
  /\ UNCHANGED <<ppc, produced, delivered, stopped>>

ProducerStep ==
  Produce \/ ProduceBlocks \/ NoMoreInput \/ FinishQueue \/ FinishQueueBlocks

(* A consumer. *)

Consume(c) ==
  /\ c \notin stopped
  /\ Get(c)
  /\ delivered' = Append(delivered, Head(q))
  /\ UNCHANGED <<ppc, produced, stopped>>

ConsumeBlocks(c) ==
  /\ c \notin stopped
  /\ GetBlocks(c)
  /\ UNCHANGED <<ppc, produced, delivered, stopped>>

ConsumerStops(c) ==
  /\ c \notin stopped
  /\ GetThrows(c)
  /\ stopped' = stopped \cup {c}
  /\ UNCHANGED <<ppc, produced, delivered>>

ConsumerStep(c) == Consume(c) \/ ConsumeBlocks(c) \/ ConsumerStops(c)

Wakeup(t) == SpuriousWakeup(t) /\ UNCHANGED <<ppc, produced, delivered, stopped>>

Terminated == ppc = "done" /\ stopped = Consumers /\ UNCHANGED vars

Next ==
  \/ ProducerStep
  \/ \E c \in Consumers : ConsumerStep(c)
  \/ \E t \in Consumers \cup {Producer} : Wakeup(t)
  \/ Terminated

\* Every thread that can take a step eventually takes one.
Fairness ==
  /\ WF_vars(ProducerStep)
  /\ \A c \in Consumers : WF_vars(ConsumerStep(c))

SafetySpec == Init /\ [][Next]_vars
Spec == SafetySpec /\ Fairness

-----------------------------------------------------------------------------
(* Properties *)

(* The type of every variable, and the bound put() enforces: the list is   *)
(* never longer than Capacity.                                             *)
TypeOK ==
  /\ q \in Seq(Nat)
  /\ Len(q) <= Capacity
  /\ finished \in BOOLEAN
  /\ waiting \subseteq Consumers \cup {Producer}
  /\ ppc \in {"put", "finish", "done"}
  /\ produced \in 0..MaxTasks
  /\ delivered \in Seq(Nat)
  /\ stopped \subseteq Consumers

(* What get() has returned followed by what is still queued is exactly     *)
(* what was put, in the order it was put: nothing is lost, duplicated or   *)
(* overtaken, whichever consumer takes it.                                 *)
Fifo == delivered \o q = [i \in 1..produced |-> i]

(* No thread sleeps in cond.wait while the predicate it waits for is true: *)
(* every change that can make a predicate true notifies every sleeper.     *)
NoMissedWakeup ==
  /\ Producer \in waiting /\ ppc = "put" => ~HasRoom
  /\ Producer \in waiting /\ ppc = "finish" => ~Drained
  /\ waiting \cap Consumers # {} => ~Ready

(* The flag that makes get() throw is raised only when everything that was *)
(* put has been taken, so a consumer that stops has not abandoned a task.  *)
StopsOnlyWhenDrained ==
  finished => ppc = "done" /\ Len(delivered) = produced

(* Once the producer has begun to finish, every thread comes to its end;   *)
(* in particular finish() itself returns.                                  *)
FinishReturns == ppc = "finish" ~> ppc = "done" /\ stopped = Consumers

(* A SyncQueue implements the stream of tasks.                             *)
Stream == INSTANCE TaskStream WITH sent <- produced, closed <- finished
ImplementsStream == Stream!Spec
=============================================================================
