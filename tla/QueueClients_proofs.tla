-------------------------- MODULE QueueClients_proofs --------------------------
(***************************************************************************)
(* Proofs about a SyncQueue and its clients, for every capacity, every set *)
(* of consumers and every number of tasks.                                 *)
(***************************************************************************)
EXTENDS QueueClients, SequenceTheorems, TLAPS

(* Appending to the queue appends to the history of what was put. *)
LEMMA PutExtends ==
  ASSUME NEW d \in Seq(Nat), NEW s \in Seq(Nat), NEW n \in Nat
  PROVE  d \o Append(s, n) = Append(d \o s, n)
  OBVIOUS

(* Moving the head of the queue to the delivered tasks changes nothing in  *)
(* their concatenation.                                                    *)
LEMMA GetPreserves ==
  ASSUME NEW d \in Seq(Nat), NEW s \in Seq(Nat), s # <<>>
  PROVE  Append(d, Head(s)) \o Tail(s) = d \o s
  OBVIOUS

(* The queue is closed for good only when it is empty. *)
ClosedEmpty == finished => ppc = "done" /\ q = <<>>

IInv == TypeOK /\ Fifo /\ NoMissedWakeup /\ ClosedEmpty

(* The invariant holds initially. *)
LEMMA InitInv == Init => IInv
<1> SUFFICES ASSUME Init PROVE IInv
  OBVIOUS
<1> USE CapacityAssumption, ClientsAssumption DEF Init, QueueInit
<1>1. TypeOK
  <2>1. <<>> \in Seq(Nat) /\ Len(<<>>) = 0
    OBVIOUS
  <2>2. q \in Seq(Nat) /\ delivered \in Seq(Nat) /\ Len(q) = 0
    BY <2>1
  <2>3. Len(q) <= Capacity /\ produced \in 0..MaxTasks
    BY <2>2
  <2>4. finished \in BOOLEAN
    OBVIOUS
  <2>5. waiting \subseteq Consumers \cup {Producer} /\ stopped \subseteq Consumers
    OBVIOUS
  <2> QED BY <2>2, <2>3, <2>4, <2>5 DEF TypeOK
<1>2. Fifo
  <2>1. <<>> \o <<>> = <<>>
    OBVIOUS
  <2>2. [i \in 1..0 |-> i] = <<>>
    OBVIOUS
  <2> QED BY <2>1, <2>2 DEF Fifo
<1>3. NoMissedWakeup /\ ClosedEmpty
  BY DEF NoMissedWakeup, ClosedEmpty
<1> QED BY <1>1, <1>2, <1>3 DEF IInv

(* A put numbers its task next, and a history of numbers in order stays one. *)
LEMMA NumbersExtend ==
  ASSUME NEW n \in Nat
  PROVE  Append([i \in 1..n |-> i], n + 1) = [i \in 1..(n + 1) |-> i]
  OBVIOUS

(* Every step preserves the invariant.  The two conjuncts about the wait   *)
(* set need the list and the flag to change only in steps that empty it.   *)
LEMMA StepInv == IInv /\ [Next]_vars => IInv'
<1> SUFFICES ASSUME IInv, [Next]_vars PROVE IInv'
  OBVIOUS
<1> USE CapacityAssumption, ClientsAssumption DEF IInv
<1> TypeOK /\ Fifo /\ NoMissedWakeup /\ ClosedEmpty
  OBVIOUS
<1>1. CASE Produce
  <2>1. TypeOK'
    BY <1>1 DEF TypeOK, Produce, Put, HasRoom, NotifyAll
  <2>2. Fifo'
    <3>1. (delivered \o q)' = Append(delivered \o q, produced + 1)
      BY <1>1, PutExtends DEF TypeOK, Produce, Put
    <3>2. produced' = produced + 1 /\ produced \in Nat
      BY <1>1 DEF TypeOK, Produce
    <3> QED BY <3>1, <3>2, NumbersExtend DEF Fifo
  <2>3. (NoMissedWakeup /\ ClosedEmpty)'
    BY <1>1 DEF NoMissedWakeup, ClosedEmpty, Produce, Put, NotifyAll
  <2> QED BY <2>1, <2>2, <2>3
<1>2. CASE ProduceBlocks
  <2> USE <1>2 DEF ProduceBlocks, PutBlocks, Sleep
  <2>1. TypeOK' BY DEF TypeOK
  <2>2. Fifo' BY DEF Fifo
  <2>3. NoMissedWakeup' BY DEF NoMissedWakeup, HasRoom, Ready, Drained
  <2>4. ClosedEmpty' BY DEF ClosedEmpty
  <2> QED BY <2>1, <2>2, <2>3, <2>4
<1>3. CASE NoMoreInput
  <2> USE <1>3 DEF NoMoreInput, queueVars
  <2>1. TypeOK' BY DEF TypeOK
  <2>2. Fifo' BY DEF Fifo
  <2>3. NoMissedWakeup' BY DEF NoMissedWakeup, HasRoom, Ready, Drained
  <2>4. ClosedEmpty' BY DEF ClosedEmpty
  <2> QED BY <2>1, <2>2, <2>3, <2>4
<1>4. CASE FinishQueue
  <2> USE <1>4 DEF FinishQueue, Finish, NotifyAll, Drained
  <2>1. TypeOK' BY DEF TypeOK
  <2>2. Fifo' BY DEF Fifo
  <2>3. NoMissedWakeup' BY DEF NoMissedWakeup
  <2>4. ClosedEmpty' BY DEF ClosedEmpty
  <2> QED BY <2>1, <2>2, <2>3, <2>4
<1>5. CASE FinishQueueBlocks
  <2> USE <1>5 DEF FinishQueueBlocks, FinishBlocks, Sleep
  <2>1. TypeOK' BY DEF TypeOK
  <2>2. Fifo' BY DEF Fifo
  <2>3. NoMissedWakeup' BY DEF NoMissedWakeup, HasRoom, Ready, Drained
  <2>4. ClosedEmpty' BY DEF ClosedEmpty
  <2> QED BY <2>1, <2>2, <2>3, <2>4
<1>6. ASSUME NEW c \in Consumers, Consume(c) PROVE IInv'
  <2>0. q # <<>>
    BY <1>6 DEF Consume, Get, Ready
  <2>1. TypeOK'
    BY <1>6, <2>0 DEF TypeOK, Consume, Get, NotifyAll
  <2>2. Fifo'
    <3>1. (delivered \o q)' = delivered \o q
      BY <1>6, <2>0, GetPreserves DEF TypeOK, Consume, Get
    <3> QED BY <1>6, <3>1 DEF Fifo, Consume
  <2>3. (NoMissedWakeup /\ ClosedEmpty)'
    BY <1>6 DEF NoMissedWakeup, ClosedEmpty, Consume, Get, NotifyAll
  <2> QED BY <2>1, <2>2, <2>3
<1>7. ASSUME NEW c \in Consumers, ConsumeBlocks(c) PROVE IInv'
  <2> USE <1>7 DEF ConsumeBlocks, GetBlocks, Sleep
  <2>1. TypeOK' BY DEF TypeOK
  <2>2. Fifo' BY DEF Fifo
  <2>3. NoMissedWakeup' BY DEF NoMissedWakeup, HasRoom, Ready, Drained
  <2>4. ClosedEmpty' BY DEF ClosedEmpty
  <2> QED BY <2>1, <2>2, <2>3, <2>4
<1>8. ASSUME NEW c \in Consumers, ConsumerStops(c) PROVE IInv'
  <2> USE <1>8 DEF ConsumerStops, GetThrows, queueVars
  <2>1. TypeOK' BY DEF TypeOK
  <2>2. Fifo' BY DEF Fifo
  <2>3. NoMissedWakeup' BY DEF NoMissedWakeup, HasRoom, Ready, Drained
  <2>4. ClosedEmpty' BY DEF ClosedEmpty
  <2> QED BY <2>1, <2>2, <2>3, <2>4
<1>9. ASSUME NEW t \in Consumers \cup {Producer}, Wakeup(t) PROVE IInv'
  <2> USE <1>9 DEF Wakeup, SpuriousWakeup
  <2>1. TypeOK' BY DEF TypeOK
  <2>2. Fifo' BY DEF Fifo
  <2>3. NoMissedWakeup' BY DEF NoMissedWakeup, HasRoom, Ready, Drained
  <2>4. ClosedEmpty' BY DEF ClosedEmpty
  <2> QED BY <2>1, <2>2, <2>3, <2>4
<1>10. CASE UNCHANGED vars
  <2> USE <1>10 DEF vars
  <2>1. TypeOK' BY DEF TypeOK
  <2>2. Fifo' BY DEF Fifo
  <2>3. NoMissedWakeup' BY DEF NoMissedWakeup, HasRoom, Ready, Drained
  <2>4. ClosedEmpty' BY DEF ClosedEmpty
  <2> QED BY <2>1, <2>2, <2>3, <2>4
<1> QED
  BY <1>1, <1>2, <1>3, <1>4, <1>5, <1>6, <1>7, <1>8, <1>9, <1>10
  DEF Next, ProducerStep, ConsumerStep, Terminated

(* The inductive invariant of a queue and its clients. *)
LEMMA Inductive == SafetySpec => []IInv
  BY InitInv, StepInv, PTL DEF SafetySpec

(* The queue never exceeds the bound that put() waits for, and every       *)
(* variable keeps its type.                                                *)
THEOREM TypeCorrect == SafetySpec => []TypeOK
  BY Inductive, PTL DEF IInv

(* get() hands out what put() was given, once each and in order.           *)
THEOREM FifoCorrect == SafetySpec => []Fifo
  BY Inductive, PTL DEF IInv

(* No thread is left asleep in cond.wait with its predicate true.          *)
THEOREM WakeupsCorrect == SafetySpec => []NoMissedWakeup
  BY Inductive, PTL DEF IInv

(* The lengths of the two parts of the history add up to what was put. *)
LEMMA HistoryLength == TypeOK /\ Fifo => Len(delivered) + Len(q) = produced
<1> SUFFICES ASSUME TypeOK, Fifo PROVE Len(delivered) + Len(q) = produced
  OBVIOUS
<1>1. Len(delivered \o q) = Len(delivered) + Len(q)
  BY DEF TypeOK
<1>2. Len([i \in 1..produced |-> i]) = produced
  BY ClientsAssumption DEF TypeOK
<1> QED BY <1>1, <1>2 DEF Fifo

(* get() throws NoMoreTasks only when everything put has been taken.       *)
THEOREM StopCorrect == SafetySpec => []StopsOnlyWhenDrained
<1>1. IInv => StopsOnlyWhenDrained
  <2> SUFFICES ASSUME IInv, finished PROVE ppc = "done" /\ Len(delivered) = produced
    BY DEF StopsOnlyWhenDrained
  <2>1. ppc = "done" /\ q = <<>>
    BY DEF IInv, ClosedEmpty
  <2>2. Len(delivered) + Len(q) = produced
    BY HistoryLength DEF IInv
  <2> QED BY <2>1, <2>2 DEF IInv, TypeOK
<1> QED BY <1>1, Inductive, PTL

-----------------------------------------------------------------------------
(* Refinement: every step of the queue and its clients is a step of the    *)
(* stream, or leaves the stream as it is.                                  *)

LEMMA StreamInit == Init => Stream!Init
  BY DEF Init, QueueInit, Stream!Init

LEMMA StreamStep == IInv /\ [Next]_vars => [Stream!Next]_(Stream!streamVars)
<1> SUFFICES ASSUME IInv, [Next]_vars PROVE [Stream!Next]_(Stream!streamVars)
  OBVIOUS
<1> USE ClientsAssumption DEF IInv, Stream!streamVars
<1>1. CASE Produce
  <2>1. ~finished
    BY <1>1 DEF Produce, ClosedEmpty
  <2>2. Stream!Send
    BY <1>1, <2>1 DEF Produce, Put, Stream!Send
  <2> QED BY <2>2 DEF Stream!Next
<1>2. CASE FinishQueue
  <2>1. ~finished
    BY <1>2 DEF FinishQueue, ClosedEmpty
  <2>2. Len(delivered) = produced
    BY <1>2, HistoryLength DEF FinishQueue, Finish, Drained, TypeOK
  <2>3. finished' = TRUE
    BY <1>2 DEF FinishQueue, Finish
  <2>4. Stream!Close
    BY <1>2, <2>1, <2>2, <2>3 DEF FinishQueue, Stream!Close
  <2> QED BY <2>4 DEF Stream!Next
<1>3. ASSUME NEW c \in Consumers, Consume(c) PROVE Stream!Next
  <2>1. q # <<>> /\ q \in Seq(Nat) /\ delivered \in Seq(Nat)
    BY <1>3 DEF Consume, Get, Ready, TypeOK
  <2>2. Len(delivered) < produced
    BY <2>1, HistoryLength DEF TypeOK
  <2>3. Head(q) = Len(delivered) + 1
    <3>1. Head(q) = (delivered \o q)[Len(delivered) + 1]
      BY <2>1
    <3>2. Len(delivered) + 1 \in 1..produced
      BY <2>1, <2>2 DEF TypeOK
    <3> QED BY <3>1, <3>2 DEF Fifo
  <2>4. Stream!Deliver
    BY <1>3, <2>2, <2>3 DEF Consume, Get, Stream!Deliver
  <2> QED BY <2>4 DEF Stream!Next
<1>4. ASSUME NEW c \in Consumers, ConsumerStops(c) PROVE Stream!Next
  <2>1. Stream!Stop(c)
    BY <1>4 DEF ConsumerStops, GetThrows, queueVars, Stream!Stop
  <2> QED BY <2>1 DEF Stream!Next
<1>5. CASE ProduceBlocks \/ NoMoreInput \/ FinishQueueBlocks
  BY <1>5 DEF ProduceBlocks, NoMoreInput, FinishQueueBlocks,
              PutBlocks, FinishBlocks, Sleep, queueVars
<1>6. ASSUME NEW c \in Consumers, ConsumeBlocks(c) PROVE UNCHANGED Stream!streamVars
  BY <1>6 DEF ConsumeBlocks, GetBlocks, Sleep
<1>7. ASSUME NEW t \in Consumers \cup {Producer}, Wakeup(t)
      PROVE  UNCHANGED Stream!streamVars
  BY <1>7 DEF Wakeup, SpuriousWakeup
<1>8. CASE UNCHANGED vars
  BY <1>8 DEF vars
<1> QED
  BY <1>1, <1>2, <1>3, <1>4, <1>5, <1>6, <1>7, <1>8
  DEF Next, ProducerStep, ConsumerStep, Terminated

(* A SyncQueue with its clients implements the stream of tasks, as far as  *)
(* safety goes; that the stream is also delivered is checked by TLC.       *)
THEOREM StreamRefinement ==
  SafetySpec => Stream!Init /\ [][Stream!Next]_(Stream!streamVars)
  BY StreamInit, StreamStep, Inductive, PTL DEF SafetySpec
=============================================================================
