----------------------------- MODULE Merger_proofs -----------------------------
(***************************************************************************)
(* Proofs about the whole merge, for every number of files and whatever    *)
(* is in them, every capacity of the queues, every size of the cache and   *)
(* every scheduling of the three threads.                                  *)
(***************************************************************************)
EXTENDS Merger, WellFoundedInduction, SequenceTheorems, FiniteSetTheorems, TLAPS

EBP == INSTANCE EventBuilder_proofs WITH Frames <- DiskFrames

-----------------------------------------------------------------------------
(* The frames on the disks. *)

LEMMA DiskFrame ==
  ASSUME NEW D \in Disks, NEW f \in Files
  PROVE  /\ D[f] \in Seq(RawFrame) /\ Len(D[f]) \in Nat
         /\ \A n \in 1..Len(D[f]) : FrameAt(D, f, n) \in DiskFrames
<1>1. D[f] \in Seq(RawFrame)
  BY DisksAssumption
<1>2. Len(D[f]) \in Nat /\ DOMAIN D[f] = 1..Len(D[f])
  BY <1>1
<1> QED BY <1>1, <1>2 DEF DiskFrames

(* The builder is given what its own assumptions ask for. *)
LEMMA BuilderAssumptions ==
  /\ CacheSize \in Nat \ {0}
  /\ EventIds \subseteq Nat /\ MaxFrames \in Nat
  /\ \A f \in DiskFrames : f.evt \in EventIds
<1>1. CacheSize \in Nat \ {0} /\ EventIds \subseteq Nat /\ MaxFrames \in Nat
  BY SizesAssumption
<1>2. ASSUME NEW D \in Disks, NEW f \in Files, NEW n \in DOMAIN D[f]
      PROVE  FrameAt(D, f, n).evt \in EventIds
  <2>1. D[f][n] \in RawFrame
    BY DiskFrame
  <2> QED BY <2>1 DEF FrameAt, RawFrame
<1> QED BY <1>1, <1>2 DEF DiskFrames

(* Every nonempty set of natural numbers has a least element. *)
LEMMA Least ==
  ASSUME NEW S, S \subseteq Nat, S # {}
  PROVE  \E m \in S : \A k \in S : m <= k
<1>1. PICK m \in S : \A k \in S : ~(<<k, m>> \in OpToRel(<, Nat))
  BY WFMin, NatLessThanWellFounded
<1>2. ASSUME NEW k \in S, k < m PROVE <<k, m>> \in OpToRel(<, Nat)
  BY <1>2 DEF OpToRel
<1>3. m \in Nat /\ \A k \in S : k \in Nat /\ ~(k < m)
  BY <1>1, <1>2
<1>4. \A k \in S : m <= k
  BY <1>3
<1> QED BY <1>4

-----------------------------------------------------------------------------
(* What the main thread reads and puts. *)

MainOK ==
  /\ disk \in Disks
  /\ mpc \in {"index", "start", "round", "read", "put", "join", "exit", "failed"}
  /\ pos \in [Files -> Nat] /\ \A f \in Files : pos[f] <= Len(disk[f])
  /\ files \subseteq Files /\ isOpen \subseteq Files
  /\ mpc \in {"index", "failed"} \/ filemap \in [Files -> 0..(EvtIdMod - 1)]
  /\ currentEvt \in 0..(EvtIdMod - 1)
  /\ todo \subseteq Files /\ nread \in 0..(FramesPerRound - 1)
  /\ hand \in Seq(DiskFrames) /\ Len(hand) = (IF mpc = "put" THEN 1 ELSE 0)
  /\ fq \in Seq(DiskFrames) /\ Len(fq) <= QueueCapacity
  /\ fqFinished \in BOOLEAN /\ fqWaiting \subseteq {"main", "builder"}

LEMMA MainInit == Init => MainOK
<1> SUFFICES ASSUME Init PROVE MainOK
  OBVIOUS
<1>1. \A f \in Files : Len(disk[f]) \in Nat
  BY DiskFrame DEF Init
<1>2. FramesPerRound \in Nat \ {0} /\ QueueCapacity \in Nat \ {0} /\ EvtIdMod \in Nat \ {0}
  BY SizesAssumption
<1>3. pos \in [Files -> Nat] /\ \A f \in Files : pos[f] <= Len(disk[f])
  BY <1>1 DEF Init
<1>4. 0 \in 0..(EvtIdMod - 1) /\ 0 \in 0..(FramesPerRound - 1) /\ Len(<<>>) <= QueueCapacity
  BY <1>2
<1>5. hand \in Seq(DiskFrames) /\ Len(hand) = 0
  BY DEF Init
<1>6. fq \in Seq(DiskFrames) /\ Len(fq) <= QueueCapacity
  BY <1>2 DEF Init, FQ!QueueInit
<1>7. currentEvt \in 0..(EvtIdMod - 1) /\ nread \in 0..(FramesPerRound - 1)
  BY <1>4 DEF Init
<1>8. fqFinished \in BOOLEAN /\ fqWaiting \subseteq {"main", "builder"}
  BY DEF Init, FQ!QueueInit
<1>9. /\ disk \in Disks /\ mpc = "index"
      /\ files \subseteq Files /\ isOpen \subseteq Files /\ todo \subseteq Files
  BY DEF Init
<1> QED BY <1>3, <1>5, <1>6, <1>7, <1>8, <1>9 DEF MainOK

LEMMA NextEvtOK == ASSUME MainOK PROVE NextEvt \in 0..(EvtIdMod - 1)
<1>1. EvtIdMod \in Nat \ {0} /\ currentEvt + 1 \in Nat
  BY SizesAssumption DEF MainOK
<1> QED BY <1>1 DEF NextEvt

LEMMA LeaveFileOK ==
  ASSUME MainOK, NEW f, LeaveFile(f)
  PROVE  /\ mpc' \in {"round", "read"} /\ nread' \in 0..(FramesPerRound - 1)
         /\ currentEvt' \in 0..(EvtIdMod - 1) /\ todo' \subseteq Files
<1>1. nread' = 0 /\ 0 \in 0..(FramesPerRound - 1)
  BY SizesAssumption DEF LeaveFile
<1> QED BY <1>1, NextEvtOK DEF MainOK, LeaveFile

LEMMA MainStepOK == MainOK /\ [Next]_vars => MainOK'
<1> SUFFICES ASSUME MainOK, [Next]_vars PROVE MainOK'
  OBVIOUS
<1> USE DEF diskVars
<1>1. CASE IndexFiles /\ UNCHANGED fqVars
  BY <1>1 DEF MainOK, IndexFiles, fqVars
<1>2. CASE IndexFails /\ UNCHANGED fqVars
  BY <1>2 DEF MainOK, IndexFails, fqVars
<1>3. CASE StartWorkers /\ UNCHANGED fqVars
  BY <1>3 DEF MainOK, StartWorkers, fqVars
<1>4. CASE StartRound /\ UNCHANGED fqVars
  <2>1. nread' \in 0..(FramesPerRound - 1)
    BY <1>4, SizesAssumption DEF StartRound
  <2>2. currentEvt' \in 0..(EvtIdMod - 1)
    BY <1>4, NextEvtOK DEF StartRound, MainOK
  <2>3. todo' \subseteq Files
    BY <1>4 DEF StartRound, MainOK, FindFilesForEvtId
  <2> QED BY <1>4, <2>1, <2>2, <2>3 DEF MainOK, StartRound, fqVars
<1>5. CASE ReadRawFrame /\ UNCHANGED fqVars
  <2>1. PICK f \in Files : /\ pos[f] < Len(disk[f])
                           /\ hand' = <<FrameAt(disk, f, pos[f] + 1)>>
                           /\ pos' = [pos EXCEPT ![f] = @ + 1]
    BY <1>5 DEF ReadRawFrame
  <2>2. Len(disk[f]) \in Nat /\ pos[f] \in Nat
    BY DiskFrame DEF MainOK
  <2>3. FrameAt(disk, f, pos[f] + 1) \in DiskFrames
    BY <2>1, <2>2, DiskFrame DEF MainOK
  <2>4. pos' \in [Files -> Nat] /\ \A g \in Files : pos'[g] <= Len(disk[g])
    BY <2>1, <2>2 DEF MainOK
  <2>5. hand' \in Seq(DiskFrames) /\ Len(hand') = 1
    BY <2>1, <2>3
  <2> QED BY <1>5, <2>4, <2>5 DEF MainOK, ReadRawFrame, fqVars
<1>6. CASE CloseFile /\ UNCHANGED fqVars
  <2>1. PICK f \in Files : /\ isOpen' = isOpen \ {f} /\ files' = files \ {f}
                           /\ LeaveFile(f)
    BY <1>6 DEF CloseFile
  <2> QED BY <1>6, <2>1, LeaveFileOK DEF MainOK, CloseFile, fqVars
<1>7. CASE Join /\ UNCHANGED fqVars
  BY <1>7 DEF MainOK, Join, fqVars
<1>8. CASE PutFrame
  <2>0. hand \in Seq(DiskFrames) /\ Len(hand) = 1
    BY <1>8 DEF MainOK, PutFrame
  <2>1. hand[1] \in DiskFrames
    BY <2>0
  <2>2. fq' = Append(fq, hand[1]) /\ Len(fq) < QueueCapacity /\ fqWaiting' = {}
        /\ fqFinished' = fqFinished
    BY <1>8 DEF PutFrame, FQ!Put, FQ!HasRoom, FQ!NotifyAll
  <2>3. fq' \in Seq(DiskFrames) /\ Len(fq') <= QueueCapacity
    BY <2>1, <2>2, SizesAssumption DEF MainOK
  <2>4. /\ mpc' \in {"round", "read"} /\ nread' \in 0..(FramesPerRound - 1)
        /\ currentEvt' \in 0..(EvtIdMod - 1) /\ todo' \subseteq Files
    <3>1. CASE Enough(nread + 1)
      BY <3>1, <1>8, LeaveFileOK DEF PutFrame
    <3>2. CASE ~Enough(nread + 1)
      <4>1. nread' = nread + 1 /\ mpc' = "read" /\ UNCHANGED <<currentEvt, todo>>
        BY <3>2, <1>8 DEF PutFrame
      <4>2. nread + 1 # FramesPerRound /\ FramesPerRound \in Nat /\ nread \in 0..(FramesPerRound - 1)
        BY <3>2, SizesAssumption DEF MainOK, Enough
      <4>3. nread + 1 \in 0..(FramesPerRound - 1)
        BY <4>2
      <4> QED BY <4>1, <4>3 DEF MainOK
    <3> QED BY <3>1, <3>2
  <2> QED BY <1>8, <2>2, <2>3, <2>4 DEF MainOK, PutFrame
<1>9. CASE FinishFrames
  BY <1>9 DEF MainOK, FinishFrames, FQ!Finish, FQ!NotifyAll
<1>10. CASE MainWaits
  <2>1. UNCHANGED <<fq, fqFinished>> /\ fqWaiting' = fqWaiting \cup {"main"}
    BY <1>10 DEF MainWaits, FQ!PutBlocks, FQ!FinishBlocks, FQ!Sleep
  <2> QED BY <1>10, <2>1 DEF MainOK, MainWaits, mainVars, loopVars
<1>11. CASE BuilderStep
  <2> USE DEF mainVars, loopVars, fqVars
  <2>1. CASE BuilderTakesFrame
    <3>1. fq # <<>> \/ fqFinished
      BY <2>1 DEF BuilderTakesFrame, FQ!Get, FQ!Ready
    <3>2. fq' = Tail(fq) /\ fqWaiting' = {} /\ fqFinished' = fqFinished /\ fq # <<>>
      BY <2>1 DEF BuilderTakesFrame, FQ!Get, FQ!NotifyAll, FQ!Ready
    <3>3. fq' \in Seq(DiskFrames) /\ Len(fq') <= QueueCapacity
      BY <3>2, SizesAssumption DEF MainOK
    <3> QED BY <1>11, <3>2, <3>3 DEF BuilderStep, MainOK
  <2>2. CASE BuilderSeesNoMoreTasks
    BY <1>11, <2>2 DEF BuilderStep, MainOK, BuilderSeesNoMoreTasks, FQ!GetThrows, FQ!queueVars
  <2>3. CASE BuilderPutsEvent
    BY <1>11, <2>3 DEF BuilderStep, MainOK, BuilderPutsEvent
  <2>4. CASE BuilderFinishesEvents
    BY <1>11, <2>4 DEF BuilderStep, MainOK, BuilderFinishesEvents
  <2>5. CASE BuilderDies
    BY <1>11, <2>5 DEF BuilderStep, MainOK, BuilderDies
  <2>6. CASE BuilderWaits
    <3>1. UNCHANGED <<fq, fqFinished>> /\ fqWaiting' \subseteq fqWaiting \cup {"builder"}
      BY <2>6 DEF BuilderWaits, FQ!GetBlocks, FQ!Sleep
    <3> QED BY <1>11, <3>1 DEF BuilderStep, MainOK
  <2> QED BY <1>11, <2>1, <2>2, <2>3, <2>4, <2>5, <2>6 DEF BuilderStep
<1>12. CASE WriterStep
  BY <1>12 DEF WriterStep, MainOK, mainVars, loopVars, fqVars
<1>13. CASE Wakeup
  <2>1. UNCHANGED <<fq, fqFinished>> /\ fqWaiting' \subseteq fqWaiting
    BY <1>13 DEF Wakeup, FQ!SpuriousWakeup, fqVars
  <2> QED BY <1>13, <2>1 DEF Wakeup, MainOK, mainVars, loopVars
<1>14. CASE UNCHANGED vars
  BY <1>14 DEF vars, MainOK, mainVars, loopVars, fqVars
<1> QED BY <1>1, <1>2, <1>3, <1>4, <1>5, <1>6, <1>7, <1>8, <1>9, <1>10, <1>11, <1>12,
           <1>13, <1>14 DEF Next, MainStep

LEMMA MainInvariant == Spec => []MainOK
  BY MainInit, MainStepOK, PTL DEF Spec

-----------------------------------------------------------------------------
(* The builder among the queues and the other threads. *)

LEMMA BuilderNext == MainOK /\ [Next]_vars => [EB!Next]_(EB!builderVars)
<1> SUFFICES ASSUME MainOK, [Next]_vars PROVE [EB!Next]_(EB!builderVars)
  OBVIOUS
<1> USE DEF builderVars, EB!builderVars
<1>1. CASE MainStep
  BY <1>1 DEF MainStep
<1>2. CASE BuilderStep
  <2>1. CASE BuilderTakesFrame
    <3>1. fq # <<>> /\ EB!TakeFrame(Head(fq))
      BY <2>1 DEF BuilderTakesFrame, FQ!Get, FQ!Ready
    <3>2. fq \in Seq(DiskFrames)
      BY DEF MainOK
    <3>3. Head(fq) \in DiskFrames
      BY <3>1, <3>2
    <3> QED BY <3>1, <3>3 DEF EB!Next
  <2>2. CASE BuilderSeesNoMoreTasks
    BY <2>2 DEF BuilderSeesNoMoreTasks, EB!Next
  <2>3. CASE BuilderPutsEvent
    BY <2>3 DEF BuilderPutsEvent, EB!Next
  <2>4. CASE BuilderFinishesEvents
    BY <2>4 DEF BuilderFinishesEvents, EB!Next
  <2>5. CASE BuilderDies
    BY <2>5 DEF BuilderDies, EB!Next
  <2>6. CASE BuilderWaits
    BY <2>6 DEF BuilderWaits
  <2> QED BY <1>2, <2>1, <2>2, <2>3, <2>4, <2>5, <2>6 DEF BuilderStep
<1>3. CASE WriterStep
  BY <1>3 DEF WriterStep
<1>4. CASE Wakeup
  BY <1>4 DEF Wakeup
<1>5. CASE UNCHANGED vars
  BY <1>5 DEF vars
<1> QED BY <1>1, <1>2, <1>3, <1>4, <1>5 DEF Next

(* Between the two queues the builder behaves as the module EventBuilder   *)
(* says, whatever the files hold and whatever the other threads do: the    *)
(* frames it is given are frames of the disk.                              *)
LEMMA BuilderImplemented == Spec => EB!SafetySpec
<1>1. Init => EB!Init
  BY DEF Init
<1> QED BY <1>1, BuilderNext, MainInvariant, PTL DEF Spec, EB!SafetySpec

LEMMA SameBuilder == EB!SafetySpec <=> EBP!SafetySpec
  BY DEF EB!SafetySpec, EBP!SafetySpec, EB!Init, EBP!Init, EB!CacheInit,
         EBP!CacheInit, EB!Next, EBP!Next, EB!builderVars,
         EBP!builderVars, EB!cacheVars, EBP!cacheVars, EB!TakeFrame,
         EBP!TakeFrame, EB!ThrowOn, EBP!ThrowOn, EB!AppendToCached,
         EBP!AppendToCached, EB!DropLate, EBP!DropLate, EB!StartEvent,
         EBP!StartEvent, EB!StartEventWhenFull, EBP!StartEventWhenFull,
         EB!Evict, EBP!Evict, EB!NoMoreTasks, EBP!NoMoreTasks,
         EB!FlushOldest, EBP!FlushOldest, EB!Close, EBP!Close,
         EB!DivideByZero, EBP!DivideByZero, EB!Terminated,
         EBP!Terminated, EB!Take, EBP!Take, EB!CanTake, EBP!CanTake,
         EB!Number, EBP!Number, EB!WithFrame, EBP!WithFrame,
         EB!NewEvent, EBP!NewEvent, EB!EventWasAlreadyWritten,
         EBP!EventWasAlreadyWritten, EB!ProcessAndOutput,
         EBP!ProcessAndOutput, EB!Oldest, EBP!Oldest, EB!WithoutOldest,
         EBP!WithoutOldest, EB!ForgetOldest, EBP!ForgetOldest,
         EB!Insert, EBP!Insert, EB!Overfull, EBP!Overfull, EB!Cached,
         EBP!Cached, EB!NodeOf, EBP!NodeOf, EB!Splice, EBP!Splice,
         EB!Pair, EBP!Pair

LEMMA BuilderInvariants == Spec => [](EB!TypeOK /\ EB!PublishedOnce)
<1>1. EBP!SafetySpec => [](EBP!TypeOK /\ EBP!PublishedOnce)
  BY EBP!TypeCorrect, EBP!PublishedOnceCorrect, BuilderAssumptions, PTL
<1>2. EBP!TypeOK <=> EB!TypeOK
  BY DEF EB!TypeOK, EBP!TypeOK, EB!Event, EBP!Event
<1>3. EBP!PublishedOnce <=> EB!PublishedOnce
  BY DEF EB!PublishedOnce, EBP!PublishedOnce
<1> QED BY <1>1, <1>2, <1>3, SameBuilder, BuilderImplemented, PTL

-----------------------------------------------------------------------------
(* Three sequences in a row: what one gives up the next one takes.         *)

LEMMA HeadAndTail ==
  ASSUME NEW S, NEW s \in Seq(S), s # <<>>
  PROVE  s = <<Head(s)>> \o Tail(s) /\ Head(s) \in S /\ Tail(s) \in Seq(S)
<1>1. Len(s) \in Nat \ {0} /\ Head(s) = s[1]
  OBVIOUS
<1>2. SubSeq(s, 1, Len(s)) = <<s[1]>> \o SubSeq(s, 2, Len(s))
  BY <1>1, SubSeqRecursiveFirst
<1> QED BY <1>1, <1>2, SubSeqFull, TailIsSubSeq, HeadTailProperties

LEMMA OneElement ==
  ASSUME NEW S, NEW s \in Seq(S), Len(s) = 1
  PROVE  s = <<s[1]>> /\ s[1] \in S
<1>1. s[1] \in S
  OBVIOUS
<1>2. <<s[1]>> \in Seq(S) /\ Len(<<s[1]>>) = 1 /\ <<s[1]>>[1] = s[1]
  BY <1>1
<1> QED BY <1>1, <1>2, SeqEqual

LEMMA Enters ==
  ASSUME NEW S, NEW a \in Seq(S), NEW b \in Seq(S), NEW c \in Seq(S), NEW e \in S
  PROVE  a \o b \o Append(c, e) = Append(a \o b \o c, e)
<1>1. a \o b \in Seq(S) /\ <<e>> \in Seq(S)
  BY ConcatProperties
<1>2. (a \o b) \o (c \o <<e>>) = ((a \o b) \o c) \o <<e>>
  BY <1>1, ConcatAssociative
<1>3. a \o b \o c \in Seq(S)
  BY <1>1, ConcatProperties
<1> QED BY <1>2, <1>3, AppendIsConcat

LEMMA Queued ==
  ASSUME NEW S, NEW a \in Seq(S), NEW b \in Seq(S), NEW e \in S
  PROVE  a \o Append(b, e) \o <<>> = a \o b \o <<e>>
<1>1. /\ a \o b \in Seq(S) /\ <<e>> \in Seq(S) /\ Append(b, e) \in Seq(S)
      /\ a \o Append(b, e) \in Seq(S)
  BY ConcatProperties, AppendProperties
<1>2. (a \o b) \o <<e>> = a \o (b \o <<e>>)
  BY <1>1, ConcatAssociative
<1> QED BY <1>1, <1>2, AppendIsConcat, ConcatEmptySeq

LEMMA MovesOn ==
  ASSUME NEW S, NEW a \in Seq(S), NEW b \in Seq(S), NEW c \in Seq(S), b # <<>>
  PROVE  Append(a, Head(b)) \o Tail(b) \o c = a \o b \o c
<1>1. b = <<Head(b)>> \o Tail(b) /\ Head(b) \in S /\ Tail(b) \in Seq(S)
  BY HeadAndTail
<1>2. <<Head(b)>> \in Seq(S)
  BY <1>1
<1>3. (a \o <<Head(b)>>) \o Tail(b) = a \o (<<Head(b)>> \o Tail(b))
  BY <1>1, <1>2, ConcatAssociative
<1> QED BY <1>1, <1>3, AppendIsConcat

-----------------------------------------------------------------------------
(* The frames from the files to the builder. *)

(* What FramesConserved says of the frames fs on their way, when p[f]      *)
(* frames of each file f have been read.                                   *)
Conserved(D, fs, p) ==
  /\ \A i \in DOMAIN fs : \E f \in Files : \E n \in 1..p[f] : fs[i] = FrameAt(D, f, n)
  /\ \A f \in Files : \A n \in 1..p[f] : \E i \in DOMAIN fs : fs[i] = FrameAt(D, f, n)
  /\ \A i, j \in DOMAIN fs : (i < j /\ fs[i].file = fs[j].file) => fs[i].n < fs[j].n

LEMMA ReadConserves ==
  ASSUME NEW D, NEW fs \in Seq(DiskFrames), NEW p \in [Files -> Nat], Conserved(D, fs, p),
         NEW f \in Files, FrameAt(D, f, p[f] + 1) \in DiskFrames
  PROVE  Conserved(D, Append(fs, FrameAt(D, f, p[f] + 1)), [p EXCEPT ![f] = @ + 1])
<1> DEFINE new == FrameAt(D, f, p[f] + 1)
           gs == Append(fs, new)
           q == [p EXCEPT ![f] = @ + 1]
<1>1. /\ Len(fs) \in Nat /\ DOMAIN fs = 1..Len(fs) /\ DOMAIN gs = 1..(Len(fs) + 1)
      /\ \A i \in DOMAIN fs : gs[i] = fs[i]
      /\ gs[Len(fs) + 1] = new
  BY AppendProperties, LenProperties
<1>2. /\ q[f] = p[f] + 1 /\ p[f] \in Nat
      /\ \A g \in Files : p[g] \in Nat /\ 1..p[g] \subseteq 1..q[g]
      /\ \A g \in Files \ {f} : q[g] = p[g]
  OBVIOUS
<1>3. new.file = f /\ new.n = p[f] + 1
  BY DEF FrameAt
<1> HIDE DEF new, gs, q
<1>4. ASSUME NEW i \in DOMAIN gs
      PROVE  \E g \in Files : \E n \in 1..q[g] : gs[i] = FrameAt(D, g, n)
  <2>1. CASE i \in DOMAIN fs
    <3>1. PICK g \in Files : \E n \in 1..p[g] : fs[i] = FrameAt(D, g, n)
      BY <2>1 DEF Conserved
    <3> QED BY <2>1, <3>1, <1>1, <1>2
  <2>2. CASE i = Len(fs) + 1
    <3>1. p[f] + 1 \in 1..q[f] /\ gs[i] = FrameAt(D, f, p[f] + 1)
      BY <2>2, <1>1, <1>2 DEF new
    <3> QED BY <3>1
  <2> QED BY <2>1, <2>2, <1>1
<1>5. ASSUME NEW g \in Files, NEW n \in 1..q[g]
      PROVE  \E i \in DOMAIN gs : gs[i] = FrameAt(D, g, n)
  <2>1. CASE n \in 1..p[g]
    <3>1. PICK i \in DOMAIN fs : fs[i] = FrameAt(D, g, n)
      BY <2>1 DEF Conserved
    <3> QED BY <3>1, <1>1
  <2>2. CASE n \notin 1..p[g]
    <3>1. g = f /\ n = p[f] + 1
      BY <2>2, <1>2
    <3>2. Len(fs) + 1 \in DOMAIN gs
      BY <1>1
    <3> QED BY <3>1, <3>2, <1>1 DEF new
  <2> QED BY <2>1, <2>2
<1>6. ASSUME NEW i \in DOMAIN gs, NEW j \in DOMAIN gs, i < j, gs[i].file = gs[j].file
      PROVE  gs[i].n < gs[j].n
  <2>1. i \in DOMAIN fs /\ gs[i] = fs[i]
    BY <1>1, <1>6
  <2>2. CASE j \in DOMAIN fs
    BY <2>1, <2>2, <1>1, <1>6 DEF Conserved
  <2>3. CASE j = Len(fs) + 1
    <3>0. PICK g \in Files : \E n \in 1..p[g] : fs[i] = FrameAt(D, g, n)
      BY <2>1 DEF Conserved
    <3>1. PICK n \in 1..p[g] : fs[i] = FrameAt(D, g, n)
      BY <3>0
    <3>2. gs[i].file = g /\ gs[i].n = n
      BY <3>1, <2>1 DEF FrameAt
    <3>3. g = f /\ gs[j].n = p[f] + 1
      BY <3>2, <2>3, <1>1, <1>3, <1>6
    <3> QED BY <3>2, <3>3, <1>2
  <2> QED BY <2>2, <2>3, <1>1
<1>7. Conserved(D, gs, q)
  BY <1>4, <1>5, <1>6 DEF Conserved
<1> QED BY <1>7 DEF gs, q, new

LEMMA FramesAre == FramesConserved <=> (bpc # "aborted" => Conserved(disk, OnTheirWay, pos))
  BY DEF FramesConserved, Conserved

(* A step of the merge either reads one frame, or leaves the frames on     *)
(* their way as they are and reads none, or ends the process.              *)
LEMMA FramesStep ==
  ASSUME MainOK, EB!TypeOK, [Next]_vars
  PROVE  /\ disk' = disk /\ (bpc = "aborted" => bpc' = "aborted")
         /\ \/ bpc' = "aborted"
            \/ UNCHANGED <<OnTheirWay, pos>>
            \/ \E f \in Files :
                 /\ FrameAt(disk, f, pos[f] + 1) \in DiskFrames
                 /\ OnTheirWay' = Append(OnTheirWay, FrameAt(disk, f, pos[f] + 1))
                 /\ pos' = [pos EXCEPT ![f] = @ + 1]
<1> DEFINE Kept == UNCHANGED <<disk, pos, arrived, fq, hand>>
           Done == /\ disk' = disk /\ (bpc = "aborted" => bpc' = "aborted")
                   /\ UNCHANGED <<OnTheirWay, pos>>
<1>0. arrived \in Seq(DiskFrames) /\ fq \in Seq(DiskFrames) /\ hand \in Seq(DiskFrames)
  BY DEF MainOK, EB!TypeOK
<1>1. /\ arrived \in Seq(DiskFrames) /\ fq \in Seq(DiskFrames) /\ hand \in Seq(DiskFrames)
      /\ mpc # "put" => hand = <<>>
  BY <1>0 DEF MainOK
<1>2. ASSUME Kept, bpc = "aborted" => bpc' = "aborted" PROVE Done
  BY <1>2 DEF OnTheirWay
<1>3. CASE MainStep
  <2>1. UNCHANGED <<arrived, bpc>> /\ disk' = disk
    BY <1>3 DEF MainStep, builderVars, PutFrame, FinishFrames, MainWaits, IndexFiles, IndexFails,
         StartWorkers, StartRound, ReadRawFrame, CloseFile, Join, diskVars, mainVars
  <2>2. CASE PutFrame
    <3>1. fq' = Append(fq, hand[1]) /\ hand' = <<>> /\ pos' = pos
      BY <2>2 DEF PutFrame, FQ!Put, diskVars
    <3>2. hand = <<hand[1]>> /\ hand[1] \in DiskFrames
      BY <1>1, <2>2, OneElement DEF MainOK, PutFrame
    <3>3. OnTheirWay' = arrived \o Append(fq, hand[1]) \o <<>>
      BY <3>1, <2>1 DEF OnTheirWay
    <3>4. arrived \o Append(fq, hand[1]) \o <<>> = arrived \o fq \o <<hand[1]>>
      BY <3>2, <1>1, Queued
    <3>5. OnTheirWay' = OnTheirWay
      BY <3>2, <3>3, <3>4 DEF OnTheirWay
    <3> QED BY <2>1, <3>1, <3>5
  <2>3. CASE ReadRawFrame /\ UNCHANGED fqVars
    <3>1. PICK f \in Files : /\ pos[f] < Len(disk[f])
                             /\ hand' = <<FrameAt(disk, f, pos[f] + 1)>>
                             /\ pos' = [pos EXCEPT ![f] = @ + 1]
      BY <2>3 DEF ReadRawFrame
    <3>2. pos[f] + 1 \in 1..Len(disk[f])
      BY <3>1, DiskFrame DEF MainOK
    <3>3. FrameAt(disk, f, pos[f] + 1) \in DiskFrames
      BY <3>2, DiskFrame DEF MainOK
    <3>4. fq' = fq /\ hand = <<>> /\ Append(hand, FrameAt(disk, f, pos[f] + 1)) = hand'
      BY <2>3, <3>1, <1>1 DEF ReadRawFrame, fqVars
    <3> DEFINE new == FrameAt(disk, f, pos[f] + 1)
    <3> HIDE DEF new
    <3>5. arrived \o fq \o Append(hand, new) = Append(arrived \o fq \o hand, new)
      BY <3>3, <1>1, Enters DEF new
    <3>6. OnTheirWay' = arrived \o fq \o Append(hand, new)
      BY <2>1, <3>4 DEF OnTheirWay, new
    <3>7. OnTheirWay' = Append(OnTheirWay, FrameAt(disk, f, pos[f] + 1))
      BY <3>5, <3>6 DEF OnTheirWay, new
    <3> QED BY <2>1, <3>1, <3>3, <3>7
  <2>4. CASE FinishFrames \/ MainWaits
    BY <1>2, <2>1, <2>4 DEF FinishFrames, MainWaits, FQ!Finish, FQ!PutBlocks, FQ!FinishBlocks,
         FQ!Sleep, mainVars, loopVars, diskVars
  <2>5. CASE /\ IndexFiles \/ IndexFails \/ StartWorkers \/ StartRound \/ CloseFile \/ Join
             /\ UNCHANGED fqVars
    BY <1>2, <2>1, <2>5 DEF IndexFiles, IndexFails, StartWorkers, StartRound, CloseFile, Join,
         fqVars, diskVars
  <2> QED BY <1>3, <2>2, <2>3, <2>4, <2>5 DEF MainStep
<1>4. CASE BuilderStep
  <2>1. UNCHANGED <<disk, pos, hand>> /\ bpc # "aborted"
    BY <1>4 DEF BuilderStep, Running, Alive, mainVars, diskVars, loopVars
  <2>2. CASE BuilderTakesFrame
    <3>1. fq # <<>> /\ fq' = Tail(fq) /\ EB!TakeFrame(Head(fq))
      BY <2>2 DEF BuilderTakesFrame, FQ!Get, FQ!Ready
    <3>2. bpc' = "aborted" \/ arrived' = Append(arrived, Head(fq))
      BY <3>1 DEF EB!TakeFrame, EB!ThrowOn, EB!AppendToCached, EB!DropLate, EB!StartEvent,
           EB!StartEventWhenFull, EB!Take
    <3>3. CASE arrived' = Append(arrived, Head(fq))
      <4>1. OnTheirWay' = OnTheirWay
        BY <2>1, <3>1, <3>3, <1>1, MovesOn DEF OnTheirWay
      <4> QED BY <2>1, <4>1
    <3> QED BY <2>1, <3>2, <3>3
  <2>3. CASE BuilderSeesNoMoreTasks \/ BuilderFinishesEvents \/ BuilderDies \/ BuilderWaits
    <3>1. UNCHANGED <<arrived, fq>>
      BY <2>3 DEF BuilderSeesNoMoreTasks, BuilderFinishesEvents, BuilderDies, BuilderWaits,
           EB!NoMoreTasks, EB!Close, EB!DivideByZero, FQ!GetThrows, FQ!GetBlocks, FQ!Sleep,
           FQ!queueVars, fqVars, builderVars
    <3> QED BY <1>2, <2>1, <3>1
  <2>4. CASE BuilderPutsEvent
    <3>1. UNCHANGED <<arrived, fq>>
      BY <2>4 DEF BuilderPutsEvent, EB!Evict, EB!FlushOldest, fqVars
    <3> QED BY <1>2, <2>1, <3>1
  <2> QED BY <1>4, <2>2, <2>3, <2>4 DEF BuilderStep
<1>5. CASE WriterStep
  BY <1>2, <1>5 DEF WriterStep, mainVars, diskVars, loopVars, fqVars, builderVars
<1>6. CASE Wakeup
  BY <1>2, <1>6 DEF Wakeup, FQ!SpuriousWakeup, mainVars, diskVars, loopVars, fqVars, builderVars
<1>7. CASE UNCHANGED vars
  BY <1>2, <1>7 DEF vars, mainVars, diskVars, loopVars, fqVars, builderVars
<1> QED BY <1>3, <1>4, <1>5, <1>6, <1>7 DEF Next

(* No frame is lost, duplicated or overtaken between its file and the      *)
(* builder.                                                                *)
THEOREM FramesConservedCorrect == Spec => []FramesConserved
<1>1. Init => FramesConserved
  BY DEF Init, FramesConserved, OnTheirWay, EB!Init, FQ!QueueInit
<1>2. MainOK /\ EB!TypeOK /\ FramesConserved /\ [Next]_vars => FramesConserved'
  <2> SUFFICES ASSUME MainOK, EB!TypeOK, FramesConserved, [Next]_vars, bpc' # "aborted"
               PROVE  Conserved(disk, OnTheirWay', pos')
    BY FramesStep DEF FramesConserved, Conserved
  <2>1. Conserved(disk, OnTheirWay, pos)
    BY FramesStep, FramesAre
  <2>2. CASE UNCHANGED <<OnTheirWay, pos>>
    BY <2>1, <2>2
  <2>3. CASE \E f \in Files :
               /\ FrameAt(disk, f, pos[f] + 1) \in DiskFrames
               /\ OnTheirWay' = Append(OnTheirWay, FrameAt(disk, f, pos[f] + 1))
               /\ pos' = [pos EXCEPT ![f] = @ + 1]
    <3>1. OnTheirWay \in Seq(DiskFrames) /\ pos \in [Files -> Nat]
      BY ConcatProperties DEF OnTheirWay, MainOK, EB!TypeOK
    <3>2. PICK f \in Files :
               /\ FrameAt(disk, f, pos[f] + 1) \in DiskFrames
               /\ OnTheirWay' = Append(OnTheirWay, FrameAt(disk, f, pos[f] + 1))
               /\ pos' = [pos EXCEPT ![f] = @ + 1]
      BY <2>3
    <3>3. Conserved(disk, Append(OnTheirWay, FrameAt(disk, f, pos[f] + 1)),
                    [pos EXCEPT ![f] = @ + 1])
      BY <2>1, <3>1, <3>2, ReadConserves
    <3> QED BY <3>2, <3>3
  <2> QED BY <2>2, <2>3, FramesStep
<1> QED BY <1>1, <1>2, MainInvariant, BuilderInvariants, PTL DEF Spec

-----------------------------------------------------------------------------
(* The events from the builder to the output file. *)

WriterOK ==
  /\ eq \in Seq(EB!Event) /\ Len(eq) <= QueueCapacity
  /\ eqFinished \in BOOLEAN /\ eqWaiting \subseteq {"builder", "writer"}
  /\ wpc \in {"get", "write", "done", "aborted"}
  /\ wevt \in Seq(EB!Event) /\ Len(wevt) = (IF wpc \in {"write", "aborted"} THEN 1 ELSE 0)
  /\ handled \in Seq(EB!Event) /\ saved \subseteq Nat

(* A dataset is named after an event the writer is through with. *)
SavedHandled == saved \subseteq {handled[i].eventId : i \in DOMAIN handled}

EventsInv == WriterOK /\ EventsConserved /\ SavedHandled

LEMMA EventsInit == Init => EventsInv
<1> SUFFICES ASSUME Init PROVE EventsInv
  OBVIOUS
<1>1. out = <<>> /\ handled = <<>> /\ wevt = <<>> /\ eq = <<>> /\ saved = {} /\ wpc = "get"
      /\ eqFinished = FALSE /\ eqWaiting = {}
  BY DEF Init, EB!Init, EQ!QueueInit
<1>2. Len(eq) <= QueueCapacity /\ Len(wevt) = 0
  BY <1>1, SizesAssumption
<1>3. /\ eq \in Seq(EB!Event) /\ wevt \in Seq(EB!Event) /\ handled \in Seq(EB!Event)
      /\ handled \o wevt \o eq = <<>>
  BY <1>1, EmptySeq, ConcatEmptySeq
<1>4. WriterOK
  <2>1. eqFinished \in BOOLEAN /\ eqWaiting \subseteq {"builder", "writer"} /\ saved \subseteq Nat
    BY <1>1
  <2>2. Len(wevt) = (IF wpc \in {"write", "aborted"} THEN 1 ELSE 0)
    BY <1>1, <1>2
  <2>3. wpc \in {"get", "write", "done", "aborted"}
    BY <1>1
  <2> QED BY <1>2, <1>3, <2>1, <2>2, <2>3 DEF WriterOK
<1>5. EventsConserved
  BY <1>1, <1>3 DEF EventsConserved
<1>6. SavedHandled
  BY <1>1 DEF SavedHandled
<1> QED BY <1>4, <1>5, <1>6 DEF EventsInv

(* The writer is through with the event in hand. *)
LEMMA HandleOK ==
  ASSUME EventsInv, wpc = "write", Handle, UNCHANGED out,
         saved' = saved \/ saved' = saved \cup {wevt[1].eventId}
  PROVE  EventsInv'
<1>1. /\ wevt \in Seq(EB!Event) /\ Len(wevt) = 1 /\ handled \in Seq(EB!Event)
      /\ eq \in Seq(EB!Event)
  BY DEF EventsInv, WriterOK
<1>2. wevt = <<wevt[1]>> /\ wevt[1] \in EB!Event
  BY <1>1, OneElement
<1>0. Head(wevt) = wevt[1] /\ wevt # <<>>
  <2>1. ASSUME wevt = <<>> PROVE FALSE
    BY <1>1, <2>1
  <2> QED BY <2>1
<1>3. handled' = Append(handled, wevt[1]) /\ wevt' = <<>> /\ wpc' = "get"
      /\ UNCHANGED <<eq, eqFinished, eqWaiting>>
  BY DEF Handle, eqVars
<1>4. handled' \in Seq(EB!Event) /\ wevt' \in Seq(EB!Event) /\ Len(wevt') = 0
  BY <1>1, <1>2, <1>3
<1>5. handled' \o wevt' \o eq' = handled \o wevt \o eq
  <2>1. Tail(wevt) \in Seq(EB!Event) /\ Len(Tail(wevt)) = 0
    BY <1>0, <1>1, HeadTailProperties
  <2>2. Tail(wevt) = <<>>
    BY <2>1, EmptySeq
  <2>3. Append(handled, Head(wevt)) \o Tail(wevt) \o eq = handled \o wevt \o eq
    BY <1>0, <1>1, MovesOn
  <2> QED BY <1>0, <1>3, <2>2, <2>3
<1>6. saved' \subseteq {handled'[i].eventId : i \in DOMAIN handled'}
  <2>1. /\ DOMAIN handled \subseteq DOMAIN handled' /\ Len(handled) + 1 \in DOMAIN handled'
        /\ \A i \in DOMAIN handled : handled'[i] = handled[i]
        /\ handled'[Len(handled) + 1] = wevt[1]
    BY <1>1, <1>2, <1>3
  <2> QED BY <2>1 DEF EventsInv, SavedHandled
<1>7. wevt[1].eventId \in Nat
  BY <1>2 DEF EB!Event
<1>8. WriterOK'
  <2>1. eq' \in Seq(EB!Event) /\ Len(eq') <= QueueCapacity /\ eqWaiting' \subseteq {"builder", "writer"}
    BY <1>3 DEF EventsInv, WriterOK
  <2>2. eqFinished' \in BOOLEAN
    BY <1>3 DEF EventsInv, WriterOK
  <2>3. Len(wevt') = (IF wpc' \in {"write", "aborted"} THEN 1 ELSE 0)
    BY <1>3, <1>4
  <2>4. saved' \subseteq Nat
    BY <1>7 DEF EventsInv, WriterOK
  <2>5. wpc' \in {"get", "write", "done", "aborted"}
    BY <1>3
  <2> QED BY <1>4, <2>1, <2>2, <2>3, <2>4, <2>5 DEF WriterOK
<1>9. EventsConserved'
  BY <1>5 DEF EventsInv, EventsConserved
<1> QED BY <1>6, <1>8, <1>9 DEF EventsInv, SavedHandled

LEMMA EventsStep == EB!TypeOK /\ EventsInv /\ [Next]_vars => EventsInv'
<1> SUFFICES ASSUME EB!TypeOK, EventsInv, [Next]_vars PROVE EventsInv'
  OBVIOUS
<1>1. /\ handled \in Seq(EB!Event) /\ wevt \in Seq(EB!Event) /\ eq \in Seq(EB!Event)
      /\ wpc \in {"get", "done"} => wevt = <<>>
  <2>1. handled \in Seq(EB!Event) /\ wevt \in Seq(EB!Event) /\ eq \in Seq(EB!Event)
    BY DEF EventsInv, WriterOK
  <2> QED BY <2>1 DEF EventsInv, WriterOK
<1>2. ASSUME UNCHANGED <<eq, eqFinished, out, wpc, wevt, handled, saved>>,
             eqWaiting' \subseteq {"builder", "writer"}
      PROVE  EventsInv'
  BY <1>2 DEF EventsInv, WriterOK, EventsConserved, SavedHandled
<1>3. eqWaiting \subseteq {"builder", "writer"}
  BY DEF EventsInv, WriterOK
<1>4. CASE MainStep
  BY <1>2, <1>3, <1>4 DEF MainStep, builderVars, eqVars, writerVars
<1>5. CASE BuilderStep
  <2>1. UNCHANGED <<wpc, wevt, handled, saved>>
    BY <1>5 DEF BuilderStep, writerVars
  <2>2. CASE BuilderTakesFrame
    <3>1. EB!TakeFrame(Head(fq)) /\ UNCHANGED eqVars
      BY <2>2 DEF BuilderTakesFrame
    <3>2. UNCHANGED out
      BY <3>1 DEF EB!TakeFrame, EB!ThrowOn, EB!AppendToCached, EB!DropLate, EB!StartEvent,
           EB!StartEventWhenFull
    <3> QED BY <1>2, <1>3, <2>1, <3>1, <3>2 DEF eqVars
  <2>3. CASE BuilderSeesNoMoreTasks \/ BuilderDies
    BY <1>2, <1>3, <2>1, <2>3 DEF BuilderSeesNoMoreTasks, BuilderDies, EB!NoMoreTasks,
         EB!DivideByZero, eqVars
  <2>4. CASE BuilderPutsEvent
    <3> DEFINE v == EB!Oldest.value
    <3>1. /\ itemList # <<>> /\ eq' = Append(eq, v) /\ Len(eq) < QueueCapacity
          /\ eqWaiting' = {} /\ eqFinished' = eqFinished
      BY <2>4 DEF BuilderPutsEvent, EQ!Put, EQ!HasRoom, EQ!NotifyAll
    <3>2. out' = Append(out, v)
      BY <2>4 DEF BuilderPutsEvent, EB!Evict, EB!FlushOldest, EB!ProcessAndOutput
    <3>3. itemList \in Seq([key : EventIds, value : EB!Event])
      BY DEF EB!TypeOK
    <3> DEFINE Node == [key : EventIds, value : EB!Event]
    <3>4. itemList[Len(itemList)] \in Node
      <4> HIDE DEF Node
      <4>1. itemList \in Seq(Node)
        BY <3>3 DEF Node
      <4>2. Len(itemList) \in 1..Len(itemList)
        BY <4>1, <3>1, EmptySeq
      <4> QED BY <4>1, <4>2, ElementOfSeq
    <3>5. v \in EB!Event
      BY <3>4 DEF EB!Oldest
    <3> HIDE DEF v
    <3>6. eq' \in Seq(EB!Event) /\ Len(eq') = Len(eq) + 1 /\ Len(eq) \in Nat
      BY <1>1, <3>1, <3>5
    <3>7. handled \o wevt \o Append(eq, v) = Append(handled \o wevt \o eq, v)
      BY <1>1, <3>5, Enters
    <3>8. out' = handled \o wevt \o eq'
      BY <3>1, <3>2, <3>7 DEF EventsInv, EventsConserved
    <3>9. Len(eq') <= QueueCapacity
      BY <3>1, <3>6, SizesAssumption
    <3> QED BY <2>1, <3>1, <3>6, <3>8, <3>9 DEF EventsInv, WriterOK, EventsConserved, SavedHandled
  <2>5. CASE BuilderFinishesEvents
    <3>1. UNCHANGED <<eq, out>> /\ eqFinished' = TRUE /\ eqWaiting' = {}
      BY <2>5 DEF BuilderFinishesEvents, EQ!Finish, EQ!NotifyAll, EB!Close
    <3> QED BY <2>1, <3>1 DEF EventsInv, WriterOK, EventsConserved, SavedHandled
  <2>6. CASE BuilderWaits
    <3>1. UNCHANGED <<eq, eqFinished, out>> /\ eqWaiting' \subseteq eqWaiting \cup {"builder"}
      BY <2>6 DEF BuilderWaits, EQ!PutBlocks, EQ!FinishBlocks, EQ!Sleep, eqVars, builderVars
    <3> QED BY <1>2, <1>3, <2>1, <3>1
  <2> QED BY <1>5, <2>2, <2>3, <2>4, <2>5, <2>6 DEF BuilderStep
<1>6. CASE WriterStep
  <2>1. UNCHANGED out
    BY <1>6 DEF WriterStep, builderVars
  <2>2. CASE WriterGets
    <3>1. /\ wpc = "get" /\ eq # <<>> /\ eq' = Tail(eq) /\ wevt' = <<Head(eq)>> /\ wpc' = "write"
          /\ eqWaiting' = {} /\ UNCHANGED <<eqFinished, handled, saved>>
      BY <2>2 DEF WriterGets, EQ!Get, EQ!Ready, EQ!NotifyAll
    <3>2. eq = <<Head(eq)>> \o Tail(eq) /\ Head(eq) \in EB!Event /\ Tail(eq) \in Seq(EB!Event)
      BY <1>1, <3>1, HeadAndTail
    <3>3. wevt' \in Seq(EB!Event) /\ Len(wevt') = 1
      BY <3>1, <3>2
    <3>4. handled \o wevt = handled /\ wevt = <<>>
      BY <1>1, <3>1, ConcatEmptySeq
    <3>5. (handled \o <<Head(eq)>>) \o Tail(eq) = handled \o (<<Head(eq)>> \o Tail(eq))
      BY <1>1, <3>1, <3>2, <3>3, ConcatAssociative
    <3>6. handled' \o wevt' \o eq' = handled \o wevt \o eq
      BY <3>1, <3>2, <3>4, <3>5
    <3>7. Len(eq') = Len(eq) - 1 /\ Len(eq) \in Nat
      BY <1>1, <3>1, HeadTailProperties
    <3>8. Len(eq') <= QueueCapacity
      BY <3>7, SizesAssumption DEF EventsInv, WriterOK
    <3> QED BY <2>1, <3>1, <3>2, <3>3, <3>6, <3>8
            DEF EventsInv, WriterOK, EventsConserved, SavedHandled
  <2>3. CASE WriterWaits
    <3>1. UNCHANGED <<eq, eqFinished, wpc, wevt, handled, saved>>
          /\ eqWaiting' \subseteq eqWaiting \cup {"writer"}
      BY <2>3 DEF WriterWaits, EQ!GetBlocks, EQ!Sleep, writerVars
    <3> QED BY <1>2, <1>3, <2>1, <3>1
  <2>4. CASE WriterStops
    <3>1. wpc = "get" /\ wpc' = "done" /\ UNCHANGED <<eq, eqFinished, eqWaiting, wevt, handled, saved>>
      BY <2>4 DEF WriterStops, EQ!GetThrows, EQ!queueVars
    <3> QED BY <2>1, <3>1 DEF EventsInv, WriterOK, EventsConserved, SavedHandled
  <2>5. CASE WriteEvent
    BY <2>1, <2>5, HandleOK DEF WriteEvent
  <2>6. CASE WriteSkipped
    BY <2>1, <2>6, HandleOK DEF WriteSkipped
  <2>7. CASE WriterDies
    BY <2>1, <2>7 DEF WriterDies, eqVars, EventsInv, WriterOK, EventsConserved, SavedHandled
  <2> QED BY <1>6, <2>2, <2>3, <2>4, <2>5, <2>6, <2>7 DEF WriterStep
<1>7. CASE Wakeup
  <2>1. UNCHANGED <<eq, eqFinished>> /\ eqWaiting' \subseteq eqWaiting
    BY <1>7 DEF Wakeup, EQ!SpuriousWakeup, eqVars
  <2> QED BY <1>2, <1>3, <1>7, <2>1 DEF Wakeup, builderVars, writerVars
<1>8. CASE UNCHANGED vars
  BY <1>2, <1>3, <1>8 DEF vars, builderVars, eqVars, writerVars
<1> QED BY <1>4, <1>5, <1>6, <1>7, <1>8 DEF Next

LEMMA EventsInvariant == Spec => []EventsInv
  BY EventsInit, EventsStep, BuilderInvariants, PTL DEF Spec

(* Every variable of the merge keeps its type, and neither queue ever      *)
(* holds more than its capacity.                                           *)
THEOREM TypeCorrect == Spec => []TypeOK
<1>1. MainOK /\ EB!TypeOK /\ EventsInv => TypeOK
  BY DEF MainOK, EventsInv, WriterOK, TypeOK
<1> QED BY <1>1, MainInvariant, BuilderInvariants, EventsInvariant, PTL

(* No event is lost, duplicated or reordered between the builder and the   *)
(* writer.                                                                 *)
THEOREM EventsConservedCorrect == Spec => []EventsConserved
  BY EventsInvariant, PTL DEF EventsInv

(* The writer never asks for a dataset name it has used: the builder puts  *)
(* no event id twice, the queue keeps the events apart, and the names      *)
(* there are belong to events before the one in hand.                      *)
THEOREM NoNameCollisionCorrect == Spec => []NoNameCollision
<1>1. EB!TypeOK /\ EB!PublishedOnce /\ EventsInv => NoNameCollision
  <2> SUFFICES ASSUME EB!PublishedOnce, EventsInv, wpc = "write", wevt[1].eventId \in saved
               PROVE  FALSE
    BY DEF NoNameCollision
  <2>1. PICK i \in DOMAIN handled : handled[i].eventId = wevt[1].eventId
    BY DEF EventsInv, SavedHandled
  <2>2. /\ handled \in Seq(EB!Event) /\ wevt \in Seq(EB!Event) /\ eq \in Seq(EB!Event)
        /\ Len(wevt) = 1 /\ Len(handled) \in Nat /\ i \in 1..Len(handled)
        /\ Len(eq) \in Nat
    BY DEF EventsInv, WriterOK
  <2> DEFINE seen == handled \o wevt
  <2>3. /\ seen \in Seq(EB!Event) /\ Len(seen) = Len(handled) + 1
        /\ seen[i] = handled[i] /\ seen[Len(handled) + 1] = wevt[1]
    <3>1. /\ seen \in Seq(EB!Event) /\ Len(seen) = Len(handled) + Len(wevt)
          /\ \A j \in 1..(Len(handled) + Len(wevt)) :
               seen[j] = IF j <= Len(handled) THEN handled[j] ELSE wevt[j - Len(handled)]
      BY <2>2, ConcatProperties
    <3> QED BY <2>2, <3>1
  <2>4. /\ DOMAIN out = 1..(Len(handled) + 1 + Len(eq))
        /\ \A j \in 1..(Len(handled) + 1) : out[j] = seen[j]
    <3> HIDE DEF seen
    <3>1. /\ seen \o eq \in Seq(EB!Event) /\ Len(seen \o eq) = Len(seen) + Len(eq)
          /\ \A j \in 1..(Len(seen) + Len(eq)) :
               (seen \o eq)[j] = IF j <= Len(seen) THEN seen[j] ELSE eq[j - Len(seen)]
      BY <2>2, <2>3, ConcatProperties
    <3>2. out = seen \o eq
      BY DEF EventsInv, EventsConserved, seen
    <3> QED BY <2>2, <2>3, <3>1, <3>2
  <2>5. /\ i \in DOMAIN out /\ Len(handled) + 1 \in DOMAIN out /\ i # Len(handled) + 1
        /\ out[i].eventId = out[Len(handled) + 1].eventId
    BY <2>1, <2>2, <2>3, <2>4
  <2> QED BY <2>5 DEF EB!PublishedOnce
<1> QED BY <1>1, BuilderInvariants, EventsInvariant, PTL

-----------------------------------------------------------------------------
(* The end of the merge. *)

(* How the end travels: the files are exhausted, the frame queue is        *)
(* drained and finished, the builder flushes and finishes the event queue  *)
(* once it is drained, and the writer stops.                               *)
FilesDrained ==
  /\ \A f \in Files \ files : pos[f] = Len(disk[f])
  /\ mpc \in {"join", "exit"} => files = {}
FramesDrained ==
  /\ fqFinished <=> mpc \in {"join", "exit"}
  /\ fqFinished => fq = <<>>
  /\ bpc \in {"flush", "done"} => fqFinished
EventsDrained ==
  /\ eqFinished <=> bpc = "done"
  /\ eqFinished => eq = <<>>
  /\ wpc = "done" => eqFinished
  /\ mpc = "exit" => bpc = "done" /\ wpc = "done"
DrainInv == FilesDrained /\ FramesDrained /\ EventsDrained

LEMMA DrainInit == Init => DrainInv
  BY DEF Init, EB!Init, FQ!QueueInit, EQ!QueueInit, DrainInv, FilesDrained, FramesDrained,
     EventsDrained

LEMMA DrainStep == MainOK /\ DrainInv /\ [Next]_vars => DrainInv'
<1> SUFFICES ASSUME MainOK, DrainInv, [Next]_vars PROVE DrainInv'
  OBVIOUS
<1>1. CASE MainStep
  <2>1. UNCHANGED <<bpc, eq, eqFinished, wpc>> /\ bpc # "aborted" /\ wpc # "aborted"
    BY <1>1 DEF MainStep, builderVars, eqVars, writerVars, Alive
  <2>2. CASE /\ IndexFiles \/ IndexFails \/ StartWorkers
             /\ UNCHANGED fqVars
    BY <2>1, <2>2 DEF IndexFiles, IndexFails, StartWorkers, fqVars, diskVars, DrainInv,
       FilesDrained, FramesDrained, EventsDrained
  <2>3. CASE StartRound /\ UNCHANGED fqVars
    BY <2>1, <2>3 DEF StartRound, fqVars, diskVars, DrainInv, FilesDrained, FramesDrained,
       EventsDrained
  <2>4. CASE ReadRawFrame /\ UNCHANGED fqVars
    <3>1. PICK f \in Files : pos[f] < Len(disk[f]) /\ pos' = [pos EXCEPT ![f] = @ + 1]
      BY <2>4 DEF ReadRawFrame
    <3>2. f \in files
      <4>1. Len(disk[f]) \in Nat
        BY DiskFrame DEF MainOK
      <4> QED BY <3>1, <4>1 DEF DrainInv, FilesDrained
    <3>3. \A g \in Files \ files : pos'[g] = pos[g]
      BY <3>1, <3>2 DEF MainOK
    <3>4. FilesDrained'
      BY <2>4, <3>3 DEF ReadRawFrame, DrainInv, FilesDrained
    <3> QED BY <2>1, <2>4, <3>4 DEF ReadRawFrame, fqVars, DrainInv, FramesDrained, EventsDrained
  <2>5. CASE CloseFile /\ UNCHANGED fqVars
    <3>1. PICK f \in Files : pos[f] = Len(disk[f]) /\ files' = files \ {f} /\ LeaveFile(f)
      BY <2>5 DEF CloseFile
    <3>2. mpc = "read" /\ mpc' \in {"read", "round"} /\ UNCHANGED <<disk, pos, fq, fqFinished>>
      BY <2>5, <3>1 DEF CloseFile, LeaveFile, fqVars
    <3> QED BY <2>1, <3>1, <3>2 DEF DrainInv, FilesDrained, FramesDrained, EventsDrained
  <2>6. CASE Join /\ UNCHANGED fqVars
    BY <2>1, <2>6 DEF Join, fqVars, diskVars, DrainInv, FilesDrained, FramesDrained, EventsDrained
  <2>7. CASE PutFrame
    <3>1. mpc = "put" /\ mpc' \in {"read", "round"} /\ fqFinished' = fqFinished
          /\ UNCHANGED <<disk, pos, files>>
      BY <2>7 DEF PutFrame, LeaveFile, FQ!Put, diskVars
    <3> QED BY <2>1, <3>1 DEF DrainInv, FilesDrained, FramesDrained, EventsDrained
  <2>8. CASE FinishFrames
    <3>1. mpc = "round" /\ files = {} /\ fq = <<>> /\ fq' = fq /\ fqFinished' = TRUE /\ mpc' = "join"
          /\ UNCHANGED <<disk, pos, files>>
      BY <2>8 DEF FinishFrames, FQ!Finish, FQ!Drained, diskVars
    <3> QED BY <2>1, <3>1 DEF DrainInv, FilesDrained, FramesDrained, EventsDrained
  <2>9. CASE MainWaits
    <3>1. UNCHANGED <<disk, pos, files, mpc, fq, fqFinished>>
      BY <2>9 DEF MainWaits, FQ!PutBlocks, FQ!FinishBlocks, FQ!Sleep, mainVars, diskVars, loopVars
    <3> QED BY <2>1, <3>1 DEF DrainInv, FilesDrained, FramesDrained, EventsDrained
  <2> QED BY <1>1, <2>2, <2>3, <2>4, <2>5, <2>6, <2>7, <2>8, <2>9 DEF MainStep
<1>2. CASE BuilderStep
  <2>1. UNCHANGED <<disk, pos, files, mpc, wpc>> /\ bpc # "aborted"
    BY <1>2 DEF BuilderStep, Running, Alive, mainVars, diskVars, loopVars, writerVars
  <2>2. CASE BuilderTakesFrame
    <3>1. bpc = "get" /\ ~fqFinished /\ fqFinished' = fqFinished /\ UNCHANGED <<eq, eqFinished>>
          /\ EB!TakeFrame(Head(fq))
      BY <2>2 DEF BuilderTakesFrame, FQ!Get, eqVars
    <3>2. bpc' \in {"get", "evict", "aborted"}
      BY <3>1 DEF EB!TakeFrame, EB!ThrowOn, EB!AppendToCached, EB!DropLate, EB!StartEvent,
         EB!StartEventWhenFull
    <3> QED BY <2>1, <3>1, <3>2 DEF DrainInv, FilesDrained, FramesDrained, EventsDrained
  <2>3. CASE BuilderSeesNoMoreTasks
    <3>1. bpc = "get" /\ bpc' = "flush" /\ fqFinished /\ UNCHANGED <<fq, fqFinished, eq, eqFinished>>
      BY <2>3 DEF BuilderSeesNoMoreTasks, FQ!GetThrows, FQ!queueVars, EB!NoMoreTasks, eqVars
    <3> QED BY <2>1, <3>1 DEF DrainInv, FilesDrained, FramesDrained, EventsDrained
  <2>4. CASE BuilderPutsEvent
    <3>1. /\ bpc \in {"evict", "flush"} /\ bpc' \in {"get", "flush"} /\ (bpc' = "flush" => bpc = "flush")
          /\ eqFinished' = eqFinished /\ UNCHANGED <<fq, fqFinished>>
      BY <2>4 DEF BuilderPutsEvent, EQ!Put, EB!Evict, EB!FlushOldest, fqVars
    <3> QED BY <2>1, <3>1 DEF DrainInv, FilesDrained, FramesDrained, EventsDrained
  <2>5. CASE BuilderFinishesEvents
    <3>1. /\ bpc = "flush" /\ bpc' = "done" /\ eq = <<>> /\ eq' = eq /\ eqFinished' = TRUE
          /\ UNCHANGED <<fq, fqFinished>>
      BY <2>5 DEF BuilderFinishesEvents, EQ!Finish, EQ!Drained, EB!Close, fqVars
    <3> QED BY <2>1, <3>1 DEF DrainInv, FilesDrained, FramesDrained, EventsDrained
  <2>6. CASE BuilderDies
    <3>1. bpc \in {"evict", "flush"} /\ bpc' = "aborted" /\ UNCHANGED <<fq, fqFinished, eq, eqFinished>>
      BY <2>6 DEF BuilderDies, EB!DivideByZero, fqVars, eqVars
    <3> QED BY <2>1, <3>1 DEF DrainInv, FilesDrained, FramesDrained, EventsDrained
  <2>7. CASE BuilderWaits
    <3>1. UNCHANGED <<bpc, fq, fqFinished, eq, eqFinished>>
      BY <2>7 DEF BuilderWaits, FQ!GetBlocks, FQ!Sleep, EQ!PutBlocks, EQ!FinishBlocks, EQ!Sleep,
         fqVars, eqVars, builderVars
    <3> QED BY <2>1, <3>1 DEF DrainInv, FilesDrained, FramesDrained, EventsDrained
  <2> QED BY <1>2, <2>2, <2>3, <2>4, <2>5, <2>6, <2>7 DEF BuilderStep
<1>3. CASE WriterStep
  <2>1. UNCHANGED <<disk, pos, files, mpc, fq, fqFinished, bpc>>
    BY <1>3 DEF WriterStep, mainVars, diskVars, loopVars, fqVars, builderVars
  <2>2. CASE WriterGets
    <3>1. ~eqFinished /\ eqFinished' = eqFinished /\ wpc = "get" /\ wpc' = "write"
      BY <2>2 DEF WriterGets, EQ!Get
    <3> QED BY <2>1, <3>1 DEF DrainInv, FilesDrained, FramesDrained, EventsDrained
  <2>3. CASE WriterStops
    <3>1. eqFinished /\ UNCHANGED <<eq, eqFinished>> /\ wpc = "get" /\ wpc' = "done"
      BY <2>3 DEF WriterStops, EQ!GetThrows, EQ!queueVars
    <3> QED BY <2>1, <3>1 DEF DrainInv, FilesDrained, FramesDrained, EventsDrained
  <2>4. CASE WriterWaits \/ WriteEvent \/ WriteSkipped \/ WriterDies
    <3>1. UNCHANGED <<eq, eqFinished>> /\ wpc # "done" /\ wpc' # "done"
      BY <2>4 DEF WriterWaits, WriteEvent, WriteSkipped, WriterDies, Handle, EQ!GetBlocks,
         EQ!Sleep, eqVars, writerVars
    <3> QED BY <2>1, <3>1 DEF DrainInv, FilesDrained, FramesDrained, EventsDrained
  <2> QED BY <1>3, <2>2, <2>3, <2>4 DEF WriterStep
<1>4. ASSUME UNCHANGED <<disk, pos, files, mpc, fq, fqFinished, bpc, eq, eqFinished, wpc>>
      PROVE  DrainInv'
  BY <1>4 DEF DrainInv, FilesDrained, FramesDrained, EventsDrained
<1>5. CASE Wakeup
  BY <1>4, <1>5 DEF Wakeup, FQ!SpuriousWakeup, EQ!SpuriousWakeup, mainVars, diskVars, loopVars,
     fqVars, eqVars, builderVars, writerVars
<1>6. CASE UNCHANGED vars
  BY <1>4, <1>6 DEF vars, mainVars, diskVars, loopVars, fqVars, eqVars, builderVars, writerVars
<1> QED BY <1>1, <1>2, <1>3, <1>5, <1>6 DEF Next

LEMMA BuilderFiled == Spec => [](EBP!ClosedEmpty /\ EBP!EachFiled)
<1>1. EBP!SafetySpec => [](EBP!ClosedEmpty /\ EBP!EachFiled)
  BY EBP!ClosedEmptyHolds, EBP!EachFiledCorrect, BuilderAssumptions, PTL
<1> QED BY <1>1, SameBuilder, BuilderImplemented, PTL

(* When the merge returns, every frame of every file has gone all the way: *)
(* its event has been handled by the writer, and holds it unless it came   *)
(* too late.                                                               *)
THEOREM CompleteAtExitCorrect == Spec => []CompleteAtExit
<1>1. ASSUME MainOK, EB!TypeOK, EventsInv, DrainInv, FramesConserved, EBP!ClosedEmpty,
             EBP!EachFiled, mpc = "exit"
      PROVE  CompleteAtExit
  <2>1. bpc = "done" /\ wpc = "done" /\ fqFinished /\ eqFinished /\ files = {}
    BY <1>1 DEF DrainInv, FilesDrained, FramesDrained, EventsDrained
  <2>2. fq = <<>> /\ eq = <<>> /\ itemList = <<>>
    BY <1>1, <2>1 DEF DrainInv, FramesDrained, EventsDrained, EBP!ClosedEmpty
  <2>3. hand \in Seq(DiskFrames) /\ Len(hand) = 0 /\ wevt \in Seq(EB!Event) /\ Len(wevt) = 0
    BY <1>1, <2>1 DEF MainOK, EventsInv, WriterOK
  <2>4. hand = <<>> /\ wevt = <<>>
    BY <2>3, EmptySeq
  <2>5. out = handled
    <3>1. handled \in Seq(EB!Event)
      BY <1>1 DEF EventsInv, WriterOK
    <3> QED BY <1>1, <2>2, <2>4, <3>1, ConcatEmptySeq DEF EventsInv, EventsConserved
  <2>6. OnTheirWay = arrived
    <3>1. arrived \in Seq(DiskFrames)
      BY <1>1 DEF EB!TypeOK
    <3> QED BY <2>2, <2>4, <3>1, ConcatEmptySeq DEF OnTheirWay
  <2>7. ASSUME NEW f \in Files, NEW n \in DOMAIN disk[f]
        PROVE  \E t \in DOMAIN arrived, i \in DOMAIN handled :
                 /\ arrived[t] = FrameAt(disk, f, n)
                 /\ handled[i].eventId = disk[f][n].evt
                 /\ t \in late \/ \E k \in DOMAIN handled[i].frames : handled[i].frames[k] = t
    <3>1. n \in 1..pos[f]
      <4>1. disk \in Disks
        BY <1>1 DEF MainOK
      <4>2. n \in 1..Len(disk[f])
        BY <4>1, DiskFrame
      <4> QED BY <1>1, <2>1, <4>2 DEF DrainInv, FilesDrained
    <3>2. PICK t \in DOMAIN arrived : arrived[t] = FrameAt(disk, f, n)
      BY <1>1, <2>1, <2>6, <3>1 DEF FramesConserved
    <3>3. PICK i \in DOMAIN out :
            /\ out[i].eventId = arrived[t].evt
            /\ t \in late \/ \E k \in DOMAIN out[i].frames : out[i].frames[k] = t
      BY <1>1, <2>1 DEF EBP!EachFiled
    <3>4. arrived[t].evt = disk[f][n].evt
      BY <3>2 DEF FrameAt
    <3> QED BY <2>5, <3>2, <3>3, <3>4
  <2>8. \A i \in DOMAIN handled : handled[i].frames # <<>>
    BY <1>1, <2>1, <2>5 DEF EBP!EachFiled
  <2> QED BY <2>2, <2>5, <2>7, <2>8 DEF CompleteAtExit
<1>2. MainOK /\ EB!TypeOK /\ EventsInv /\ DrainInv /\ FramesConserved /\ EBP!ClosedEmpty
        /\ EBP!EachFiled => CompleteAtExit
  BY <1>1 DEF CompleteAtExit
<1>3. Spec => []DrainInv
  BY DrainInit, DrainStep, MainInvariant, PTL DEF Spec
<1> QED BY <1>2, <1>3, MainInvariant, BuilderInvariants, EventsInvariant, FramesConservedCorrect,
           BuilderFiled, PTL

-----------------------------------------------------------------------------
(* The rounds of the main thread. *)

Reading == mpc \in {"read", "put"}

(* In a round that takes each file f from first[f] to next[f]: the files   *)
(* still to be read are where the round found them, but for the one whose  *)
(* turn it is; those that have been left have been read to next.           *)
Placed(first, next) ==
  /\ todo \subseteq isOpen
  /\ mpc = "put" => IsCurrent(hand[1].file)
  /\ \A f \in isOpen :
       IF f \in todo
       THEN /\ next[f] = first[f] + FramesPerRound
            /\ pos[f] = first[f] + (IF IsCurrent(f) THEN nread + Len(hand) ELSE 0)
       ELSE pos[f] = next[f]

(* It is one file's turn at a time. *)
LEMMA OneCurrent ==
  ASSUME MainOK, mpc \notin {"index", "failed"}, NEW f, NEW g, IsCurrent(f), IsCurrent(g)
  PROVE  f = g
<1>1. f \in Files /\ g \in Files /\ filemap[f] \in Nat /\ filemap[g] \in Nat
  <2>1. f \in Files /\ g \in Files /\ filemap \in [Files -> 0..(EvtIdMod - 1)]
    BY DEF IsCurrent, MainOK
  <2> QED BY <2>1
<1>2. f \in Nat /\ g \in Nat
  BY <1>1, SizesAssumption
<1> QED BY <1>1, <1>2 DEF IsCurrent, ComesFirst

(* The main thread leaves the file whose turn it is, read as far as next   *)
(* or to its end and closed.                                               *)
LEMMA LeavesFile ==
  ASSUME MainOK, MainOK', NEW first \in [Files -> Nat], NEW next \in [Files -> Nat],
         Reading, Placed(first, next), NEW f, IsCurrent(f), LeaveFile(f),
         UNCHANGED <<pos, filemap>>,
         \/ isOpen' = isOpen /\ pos[f] = next[f]
         \/ isOpen' = isOpen \ {f}
  PROVE  \/ Reading' /\ Placed(first, next)' /\ UNCHANGED currentEvt
         \/ /\ mpc' = "round" /\ currentEvt' = NextEvt
            /\ \A g \in isOpen' : pos'[g] = next[g]
<1>1. /\ todo' = todo \ {f} /\ nread' = 0
      /\ IF todo' = {} THEN mpc' = "round" /\ currentEvt' = NextEvt
                       ELSE mpc' = "read" /\ UNCHANGED currentEvt
  BY DEF LeaveFile
<1>2. ASSUME NEW g \in isOpen'
      PROVE  /\ g \in isOpen /\ pos'[g] = pos[g]
             /\ g \notin todo' => pos[g] = next[g]
             /\ g \in todo' => next[g] = first[g] + FramesPerRound /\ pos[g] = first[g]
  <2>1. g \in isOpen /\ g \in Files /\ first[g] \in Nat
    BY <1>2 DEF MainOK
  <2>2. CASE g \in todo'
    <3>1. ~IsCurrent(g)
      BY <2>2, <1>1, OneCurrent DEF Reading
    <3> QED BY <3>1, <2>1, <2>2, <1>1 DEF Placed
  <2>3. CASE g \notin todo'
    <3>1. g \notin todo \/ (g = f /\ pos[f] = next[f])
      BY <2>3, <1>1, <1>2
    <3> QED BY <3>1, <2>1, <2>3 DEF Placed
  <2> QED BY <2>1, <2>2, <2>3
<1>3. todo' \subseteq isOpen'
  BY <1>1 DEF Placed
<1>4. CASE todo' = {}
  BY <1>1, <1>2, <1>4
<1>5. CASE todo' # {}
  <2>1. mpc' = "read" /\ UNCHANGED currentEvt
    BY <1>1, <1>5
  <2>2. nread' + Len(hand') = 0
    BY <1>1, <2>1 DEF MainOK
  <2>3. Placed(first, next)'
    BY <1>1, <1>2, <1>3, <2>1, <2>2 DEF Placed, MainOK
  <2> QED BY <2>1, <2>3 DEF Reading
<1> QED BY <1>4, <1>5

(* What a step does while a round is under way. *)
LEMMA RoundStep ==
  ASSUME MainOK, MainOK', [Next]_vars, Reading,
         NEW first \in [Files -> Nat], NEW next \in [Files -> Nat], Placed(first, next)
  PROVE  /\ UNCHANGED <<disk, filemap>> /\ isOpen' \subseteq isOpen
         /\ files = isOpen => files' = isOpen'
         /\ \A f \in isOpen \ isOpen' : pos'[f] <= next[f]
         /\ \A f \in Files \ isOpen : pos'[f] = pos[f]
         /\ \/ Reading' /\ Placed(first, next)' /\ UNCHANGED currentEvt
            \/ /\ mpc' = "round" /\ currentEvt' = NextEvt /\ todo # {}
               /\ \A f \in isOpen' : pos'[f] = next[f]
         /\ todo' \subseteq todo
<1>1. ASSUME UNCHANGED mainVars
      PROVE  /\ UNCHANGED <<disk, filemap, files, isOpen, pos, currentEvt, todo>>
             /\ Reading' /\ Placed(first, next)'
  BY <1>1 DEF mainVars, diskVars, loopVars, Reading, Placed, IsCurrent
<1>2. CASE ReadRawFrame
  <2>1. PICK f \in Files : /\ IsCurrent(f)
                           /\ hand' = <<FrameAt(disk, f, pos[f] + 1)>>
                           /\ pos' = [pos EXCEPT ![f] = @ + 1]
    BY <1>2 DEF ReadRawFrame
  <2>2. /\ mpc = "read" /\ mpc' = "put"
        /\ UNCHANGED <<disk, isOpen, files, filemap, currentEvt, todo, nread>>
    BY <1>2 DEF ReadRawFrame
  <2>3. /\ Len(hand) = 0 /\ Len(hand') = 1 /\ hand'[1].file = f
        /\ pos'[f] = pos[f] + 1 /\ \A g \in Files \ {f} : pos'[g] = pos[g]
    BY <2>1, <2>2 DEF MainOK, FrameAt
  <2>4. \A g : IsCurrent(g)' <=> IsCurrent(g)
    BY <2>2 DEF IsCurrent
  <2>5. ASSUME NEW g \in isOpen', g \in todo'
        PROVE  /\ next[g] = first[g] + FramesPerRound
               /\ pos'[g] = first[g] + (IF IsCurrent(g)' THEN nread' + Len(hand') ELSE 0)
    <3>1. g \in Files /\ first[g] \in Nat /\ nread \in Nat /\ pos[g] \in Nat
      BY <2>2, <2>5 DEF MainOK
    <3>2. /\ next[g] = first[g] + FramesPerRound
          /\ pos[g] = first[g] + (IF IsCurrent(g) THEN nread + Len(hand) ELSE 0)
      BY <2>2, <2>5 DEF Placed
    <3>3. CASE g = f
      BY <3>1, <3>2, <3>3, <2>1, <2>2, <2>3, <2>4
    <3>4. CASE g # f
      <4>1. ~IsCurrent(g)
        BY <3>4, <2>1, <2>2, OneCurrent
      <4> QED BY <4>1, <3>1, <3>2, <3>4, <2>3, <2>4
    <3> QED BY <3>3, <3>4
  <2>6. \A g \in Files : g \notin todo => pos'[g] = pos[g]
    BY <2>1, <2>3 DEF IsCurrent
  <2>7. Placed(first, next)'
    <3>1. ASSUME NEW g \in isOpen', g \notin todo' PROVE pos'[g] = next[g]
      BY <3>1, <2>2, <2>6 DEF Placed, MainOK
    <3>2. IsCurrent(hand[1].file)'
      BY <2>1, <2>3, <2>4
    <3> QED BY <2>2, <2>5, <3>1, <3>2 DEF Placed
  <2>8. \A g \in Files \ isOpen : pos'[g] = pos[g]
    BY <2>6 DEF Placed
  <2> QED BY <2>2, <2>7, <2>8 DEF Reading
<1>3. CASE CloseFile
  <2>1. PICK f \in Files : /\ IsCurrent(f) /\ isOpen' = isOpen \ {f} /\ files' = files \ {f}
                           /\ LeaveFile(f)
    BY <1>3 DEF CloseFile
  <2>2. UNCHANGED <<disk, pos, filemap, hand>> /\ mpc = "read"
    BY <1>3 DEF CloseFile
  <2>3. \/ Reading' /\ Placed(first, next)' /\ UNCHANGED currentEvt
        \/ /\ mpc' = "round" /\ currentEvt' = NextEvt
           /\ \A g \in isOpen' : pos'[g] = next[g]
    BY <2>1, <2>2, LeavesFile
  <2>4. pos[f] <= next[f]
    <3>1. f \in todo /\ f \in isOpen
      BY <2>1 DEF IsCurrent, Placed
    <3>2. pos[f] = first[f] + nread + Len(hand) /\ next[f] = first[f] + FramesPerRound
      BY <3>1, <2>1 DEF Placed, MainOK
    <3>3. Len(hand) = 0 /\ nread \in 0..(FramesPerRound - 1) /\ first[f] \in Nat
          /\ FramesPerRound \in Nat
      BY <2>1, <2>2, SizesAssumption DEF MainOK
    <3> QED BY <3>2, <3>3
  <2>5. todo # {} /\ todo' \subseteq todo
    BY <2>1 DEF IsCurrent, LeaveFile
  <2> QED BY <2>1, <2>2, <2>3, <2>4, <2>5
<1>4. CASE PutFrame
  <2> DEFINE f == hand[1].file
  <2>1. /\ mpc = "put" /\ hand' = <<>>
        /\ UNCHANGED <<disk, pos, isOpen, files, filemap>>
        /\ IF Enough(nread + 1) THEN LeaveFile(f)
           ELSE nread' = nread + 1 /\ mpc' = "read" /\ UNCHANGED <<currentEvt, todo>>
    BY <1>4 DEF PutFrame, diskVars
  <2>2. IsCurrent(f) /\ f \in todo /\ f \in isOpen /\ f \in Files
    BY <2>1 DEF Placed, IsCurrent, MainOK
  <2> HIDE DEF f
  <2>3. /\ Len(hand) = 1 /\ Len(hand') = 0 /\ nread \in Nat
        /\ \A g \in Files : first[g] \in Nat
    BY <2>1 DEF MainOK
  <2>4. CASE Enough(nread + 1)
    <3>1. pos[f] = next[f]
      BY <2>2, <2>3, <2>4 DEF Placed, Enough
    <3>2. LeaveFile(f)
      BY <2>1, <2>4
    <3>3. \/ Reading' /\ Placed(first, next)' /\ UNCHANGED currentEvt
          \/ /\ mpc' = "round" /\ currentEvt' = NextEvt
             /\ \A g \in isOpen' : pos'[g] = next[g]
      BY <2>1, <2>2, <3>1, <3>2, LeavesFile
    <3>4. todo' \subseteq todo
      BY <3>2 DEF LeaveFile
    <3> QED BY <2>1, <2>2, <3>3, <3>4
  <2>5. CASE ~Enough(nread + 1)
    <3>1. nread' = nread + 1 /\ mpc' = "read" /\ UNCHANGED <<currentEvt, todo>>
      BY <2>1, <2>5
    <3>2. nread' + Len(hand') = nread + Len(hand)
      BY <2>3, <3>1
    <3>3. \A g : IsCurrent(g)' <=> IsCurrent(g)
      BY <2>1, <3>1 DEF IsCurrent
    <3>4. Placed(first, next)'
      BY <2>1, <3>1, <3>2, <3>3 DEF Placed
    <3> QED BY <2>1, <3>1, <3>4 DEF Reading
  <2> QED BY <2>4, <2>5
<1>5. CASE \/ MainWaits \/ BuilderStep \/ WriterStep \/ Wakeup \/ UNCHANGED vars
  <2>1. UNCHANGED mainVars
    BY <1>5 DEF MainWaits, BuilderStep, WriterStep, Wakeup, vars
  <2> QED BY <2>1, <1>1 DEF MainOK
<1>6. ~(IndexFiles \/ IndexFails \/ StartWorkers \/ StartRound \/ FinishFrames \/ Join)
  BY DEF Reading, IndexFiles, IndexFails, StartWorkers, StartRound, FinishFrames, Join
<1> QED BY <1>2, <1>3, <1>4, <1>5, <1>6 DEF Next, MainStep

-----------------------------------------------------------------------------
(* The files are read in step. *)

(* How far a file has been read when the round of the event id e starts. *)
At(f, e) == IF filemap[f] >= e THEN 0 ELSE FramesPerRound * (e - filemap[f])

StepInv ==
  /\ files = isOpen
  /\ mpc = "index" => currentEvt = 0 /\ \A f \in Files : pos[f] = 0
  /\ mpc \in {"start", "round"} => \A f \in isOpen : pos[f] = At(f, currentEvt)
  /\ Reading =>
       /\ \A f \in todo : filemap[f] <= currentEvt
       /\ Placed([f \in Files |-> At(f, currentEvt)], [f \in Files |-> At(f, currentEvt + 1)])

LEMMA AtProperties ==
  ASSUME MainOK, mpc \notin {"index", "failed"}, NEW f \in Files, NEW e \in Nat
  PROVE  /\ At(f, e) \in Nat
         /\ filemap[f] \in Nat
         /\ filemap[f] <= e => At(f, e + 1) = At(f, e) + FramesPerRound
         /\ filemap[f] > e => At(f, e + 1) = At(f, e)
         /\ filemap[f] <= e => At(f, e) = FramesPerRound * (e - filemap[f])
<1>1. filemap[f] \in Nat
  <2>1. filemap \in [Files -> 0..(EvtIdMod - 1)]
    BY DEF MainOK
  <2> QED BY <2>1
<1>2. PICK m \in Nat : m = filemap[f]
  BY <1>1
<1>3. FramesPerRound \in Nat \ {0}
  BY SizesAssumption
<1>4. ASSUME m <= e
      PROVE  /\ FramesPerRound * (e - m) \in Nat
             /\ FramesPerRound * ((e + 1) - m) = FramesPerRound * (e - m) + FramesPerRound
  <2>1. e - m \in Nat /\ (e + 1) - m = (e - m) + 1
    BY <1>4
  <2>2. ASSUME NEW k \in Nat
        PROVE  /\ FramesPerRound * k \in Nat
               /\ FramesPerRound * (k + 1) = FramesPerRound * k + FramesPerRound
    BY <1>3
  <2> QED BY <2>1, <2>2
<1>5. CASE m <= e
  <2>1. CASE m = e
    <3>1. At(f, e) = 0 /\ At(f, e + 1) = FramesPerRound * ((e + 1) - m)
      BY <1>2, <2>1 DEF At
    <3>2. FramesPerRound * (e - m) = 0
      BY <2>1, <1>3
    <3> QED BY <1>1, <1>2, <1>3, <1>4, <1>5, <2>1, <3>1, <3>2
  <2>2. CASE m < e
    <3>1. At(f, e) = FramesPerRound * (e - m) /\ At(f, e + 1) = FramesPerRound * ((e + 1) - m)
      BY <1>2, <2>2 DEF At
    <3> QED BY <1>1, <1>2, <1>4, <1>5, <2>2, <3>1
  <2> QED BY <1>5, <2>1, <2>2
<1>6. CASE m > e
  <2>1. At(f, e) = 0 /\ At(f, e + 1) = 0
    BY <1>2, <1>6 DEF At
  <2> QED BY <1>1, <1>2, <1>6, <2>1
<1> QED BY <1>5, <1>6

(* As long as a listed file has a place in the order, the current id does  *)
(* not wrap around.                                                        *)
LEMMA NextEvtIs ==
  ASSUME MainOK, NoWrap, mpc \notin {"index", "failed"}, NEW f \in Files,
         pos[f] >= At(f, currentEvt)
  PROVE  NextEvt = currentEvt + 1
<1> DEFINE m == filemap[f]
           l == Len(disk[f])
           s == FramesPerRound
           q == l \div s
           e == currentEvt
<1>1. /\ e \in Nat /\ EvtIdMod \in Nat \ {0} /\ s \in Nat \ {0} /\ m \in Nat
      /\ At(f, e) \in Nat
      /\ m <= e => At(f, e) = s * (e - m)
  <2>1. e \in Nat /\ EvtIdMod \in Nat \ {0} /\ s \in Nat \ {0}
    BY SizesAssumption DEF MainOK
  <2> QED BY <2>1, AtProperties
<1>2. pos[f] \in Nat /\ pos[f] <= l /\ l \in Nat
  BY DiskFrame DEF MainOK
<1>3. m + q + 1 < EvtIdMod
  BY DEF NoWrap
<1>9. NextEvt = (e + 1) % EvtIdMod
  BY DEF NextEvt
<1>10. q = l \div s
  OBVIOUS
<1>11. At(f, e) <= pos[f]
  OBVIOUS
<1> HIDE DEF m, l, s, q, e
<1>4. At(f, e) <= l
  BY <1>1, <1>2, <1>11
<1>5. q \in Nat /\ l < s * (q + 1)
  <2>1. q \in Nat /\ q = l \div s /\ l % s < s /\ l = s * (l \div s) + (l % s)
        /\ l % s \in Nat
    BY <1>1, <1>2, <1>10
  <2>2. s * (q + 1) = s * q + s
    BY <1>1, <2>1
  <2>4. \A x \in Nat : s * x \in Nat
    BY <1>1
  <2>3. s * q \in Nat
    BY <2>1, <2>4
  <2> QED BY <1>1, <1>2, <2>1, <2>2, <2>3
<1>6. e <= m + q
  <2>1. CASE m <= e
    <3>1. PICK k \in Nat : e - m = k
      BY <1>1, <2>1
    <3>2. s * k <= l
      BY <1>1, <1>4, <2>1, <3>1
    <3>3. k < q + 1
      <4>1. s * k \in Nat /\ s * (q + 1) \in Nat
        BY <1>1, <1>5
      <4>2. s * k < s * (q + 1)
        BY <1>2, <1>5, <3>2, <4>1
      <4> QED BY <1>1, <1>5, <4>2
    <3> QED BY <1>1, <1>5, <2>1, <3>1, <3>3
  <2>2. CASE e < m
    BY <1>1, <1>5, <2>2
  <2> QED BY <1>1, <2>1, <2>2
<1>7. e + 1 \in Nat /\ e + 1 < EvtIdMod
  BY <1>1, <1>3, <1>5, <1>6
<1>8. (e + 1) % EvtIdMod = e + 1
  BY <1>1, <1>7
<1> QED BY <1>8, <1>9 DEF e

LEMMA StepInvInit == Init => StepInv
  BY DEF Init, StepInv, Reading

Indexing == mpc \in {"index", "failed"}

LEMMA StepInvStep ==
  (Indexing \/ NoWrap) /\ MainOK /\ MainOK' /\ StepInv /\ [Next]_vars => StepInv'
<1> SUFFICES ASSUME Indexing \/ NoWrap, MainOK, MainOK', StepInv, [Next]_vars PROVE StepInv'
  OBVIOUS
<1>10. Reading \/ mpc = "round" => NoWrap
  BY DEF Reading, Indexing
<1>0. currentEvt \in Nat
  BY SizesAssumption DEF MainOK
<1>1. ASSUME UNCHANGED mainVars PROVE StepInv'
  BY <1>1, SMTT(30) DEF mainVars, diskVars, loopVars, StepInv, Reading, Placed, IsCurrent, At
<1>2. CASE Reading
  <2>1. PICK e \in Nat : e = currentEvt
    BY <1>0
  <2>2. PICK first, next : /\ first = [f \in Files |-> At(f, e)]
                           /\ next = [f \in Files |-> At(f, e + 1)]
    OBVIOUS
  <2>3. \A f \in Files : At(f, e) \in Nat /\ At(f, e + 1) \in Nat /\ filemap[f] \in Nat
    BY <1>2, <2>1, AtProperties DEF Reading
  <2>4. first \in [Files -> Nat] /\ next \in [Files -> Nat]
    BY <2>2, <2>3
  <2>5. Placed(first, next) /\ \A f \in todo : filemap[f] <= currentEvt
    BY <1>2, <2>1, <2>2 DEF StepInv
  <2>6. /\ UNCHANGED <<disk, filemap>> /\ isOpen' \subseteq isOpen
        /\ files = isOpen => files' = isOpen'
        /\ \/ Reading' /\ Placed(first, next)' /\ UNCHANGED currentEvt
           \/ /\ mpc' = "round" /\ currentEvt' = NextEvt /\ todo # {}
              /\ \A f \in isOpen' : pos'[f] = next[f]
        /\ todo' \subseteq todo
    BY <1>2, <2>4, <2>5, RoundStep
  <2>7. \A f \in Files, d \in Nat : At(f, d)' = At(f, d)
    BY <2>6 DEF At
  <2>8. CASE Reading' /\ Placed(first, next)' /\ UNCHANGED currentEvt
    <3>1. /\ first = [f \in Files |-> At(f, currentEvt)']
          /\ next = [f \in Files |-> At(f, currentEvt + 1)']
      BY <2>1, <2>2, <2>7, <2>8 DEF At
    <3>2. \A f \in todo' : filemap'[f] <= currentEvt'
      BY <2>5, <2>6, <2>8
    <3> QED BY <2>6, <2>8, <3>1, <3>2 DEF StepInv, Reading
  <2>9. CASE /\ mpc' = "round" /\ currentEvt' = NextEvt /\ todo # {}
             /\ \A f \in isOpen' : pos'[f] = next[f]
    <3>1. PICK f \in todo : TRUE
      BY <2>9
    <3>2. f \in Files /\ f \in isOpen
      BY <2>5, <3>1 DEF MainOK, Placed
    <3>3. pos[f] >= At(f, currentEvt)
      <4>1. pos[f] = first[f] + (IF IsCurrent(f) THEN nread + Len(hand) ELSE 0)
        BY <2>5, <3>1, <3>2 DEF Placed
      <4>2. nread \in Nat /\ Len(hand) \in Nat /\ first[f] \in Nat /\ first[f] = At(f, currentEvt)
        BY <2>1, <2>2, <2>3, <3>2 DEF MainOK
      <4> QED BY <4>1, <4>2
    <3>4. currentEvt' = currentEvt + 1
      BY <1>2, <1>10, <2>9, <3>2, <3>3, NextEvtIs DEF Reading
    <3>5. \A g \in isOpen' : pos'[g] = At(g, currentEvt)'
      <4>1. currentEvt' = e + 1 /\ e + 1 \in Nat
        BY <2>1, <3>4
      <4>2. ASSUME NEW g \in isOpen' PROVE pos'[g] = At(g, currentEvt)'
        <5>1. g \in Files
          BY <4>2 DEF MainOK
        <5>2. pos'[g] = At(g, e + 1)
          BY <2>2, <2>9, <4>2, <5>1
        <5>3. At(g, currentEvt)' = At(g, e + 1)
          BY <2>6, <4>1 DEF At
        <5> QED BY <5>2, <5>3
      <4> QED BY <4>2
    <3> QED BY <2>6, <2>9, <3>5 DEF StepInv, Reading
  <2> QED BY <2>6, <2>8, <2>9 DEF StepInv
<1>3. CASE StartRound /\ UNCHANGED fqVars
  <2>1. /\ mpc = "round" /\ files # {} /\ nread' = 0
        /\ todo' = {f \in isOpen : filemap[f] <= currentEvt}
        /\ IF todo' = {} THEN currentEvt' = NextEvt /\ UNCHANGED mpc
                         ELSE mpc' = "read" /\ UNCHANGED currentEvt
        /\ UNCHANGED <<disk, pos, isOpen, files, filemap, hand>>
    BY <1>3 DEF StartRound, FindFilesForEvtId, diskVars
  <2>2. /\ files = isOpen /\ isOpen \subseteq Files
        /\ \A f \in isOpen : pos[f] = At(f, currentEvt)
    BY <2>1 DEF StepInv, MainOK
  <2>3. ASSUME NEW f \in isOpen
        PROVE  /\ f \in Files /\ At(f, currentEvt) \in Nat /\ filemap[f] \in Nat
               /\ filemap[f] <= currentEvt => At(f, currentEvt + 1) = At(f, currentEvt) + FramesPerRound
               /\ filemap[f] > currentEvt => At(f, currentEvt + 1) = At(f, currentEvt)
    BY <1>0, <2>1, <2>2, AtProperties
  <2>4. CASE todo' = {}
    <3>1. PICK f \in isOpen : TRUE
      BY <2>1, <2>2
    <3>2. currentEvt' = currentEvt + 1
      BY <1>10, <2>1, <2>2, <2>3, <2>4, <3>1, NextEvtIs
    <3>3. ASSUME NEW g \in isOpen' PROVE pos'[g] = At(g, currentEvt)'
      <4>1. g \in isOpen /\ filemap[g] > currentEvt
        BY <1>0, <2>1, <2>3, <2>4, <3>3
      <4>2. At(g, currentEvt)' = At(g, currentEvt + 1)
        BY <2>1, <3>2 DEF At
      <4> QED BY <4>1, <4>2, <2>1, <2>2, <2>3
    <3> QED BY <2>1, <2>2, <2>4, <3>3 DEF StepInv, Reading
  <2>5. CASE todo' # {}
    <3>1. mpc' = "read" /\ currentEvt' = currentEvt /\ Len(hand') = 0
      BY <2>1, <2>5 DEF MainOK
    <3>2. PICK first, next : /\ first = [f \in Files |-> At(f, currentEvt)]
                             /\ next = [f \in Files |-> At(f, currentEvt + 1)]
      OBVIOUS
    <3>3. /\ first = [f \in Files |-> At(f, currentEvt)']
          /\ next = [f \in Files |-> At(f, currentEvt + 1)']
      BY <2>1, <3>1, <3>2 DEF At
    <3>4. ASSUME NEW f \in isOpen'
          PROVE  IF f \in todo'
                 THEN /\ next[f] = first[f] + FramesPerRound
                      /\ pos'[f] = first[f] + (IF IsCurrent(f)' THEN nread' + Len(hand') ELSE 0)
                 ELSE pos'[f] = next[f]
      <4>1. f \in isOpen /\ first[f] = At(f, currentEvt) /\ next[f] = At(f, currentEvt + 1)
            /\ pos'[f] = At(f, currentEvt)
        BY <2>1, <2>2, <2>3, <3>2, <3>4
      <4>2. nread' + Len(hand') = 0
        BY <2>1, <3>1
      <4> QED BY <1>0, <2>1, <2>3, <4>1, <4>2
    <3>5. Placed(first, next)'
      BY <2>1, <3>1, <3>4 DEF Placed
    <3> QED BY <2>1, <2>2, <3>1, <3>3, <3>5 DEF StepInv, Reading
  <2> QED BY <2>4, <2>5
<1>4. CASE IndexFiles /\ UNCHANGED fqVars
  <2>1. /\ mpc = "index" /\ mpc' = "start" /\ filemap' \in [Files -> 0..(EvtIdMod - 1)]
        /\ UNCHANGED <<pos, isOpen, files, currentEvt>>
    BY <1>4 DEF IndexFiles, MainOK
  <2>2. currentEvt = 0 /\ \A f \in Files : pos[f] = 0
    BY <2>1 DEF StepInv
  <2>3. \A f \in Files : filemap'[f] >= 0
    <3>1. \A e \in 0..(EvtIdMod - 1) : e >= 0
      OBVIOUS
    <3> QED BY <2>1, <3>1
  <2> QED BY <2>1, <2>2, <2>3 DEF StepInv, Reading, At, MainOK
<1>5. CASE StartWorkers /\ UNCHANGED fqVars
  BY <1>5 DEF StartWorkers, diskVars, StepInv, Reading, At
<1>6. CASE (IndexFails \/ Join) /\ UNCHANGED fqVars
  BY <1>6 DEF IndexFails, Join, diskVars, StepInv, Reading
<1>7. CASE FinishFrames
  BY <1>7 DEF FinishFrames, diskVars, StepInv, Reading
<1>8. CASE MainWaits \/ BuilderStep \/ WriterStep \/ Wakeup \/ UNCHANGED vars
  BY <1>8, <1>1 DEF MainWaits, BuilderStep, WriterStep, Wakeup, vars
<1>9. ReadRawFrame \/ CloseFile \/ PutFrame => Reading
  BY DEF ReadRawFrame, CloseFile, PutFrame, Reading
<1> QED BY <1>2, <1>3, <1>4, <1>5, <1>6, <1>7, <1>8, <1>9 DEF Next, MainStep

(* The index does not change once it has been made. *)
LEMMA FilemapKept ==
  ASSUME MainOK, [Next]_vars, ~IndexFiles
  PROVE  /\ disk' = disk /\ filemap' = filemap
         /\ mpc' \in {"index", "failed"} => mpc \in {"index", "failed"}
  BY DEF Next, MainStep, IndexFails, StartWorkers, StartRound, ReadRawFrame, CloseFile,
         Join, PutFrame, LeaveFile, FinishFrames, MainWaits, BuilderStep, WriterStep, Wakeup,
         vars, mainVars, diskVars, loopVars

\* Until the current id wraps around, the files are in step.
InStep == Indexing \/ NoWrap => StepInv

(* The files are read in step: at the start of a round each listed file    *)
(* has had FramesPerRound reads for every id from the one it is indexed    *)
(* under, however the files are made up, as long as the ids do not wrap.   *)
THEOREM ReadInStepCorrect ==
  Spec => []ReadInStep
<1>1. InStep => ReadInStep
  BY DEF InStep, StepInv, ReadInStep, At
<1>2. Init => InStep
  BY StepInvInit DEF InStep
<1>3. MainOK /\ MainOK' /\ InStep /\ [Next]_vars => InStep'
  <2> SUFFICES ASSUME MainOK, MainOK', InStep, [Next]_vars, Indexing' \/ NoWrap'
               PROVE  StepInv'
    BY DEF InStep
  <2>1. Indexing \/ NoWrap
    <3>1. CASE IndexFiles
      BY <3>1 DEF IndexFiles, Indexing
    <3>2. CASE ~IndexFiles
      <4>1. disk' = disk /\ filemap' = filemap
        BY <3>2, FilemapKept
      <4>2. NoWrap' <=> NoWrap
        BY <4>1 DEF NoWrap
      <4>3. Indexing' => Indexing
        BY <3>2, FilemapKept DEF Indexing
      <4> QED BY <4>2, <4>3
    <3> QED BY <3>1, <3>2
  <2>2. StepInv
    BY <2>1 DEF InStep
  <2> QED BY <2>1, <2>2, StepInvStep
<1> QED BY <1>1, <1>2, <1>3, MainInvariant, PTL DEF Spec

-----------------------------------------------------------------------------
(* Aligned files lose nothing. *)

(* Where round r starts in a file that is read in every round. *)
Turn(r) == r * FramesPerRound

LEMMA Turns ==
  /\ Turn(0) = 0
  /\ \A r \in Nat : Turn(r) \in Nat /\ Turn(r + 1) = Turn(r) + FramesPerRound
  /\ \A r, s \in Nat : r < s => Turn(r + 1) <= Turn(s)
  /\ \A r \in Nat : r <= Turn(r)
<1>1. FramesPerRound \in Nat \ {0}
  BY SizesAssumption
<1>2. \A r \in Nat : Turn(r) \in Nat /\ Turn(r + 1) = Turn(r) + FramesPerRound
  BY <1>1 DEF Turn
<1>3. ASSUME NEW r \in Nat, NEW s \in Nat, r < s PROVE Turn(r + 1) <= Turn(s)
  <2>1. PICK k \in Nat : s = r + 1 + k
    <3>1. s - (r + 1) \in Nat /\ s = r + 1 + (s - (r + 1))
      BY <1>3
    <3> QED BY <3>1
  <2>2. (r + 1 + k) * FramesPerRound = (r + 1) * FramesPerRound + k * FramesPerRound
    BY <1>1, <2>1
  <2>3. k * FramesPerRound \in Nat /\ (r + 1) * FramesPerRound \in Nat
    BY <1>1, <2>1
  <2> QED BY <2>1, <2>2, <2>3 DEF Turn
<1>4. Turn(0) = 0
  BY <1>1 DEF Turn
<1>5. \A r \in Nat : r <= Turn(r)
  BY <1>1 DEF Turn
<1> QED BY <1>2, <1>3, <1>4, <1>5

(* All the files are at the start of round r, or in it: those in todo are  *)
(* still to be read up to the next one.  A file that is closed ended       *)
(* before that.                                                            *)
InRound(r) ==
  IF Reading
  THEN /\ Placed([f \in Files |-> Turn(r)], [f \in Files |-> Turn(r + 1)])
       /\ \A f \in Files \ isOpen : pos[f] <= Turn(r + 1)
  ELSE \A f \in Files : IF f \in isOpen THEN pos[f] = Turn(r) ELSE pos[f] <= Turn(r)

(* No frame overtakes one of an earlier round. *)
InRounds(fs) ==
  \A i, j \in DOMAIN fs : i < j => \A r \in Nat : fs[j].n <= Turn(r) => fs[i].n <= Turn(r)

AlignedInv ==
  Aligned =>
    /\ mpc \notin {"index", "failed"} => \A f, g \in Files : filemap[f] = filemap[g]
    /\ \E r \in Nat : InRound(r)
    /\ bpc # "aborted" => InRounds(OnTheirWay)

LEMMA AlignedInit == Init => AlignedInv
<1> SUFFICES ASSUME Init PROVE AlignedInv
  OBVIOUS
<1>1. mpc = "index" /\ ~Reading /\ \A f \in Files : pos[f] = 0 /\ f \in isOpen
  BY DEF Init, Reading
<1>2. InRound(0)
  BY <1>1, Turns DEF InRound
<1>3. DOMAIN OnTheirWay = {}
  BY DEF Init, OnTheirWay, EB!Init, FQ!QueueInit
<1> QED BY <1>1, <1>2, <1>3 DEF AlignedInv, InRounds

(* Aligned files are indexed under the same id. *)
LEMMA AlignedIndex ==
  ASSUME disk \in Disks, Aligned, NEW f \in Files, NEW g \in Files,
         MayIndex(disk[f]), MayIndex(disk[g])
  PROVE  /\ Keys(disk[f]) = {MinEvtId(disk[f])} /\ Keys(disk[g]) = {MinEvtId(disk[g])}
         /\ MinEvtId(disk[f]) = MinEvtId(disk[g])
<1>4. CanIndex(disk[f]) /\ CanIndex(disk[g])
  BY DEF Aligned, MayIndex
<1>1. 1..IndexDepth \subseteq DOMAIN disk[f]
  BY <1>4, DiskFrame, SizesAssumption DEF CanIndex
<1>2. \A i \in 1..IndexDepth : disk[f][i].evt = disk[g][i].evt
  BY <1>1 DEF Aligned
<1>3. {disk[f][i].evt : i \in 1..IndexDepth} = {disk[g][i].evt : i \in 1..IndexDepth}
  BY <1>2
<1> QED BY <1>3, <1>4 DEF MinEvtId, Keys

(* A frame is read from the file whose turn it is. *)
LEMMA ReadsCurrent ==
  ASSUME MainOK, [Next]_vars, NEW f \in Files, pos' = [pos EXCEPT ![f] = @ + 1]
  PROVE  mpc = "read" /\ IsCurrent(f)
<1>1. pos \in [Files -> Nat] /\ pos' # pos
  BY DEF MainOK
<1>2. CASE ReadRawFrame
  <2>1. PICK g \in Files : IsCurrent(g) /\ pos' = [pos EXCEPT ![g] = @ + 1]
    BY <1>2 DEF ReadRawFrame
  <2>2. f = g
    BY <1>1, <2>1
  <2> QED BY <1>2, <2>1, <2>2 DEF ReadRawFrame
<1>3. CASE \/ IndexFiles \/ IndexFails \/ StartWorkers \/ StartRound \/ CloseFile \/ Join
           \/ PutFrame \/ FinishFrames \/ MainWaits
  BY <1>1, <1>3 DEF IndexFiles, IndexFails, StartWorkers, StartRound, CloseFile, Join,
       PutFrame, FinishFrames, MainWaits, mainVars, diskVars
<1>4. CASE BuilderStep \/ WriterStep \/ Wakeup \/ UNCHANGED vars
  BY <1>1, <1>4 DEF BuilderStep, WriterStep, Wakeup, vars, mainVars, diskVars
<1> QED BY <1>2, <1>3, <1>4 DEF Next, MainStep

(* In round r no file has been read beyond the end of it, and the one      *)
(* whose turn it is has been read beyond the start.                        *)
LEMMA RoundBounds ==
  ASSUME MainOK, NEW r \in Nat, InRound(r)
  PROVE  /\ \A f \in Files : pos[f] <= Turn(r + 1)
         /\ \A f \in Files : mpc = "read" /\ IsCurrent(f) => pos[f] >= Turn(r)
<1>1. FramesPerRound \in Nat /\ Turn(r) \in Nat /\ Turn(r + 1) = Turn(r) + FramesPerRound
  BY Turns, SizesAssumption
<1>2. \A f \in Files : pos[f] \in Nat
  BY DEF MainOK
<1>3. nread + Len(hand) <= FramesPerRound /\ nread + Len(hand) \in Nat
  BY <1>1 DEF MainOK
<1>4. CASE ~Reading
  BY <1>1, <1>2, <1>4 DEF InRound, Reading
<1>5. CASE Reading
  <2>1. ASSUME NEW f \in Files, f \in isOpen
        PROVE  IF f \in todo
               THEN pos[f] = Turn(r) + (IF IsCurrent(f) THEN nread + Len(hand) ELSE 0)
               ELSE pos[f] = Turn(r + 1)
    BY <1>5, <2>1 DEF InRound, Placed
  <2>2. /\ todo \subseteq isOpen
        /\ \A f \in Files \ isOpen : pos[f] <= Turn(r + 1)
    BY <1>5 DEF InRound, Placed
  <2>3. \A f : IsCurrent(f) => f \in todo
    BY DEF IsCurrent
  <2>4. ASSUME NEW f \in Files PROVE pos[f] <= Turn(r + 1)
    BY <2>1, <2>2, <1>1, <1>2, <1>3
  <2>5. ASSUME NEW f \in Files, IsCurrent(f) PROVE pos[f] >= Turn(r)
    BY <2>1, <2>2, <2>3, <2>5, <1>1, <1>2, <1>3
  <2> QED BY <2>4, <2>5
<1> QED BY <1>4, <1>5

LEMMA InRoundStep ==
  ASSUME MainOK, MainOK', [Next]_vars, NEW r \in Nat, InRound(r),
         mpc \notin {"index", "failed"} => \A f, g \in Files : filemap[f] = filemap[g]
  PROVE  \E s \in Nat : InRound(s)'
<1>0. /\ FramesPerRound \in Nat /\ Turn(r) \in Nat /\ Turn(r + 1) \in Nat
      /\ Turn(r + 1) = Turn(r) + FramesPerRound
  BY Turns, SizesAssumption
<1> DEFINE first == [f \in Files |-> Turn(r)]
           next == [f \in Files |-> Turn(r + 1)]
<1>1. first \in [Files -> Nat] /\ next \in [Files -> Nat]
  BY <1>0
<1>2. ASSUME UNCHANGED mainVars PROVE InRound(r)'
  BY <1>2 DEF mainVars, diskVars, loopVars, InRound, Reading, Placed, IsCurrent, Turn
<1>3. CASE Reading
  <2>1. Placed(first, next) /\ \A f \in Files \ isOpen : pos[f] <= Turn(r + 1)
    BY <1>3 DEF InRound
  <2>2. \A f \in Files : next[f] = Turn(r + 1)
    OBVIOUS
  <2>3. PICK a \in [Files -> Nat], b \in [Files -> Nat] : a = first /\ b = next
    BY <1>1
  <2> HIDE DEF first, next
  <2>4. /\ isOpen' \subseteq isOpen
        /\ \A f \in isOpen \ isOpen' : pos'[f] <= Turn(r + 1)
        /\ \A f \in Files \ isOpen : pos'[f] <= Turn(r + 1)
        /\ \/ Reading' /\ Placed(a, b)'
           \/ mpc' = "round" /\ \A f \in isOpen' : pos'[f] = Turn(r + 1)
    <3>1. isOpen \subseteq Files /\ isOpen' \subseteq Files
      BY DEF MainOK
    <3>2. Placed(a, b)
      BY <2>1, <2>3
    <3>3. /\ isOpen' \subseteq isOpen
          /\ \A f \in isOpen \ isOpen' : pos'[f] <= b[f]
          /\ \A f \in Files \ isOpen : pos'[f] = pos[f]
          /\ \/ Reading' /\ Placed(a, b)'
             \/ mpc' = "round" /\ \A f \in isOpen' : pos'[f] = b[f]
      BY <1>3, <3>2, RoundStep
    <3> QED BY <2>1, <2>2, <2>3, <3>1, <3>3
  <2>5. CASE Reading' /\ Placed(a, b)'
    <3>1. InRound(r)'
      BY <2>3, <2>4, <2>5 DEF InRound, first, next, Turn
    <3> QED BY <3>1
  <2>6. CASE mpc' = "round" /\ \A f \in isOpen' : pos'[f] = Turn(r + 1)
    <3>1. \A f \in Files : IF f \in isOpen' THEN pos'[f] = Turn(r + 1) ELSE pos'[f] <= Turn(r + 1)
      BY <2>4, <2>6
    <3>2. InRound(r + 1)'
      BY <2>6, <3>1 DEF InRound, Reading, Turn
    <3> QED BY <3>2
  <2> QED BY <2>4, <2>5, <2>6
<1>4. CASE StartRound /\ UNCHANGED fqVars
  <2>1. /\ mpc = "round" /\ nread' = 0
        /\ todo' = {f \in isOpen : filemap[f] <= currentEvt}
        /\ IF todo' = {} THEN UNCHANGED mpc ELSE mpc' = "read"
        /\ UNCHANGED <<disk, pos, isOpen, files, filemap, hand>>
    BY <1>4 DEF StartRound, FindFilesForEvtId, diskVars
  <2>2. \A f \in Files : IF f \in isOpen THEN pos[f] = Turn(r) ELSE pos[f] <= Turn(r)
    BY <2>1 DEF InRound, Reading
  <2>3. CASE todo' = {}
    <3>1. InRound(r)'
      BY <2>1, <2>2, <2>3 DEF InRound, Reading, Turn
    <3> QED BY <3>1
  <2>4. CASE todo' # {}
    <3>1. mpc' = "read" /\ nread' + Len(hand') = 0
      BY <2>1, <2>4 DEF MainOK
    <3>2. todo' = isOpen'
      BY <2>1, <2>4 DEF MainOK
    <3>3. PICK a \in [Files -> Nat], b \in [Files -> Nat] : a = first /\ b = next
      BY <1>1
    <3>4. \A f \in Files : b[f] = a[f] + FramesPerRound /\ a[f] = Turn(r)
      BY <3>3, <1>0
    <3> HIDE DEF first, next
    <3>5. ASSUME NEW f \in isOpen'
          PROVE  /\ f \in todo' /\ b[f] = a[f] + FramesPerRound
                 /\ pos'[f] = a[f] + (IF IsCurrent(f)' THEN nread' + Len(hand') ELSE 0)
      <4>1. f \in Files /\ pos'[f] = Turn(r)
        BY <2>1, <2>2, <3>5 DEF MainOK
      <4> QED BY <3>1, <3>2, <3>4, <4>1, <1>0
    <3>6. Placed(a, b)'
      BY <3>1, <3>2, <3>5 DEF Placed
    <3>7. \A f \in Files \ isOpen' : pos'[f] <= Turn(r + 1)
      BY <1>0, <2>1, <2>2 DEF MainOK
    <3>8. InRound(r)'
      BY <3>1, <3>3, <3>6, <3>7 DEF InRound, Reading, first, next, Turn
    <3> QED BY <3>8
  <2> QED BY <2>3, <2>4
<1>5. CASE ((IndexFiles \/ IndexFails \/ StartWorkers \/ Join) /\ UNCHANGED fqVars) \/ FinishFrames
  <2>1. ~Reading /\ ~Reading' /\ UNCHANGED <<pos, isOpen>>
    BY <1>5 DEF IndexFiles, IndexFails, StartWorkers, Join, FinishFrames, diskVars, Reading
  <2>2. InRound(r)'
    BY <2>1 DEF InRound, Turn
  <2> QED BY <2>2
<1>6. CASE MainWaits \/ BuilderStep \/ WriterStep \/ Wakeup \/ UNCHANGED vars
  BY <1>6, <1>2 DEF MainWaits, BuilderStep, WriterStep, Wakeup, vars
<1>7. ReadRawFrame \/ CloseFile \/ PutFrame => Reading
  BY DEF ReadRawFrame, CloseFile, PutFrame, Reading
<1> QED BY <1>3, <1>4, <1>5, <1>6, <1>7 DEF Next, MainStep

LEMMA AlignedStep ==
  MainOK /\ MainOK' /\ EB!TypeOK /\ FramesConserved /\ AlignedInv /\ [Next]_vars => AlignedInv'
<1> SUFFICES ASSUME MainOK, MainOK', EB!TypeOK, FramesConserved, AlignedInv, [Next]_vars, Aligned'
             PROVE  AlignedInv'
  BY DEF AlignedInv
<1>1. disk' = disk /\ Aligned
  BY FramesStep DEF Aligned
<1>2. /\ mpc \notin {"index", "failed"} => \A f, g \in Files : filemap[f] = filemap[g]
      /\ bpc # "aborted" => InRounds(OnTheirWay)
  BY <1>1 DEF AlignedInv
<1>3. PICK r \in Nat : InRound(r)
  BY <1>1 DEF AlignedInv
<1>4. \E s \in Nat : InRound(s)'
  BY <1>2, <1>3, InRoundStep
<1>5. mpc' \notin {"index", "failed"} => \A f, g \in Files : filemap'[f] = filemap'[g]
  <2>1. CASE IndexFiles
    <3>1. \A f \in Files : MayIndex(disk[f]) /\ filemap'[f] \in Keys(disk[f])
      BY <2>1 DEF IndexFiles
    <3>2. disk \in Disks
      BY DEF MainOK
    <3>3. \A f, g \in Files : filemap'[f] = MinEvtId(disk[f]) /\ filemap'[g] = MinEvtId(disk[f])
      BY <1>1, <3>1, <3>2, AlignedIndex
    <3> QED BY <3>3
  <2>2. CASE ~IndexFiles
    <3>1. /\ filemap' = filemap
          /\ mpc' \notin {"index", "failed"} => mpc \notin {"index", "failed"}
      BY <2>2 DEF Next, MainStep, IndexFails, StartWorkers, StartRound, ReadRawFrame, CloseFile,
           Join, PutFrame, FinishFrames, MainWaits, BuilderStep, WriterStep, Wakeup, vars,
           mainVars, diskVars, loopVars
    <3> QED BY <3>1, <1>2
  <2> QED BY <2>1, <2>2
<1>6. ASSUME bpc' # "aborted" PROVE InRounds(OnTheirWay')
  <2>1. bpc # "aborted" /\ InRounds(OnTheirWay)
    BY <1>2, <1>6, FramesStep
  <2>2. CASE OnTheirWay' = OnTheirWay
    BY <2>1, <2>2
  <2>3. CASE \E f \in Files :
               /\ FrameAt(disk, f, pos[f] + 1) \in DiskFrames
               /\ OnTheirWay' = Append(OnTheirWay, FrameAt(disk, f, pos[f] + 1))
               /\ pos' = [pos EXCEPT ![f] = @ + 1]
    <3>1. PICK f \in Files :
            /\ FrameAt(disk, f, pos[f] + 1) \in DiskFrames
            /\ OnTheirWay' = Append(OnTheirWay, FrameAt(disk, f, pos[f] + 1))
            /\ pos' = [pos EXCEPT ![f] = @ + 1]
      BY <2>3
    <3>2. /\ pos[f] \in Nat /\ pos[f] >= Turn(r)
          /\ \A g \in Files : pos[g] \in Nat /\ pos[g] <= Turn(r + 1)
      BY <1>3, <3>1, ReadsCurrent, RoundBounds DEF MainOK
    <3> DEFINE new == FrameAt(disk, f, pos[f] + 1)
    <3>3. new.n = pos[f] + 1 /\ new \in DiskFrames
      BY <3>1 DEF FrameAt
    <3> HIDE DEF new
    <3>4. PICK fs \in Seq(DiskFrames) : fs = OnTheirWay
      BY ConcatProperties DEF OnTheirWay, MainOK, EB!TypeOK
    <3>5. PICK gs : gs = OnTheirWay' /\ gs = Append(fs, new)
      BY <3>1, <3>4 DEF new
    <3>6. /\ DOMAIN fs = 1..Len(fs) /\ Len(fs) \in Nat /\ DOMAIN gs = 1..(Len(fs) + 1)
          /\ \A i \in DOMAIN fs : gs[i] = fs[i]
          /\ gs[Len(fs) + 1] = new
      BY <3>3, <3>5, AppendProperties, LenProperties
    <3>7. ASSUME NEW i \in DOMAIN fs PROVE fs[i].n \in Nat /\ fs[i].n <= Turn(r + 1)
      <4>1. PICK g \in Files : \E n \in 1..pos[g] : fs[i] = FrameAt(disk, g, n)
        BY <2>1, <3>4 DEF FramesConserved
      <4>2. PICK n \in 1..pos[g] : fs[i] = FrameAt(disk, g, n)
        BY <4>1
      <4>3. fs[i].n = n
        BY <4>2 DEF FrameAt
      <4>4. pos[g] \in Nat /\ pos[g] <= Turn(r + 1) /\ Turn(r + 1) \in Nat
        BY <3>2, Turns
      <4> QED BY <4>2, <4>3, <4>4
    <3>8. ASSUME NEW i \in DOMAIN gs, NEW j \in DOMAIN gs, i < j, NEW s \in Nat, gs[j].n <= Turn(s)
          PROVE  gs[i].n <= Turn(s)
      <4>1. i \in DOMAIN fs /\ gs[i] = fs[i]
        BY <3>6, <3>8
      <4>2. CASE j \in DOMAIN fs
        BY <2>1, <3>4, <3>6, <3>8, <4>1, <4>2 DEF InRounds
      <4>3. CASE j = Len(fs) + 1
        <5>1. pos[f] + 1 <= Turn(s)
          BY <3>3, <3>6, <3>8, <4>3
        <5>2. Turn(r) \in Nat /\ Turn(s) \in Nat /\ Turn(r + 1) \in Nat /\ Turn(s + 1) \in Nat
              /\ Turn(s + 1) >= Turn(s)
          <6>1. FramesPerRound \in Nat /\ r + 1 \in Nat /\ s + 1 \in Nat
            BY SizesAssumption
          <6>2. /\ Turn(r) \in Nat /\ Turn(s) \in Nat /\ Turn(r + 1) \in Nat
                /\ Turn(s + 1) \in Nat /\ Turn(s + 1) = Turn(s) + FramesPerRound
            BY <6>1, Turns
          <6> QED BY <6>1, <6>2
        <5>3. ~(s < r) /\ s # r
          <6>1. s # r
            BY <5>1, <5>2, <3>2
          <6>2. ASSUME s < r PROVE FALSE
            <7>1. Turn(s + 1) <= Turn(r)
              BY <6>2, Turns
            <7> QED BY <7>1, <5>1, <5>2, <3>2
          <6> QED BY <6>1, <6>2
        <5>4. r < s
          BY <5>3
        <5>5. Turn(r + 1) <= Turn(s)
          BY <5>4, Turns
        <5> QED BY <5>5, <5>2, <3>7, <4>1
      <4> QED BY <4>2, <4>3, <3>6
    <3>9. InRounds(gs)
      BY <3>8 DEF InRounds
    <3> QED BY <3>5, <3>9
  <2> QED BY <1>6, <2>2, <2>3, FramesStep
<1> QED BY <1>4, <1>5, <1>6 DEF AlignedInv, InRounds, Turn

(* In a file of aligned files the event ids increase. *)
LEMMA Increasing ==
  ASSUME disk \in Disks, Aligned, NEW f \in Files,
         NEW m \in DOMAIN disk[f], NEW n \in DOMAIN disk[f], m < n
  PROVE  disk[f][m].evt < disk[f][n].evt
<1> DEFINE evt(k) == disk[f][k].evt
           S == {k \in DOMAIN disk[f] : m < k /\ ~(evt(m) < evt(k))}
<1>1. /\ DOMAIN disk[f] = 1..Len(disk[f]) /\ Len(disk[f]) \in Nat
      /\ \A k \in DOMAIN disk[f] : evt(k) \in Nat
  <2>1. disk[f] \in Seq(RawFrame)
    BY DiskFrame
  <2>2. \A k \in DOMAIN disk[f] : disk[f][k] \in RawFrame
    BY <2>1
  <2>3. \A k \in DOMAIN disk[f] : evt(k) \in Nat
    BY <2>2, BuilderAssumptions DEF RawFrame
  <2>4. DOMAIN disk[f] = 1..Len(disk[f]) /\ Len(disk[f]) \in Nat
    BY <2>1
  <2> QED BY <2>3, <2>4
<1>2. \A k \in DOMAIN disk[f] : k > 1 => evt(k - 1) < evt(k)
  BY DEF Aligned
<1> HIDE DEF evt
<1>3. CASE S # {}
  <2>1. S \subseteq Nat
    BY <1>1
  <2>2. PICK k \in S : \A j \in S : k <= j
    BY <1>3, <2>1, Least, Zenon
  <2>3. /\ k \in DOMAIN disk[f] /\ m < k /\ ~(evt(m) < evt(k)) /\ k - 1 \in DOMAIN disk[f]
        /\ k > 1 /\ k - 1 \notin S
    BY <1>1, <2>2
  <2>4. k - 1 = m \/ evt(m) < evt(k - 1)
    BY <1>1, <2>3
  <2>5. evt(k - 1) < evt(k)
    BY <1>2, <2>3
  <2> QED BY <1>1, <2>3, <2>4, <2>5
<1>4. CASE S = {}
  BY <1>4 DEF evt
<1> QED BY <1>3, <1>4

(* Frames that arrive by rounds, from aligned files, are of at most        *)
(* FramesPerRound - 1 other events between two frames of one event.        *)
LEMMA FewOthers ==
  ASSUME disk \in Disks, Aligned, InRounds(arrived), arrived \in Seq(DiskFrames),
         \A i \in DOMAIN arrived : \E f \in Files : \E n \in DOMAIN disk[f] :
           arrived[i] = FrameAt(disk, f, n),
         NEW t \in DOMAIN arrived, NEW l \in 1..(t - 1), arrived[l].evt = arrived[t].evt
  PROVE  LET others == {arrived[u].evt : u \in (l + 1)..(t - 1)} \ {arrived[t].evt}
         IN  Cardinality(others) < FramesPerRound
<1>1. FramesPerRound \in Nat \ {0} /\ t \in Nat /\ l \in Nat /\ l \in DOMAIN arrived
      /\ \A u \in (l + 1)..(t - 1) : u \in DOMAIN arrived
  BY SizesAssumption
<1>2. ASSUME NEW i \in DOMAIN arrived
      PROVE  \E f \in Files : /\ arrived[i].n \in DOMAIN disk[f] /\ arrived[i].n \in Nat \ {0}
                              /\ arrived[i].evt = disk[f][arrived[i].n].evt
  <2>1. PICK f \in Files : \E n \in DOMAIN disk[f] : arrived[i] = FrameAt(disk, f, n)
    OBVIOUS
  <2>2. PICK n \in DOMAIN disk[f] : arrived[i] = FrameAt(disk, f, n)
    BY <2>1
  <2>3. n \in 1..Len(disk[f])
    BY DiskFrame
  <2> QED BY <2>2, <2>3 DEF FrameAt
<1>3. PICK f \in Files : /\ arrived[t].n \in DOMAIN disk[f]
                         /\ arrived[t].evt = disk[f][arrived[t].n].evt
  BY <1>2
<1>4. ASSUME NEW i \in DOMAIN arrived
      PROVE  /\ arrived[i].n \in DOMAIN disk[f] /\ arrived[i].n \in Nat \ {0}
             /\ arrived[i].evt = disk[f][arrived[i].n].evt
  <2>1. PICK g \in Files : /\ arrived[i].n \in DOMAIN disk[g] /\ arrived[i].n \in Nat \ {0}
                           /\ arrived[i].evt = disk[g][arrived[i].n].evt
    BY <1>2
  <2>2. Len(disk[f]) = Len(disk[g]) /\ disk[g][arrived[i].n].evt = disk[f][arrived[i].n].evt
    BY <2>1 DEF Aligned
  <2>3. DOMAIN disk[f] = 1..Len(disk[f]) /\ DOMAIN disk[g] = 1..Len(disk[g])
    BY DiskFrame
  <2> QED BY <2>1, <2>2, <2>3
<1>5. PICK n \in Nat \ {0} : n = arrived[t].n
  BY <1>4
<1>6. arrived[l].n = n
  <2>1. /\ arrived[l].n \in DOMAIN disk[f] /\ arrived[l].n \in Nat /\ n \in DOMAIN disk[f]
        /\ disk[f][arrived[l].n].evt = disk[f][n].evt /\ disk[f][n].evt \in Nat
    <3>1. disk[f] \in Seq(RawFrame)
      BY DiskFrame
    <3>2. disk[f][n] \in RawFrame
      BY <1>4, <1>5, <3>1
    <3> QED BY <1>1, <1>4, <1>5, <3>2, BuilderAssumptions DEF RawFrame
  <2>2. ~(arrived[l].n < n) /\ ~(n < arrived[l].n)
    BY <2>1, Increasing
  <2> QED BY <2>1, <2>2
<1>7. PICK r \in Nat : Turn(r) < n /\ n <= Turn(r) + FramesPerRound
  <2> DEFINE S == {r \in Nat : n <= Turn(r)}
  <2>1. n \in S /\ S \subseteq Nat
    BY Turns
  <2>2. PICK m \in S : \A k \in S : m <= k
    BY <2>1, Least, Zenon
  <2>3. m \in Nat /\ n <= Turn(m) /\ m # 0
    BY <2>2, Turns
  <2>4. m - 1 \in Nat /\ m - 1 \notin S
    BY <2>2, <2>3
  <2>5. Turn(m - 1) \in Nat /\ Turn((m - 1) + 1) = Turn(m - 1) + FramesPerRound
    BY <2>4, Turns
  <2>6. (m - 1) + 1 = m
    BY <2>3
  <2> QED BY <2>3, <2>4, <2>5, <2>6
<1>8. Turn(r) \in Nat /\ Turn(r + 1) = Turn(r) + FramesPerRound
  BY Turns
<1> DEFINE window == (Turn(r) + 1)..(Turn(r) + FramesPerRound)
           rest == window \ {n}
           here == {k \in rest : k \in DOMAIN disk[f]}
           evts == {disk[f][k].evt : k \in here}
           others == {arrived[u].evt : u \in (l + 1)..(t - 1)} \ {arrived[t].evt}
<1>9. IsFiniteSet(rest) /\ Cardinality(rest) = FramesPerRound - 1
  <2>1. IsFiniteSet(window) /\ Cardinality(window) = FramesPerRound
    <3>1. Turn(r) + 1 \in Int /\ Turn(r) + FramesPerRound \in Int
          /\ ~(Turn(r) + 1 > Turn(r) + FramesPerRound)
      BY <1>1, <1>8
    <3>2. Cardinality(window) = (Turn(r) + FramesPerRound) - (Turn(r) + 1) + 1
      BY <3>1, FS_Interval
    <3> QED BY <3>1, <3>2, <1>1, <1>8, FS_Interval
  <2>2. n \in window
    BY <1>7, <1>8
  <2> HIDE DEF window
  <2> QED BY <2>1, <2>2, FS_RemoveElement
<1>10. IsFiniteSet(here) /\ Cardinality(here) <= FramesPerRound - 1
       /\ Cardinality(here) \in Nat
  <2>1. here \subseteq rest
    OBVIOUS
  <2> HIDE DEF here, rest
  <2> QED BY <2>1, <1>9, FS_Subset, FS_CardinalityType
<1>11. IsFiniteSet(evts) /\ Cardinality(evts) <= Cardinality(here) /\ Cardinality(evts) \in Nat
  <2> DEFINE event == [k \in here |-> disk[f][k].evt]
  <2> HIDE DEF here
  <2>1. event \in Surjection(here, evts)
    BY DEF Surjection
  <2> HIDE DEF event, evts
  <2> QED BY <2>1, <1>10, FS_Surjection, FS_CardinalityType
<1>12. others \subseteq evts
  <2>1. ASSUME NEW u \in (l + 1)..(t - 1), arrived[u].evt # arrived[t].evt
        PROVE  arrived[u].evt \in evts
    <3>1. u \in DOMAIN arrived /\ l < u /\ u < t
      BY <1>1
    <3>2. arrived[u].n \in Nat /\ arrived[u].n \in DOMAIN disk[f]
          /\ arrived[u].evt = disk[f][arrived[u].n].evt
      BY <3>1, <1>4
    <3>3. arrived[u].n <= Turn(r + 1)
      BY <3>1, <1>1, <1>5, <1>7, <1>8 DEF InRounds
    <3>4. ~(arrived[u].n <= Turn(r))
      <4>1. ASSUME arrived[u].n <= Turn(r) PROVE FALSE
        <5>1. arrived[l].n <= Turn(r)
          BY <3>1, <1>1, <4>1 DEF InRounds
        <5> QED BY <5>1, <1>6, <1>7, <1>8
      <4> QED BY <4>1
    <3>5. arrived[u].n # n
      BY <2>1, <3>2, <1>3, <1>5
    <3>6. arrived[u].n \in here
      BY <3>2, <3>3, <3>4, <3>5, <1>8
    <3> QED BY <3>2, <3>6
  <2> HIDE DEF evts
  <2> QED BY <2>1
<1> HIDE DEF here, evts, others
<1>13. Cardinality(others) <= Cardinality(evts)
  BY <1>11, <1>12, FS_Subset
<1>14. Cardinality(others) \in Nat
  BY <1>11, <1>12, FS_Subset, FS_CardinalityType
<1>15. Cardinality(others) < FramesPerRound
  BY <1>1, <1>10, <1>11, <1>13, <1>14
<1> QED BY <1>15 DEF others

LEMMA BuilderLate == Spec => []EBP!LateOnlyWhenIdle
<1>1. EBP!SafetySpec => []EBP!LateOnlyWhenIdle
  BY EBP!LateOnlyWhenIdleCorrect, BuilderAssumptions, PTL
<1> QED BY <1>1, SameBuilder, BuilderImplemented, PTL

(* While the builder lives, nothing is late. *)
NothingLateYet == bpc # "aborted" => AlignedNothingLate

LEMMA LateWithoutAbort ==
  MainOK /\ EB!TypeOK /\ FramesConserved /\ AlignedInv /\ EBP!LateOnlyWhenIdle
    => NothingLateYet
<1> SUFFICES ASSUME MainOK, EB!TypeOK, FramesConserved, AlignedInv, EBP!LateOnlyWhenIdle,
                    bpc # "aborted", Aligned, NEW t \in late
             PROVE  FALSE
  BY DEF AlignedNothingLate, NothingLateYet
<1>1. /\ arrived \in Seq(DiskFrames) /\ late \subseteq 1..Len(arrived) /\ t \in DOMAIN arrived
      /\ disk \in Disks /\ fq \in Seq(DiskFrames) /\ hand \in Seq(DiskFrames)
  BY DEF MainOK, EB!TypeOK
<1>2. PICK fs : fs = OnTheirWay
  OBVIOUS
<1>3. \A i \in DOMAIN arrived : i \in DOMAIN fs /\ fs[i] = arrived[i]
  <2>1. PICK ab \in Seq(DiskFrames) : ab = arrived \o fq
    BY <1>1, ConcatProperties
  <2>2. fs = ab \o hand
    BY <1>2, <2>1 DEF OnTheirWay
  <2>3. Len(ab) = Len(arrived) + Len(fq) /\ \A i \in 1..Len(arrived) : ab[i] = arrived[i]
    BY <1>1, <2>1
  <2>4. Len(fs) = Len(ab) + Len(hand) /\ DOMAIN fs = 1..Len(fs)
        /\ \A i \in 1..Len(ab) : fs[i] = ab[i]
    BY <1>1, <2>1, <2>2
  <2>5. DOMAIN arrived = 1..Len(arrived) /\ Len(arrived) \in Nat /\ Len(fq) \in Nat
        /\ Len(hand) \in Nat
    BY <1>1
  <2>6. \A i \in DOMAIN arrived : i \in 1..Len(ab) /\ i \in DOMAIN fs
    BY <2>3, <2>4, <2>5
  <2> QED BY <2>3, <2>4, <2>5, <2>6
<1>4. InRounds(arrived)
  <2>1. InRounds(fs)
    BY <1>2 DEF AlignedInv
  <2> QED BY <1>3, <2>1 DEF InRounds
<1>5. ASSUME NEW i \in DOMAIN arrived
      PROVE  \E f \in Files : \E n \in DOMAIN disk[f] : arrived[i] = FrameAt(disk, f, n)
  <2>1. PICK f \in Files : \E n \in 1..pos[f] : fs[i] = FrameAt(disk, f, n)
    BY <1>2, <1>3 DEF FramesConserved
  <2>2. PICK n \in 1..pos[f] : arrived[i] = FrameAt(disk, f, n)
    BY <1>3, <2>1
  <2>3. n \in DOMAIN disk[f]
    BY <1>1, <2>2, DiskFrame DEF MainOK
  <2> QED BY <2>2, <2>3
<1>6. PICK l \in (1..(t - 1)) \ late :
        /\ arrived[l].evt = arrived[t].evt
        /\ \A u \in (l + 1)..(t - 1) : arrived[u].evt = arrived[t].evt => u \in late
        /\ Cardinality({arrived[u].evt : u \in (l + 1)..(t - 1)} \ {arrived[t].evt}) >= CacheSize
  BY DEF EBP!LateOnlyWhenIdle, EBP!Cardinality, Cardinality
<1> DEFINE others == {arrived[u].evt : u \in (l + 1)..(t - 1)} \ {arrived[t].evt}
<1>7. Cardinality(others) < FramesPerRound
  BY <1>1, <1>4, <1>5, <1>6, FewOthers
<1>8. IsFiniteSet(others) /\ Cardinality(others) \in Nat
  <2> DEFINE S == (l + 1)..(t - 1)
             T == {arrived[u].evt : u \in S}
             event == [u \in S |-> arrived[u].evt]
  <2>1. IsFiniteSet(S)
    BY <1>1, <1>6, FS_Interval
  <2>2. event \in Surjection(S, T)
    BY DEF Surjection
  <2>3. IsFiniteSet(T)
    BY <2>1, <2>2, FS_Surjection
  <2> HIDE DEF T
  <2>4. IsFiniteSet(T \ {arrived[t].evt})
    BY <2>3, FS_Difference
  <2> QED BY <2>4, FS_CardinalityType DEF T
<1>9. Cardinality(others) >= CacheSize
  BY <1>6
<1> HIDE DEF others
<1>10. FramesPerRound <= CacheSize
  BY DEF Aligned
<1> QED BY <1>7, <1>8, <1>9, <1>10, SizesAssumption

(* When every file holds one frame of each of the same events, in the same *)
(* order, and a round is no more than the cache can hold, no frame is      *)
(* late: whatever the number of files, their length, the capacities of the *)
(* queues and the scheduling of the threads.                               *)
THEOREM AlignedNothingLateCorrect == Spec => []AlignedNothingLate
<1>1. Init => AlignedNothingLate
  BY DEF Init, EB!Init, AlignedNothingLate
<1>2. MainOK /\ EB!TypeOK /\ AlignedNothingLate /\ NothingLateYet'
        /\ [Next]_vars => AlignedNothingLate'
  <2> SUFFICES ASSUME MainOK, EB!TypeOK, AlignedNothingLate, [Next]_vars, bpc' = "aborted"
               PROVE  AlignedNothingLate'
    BY DEF NothingLateYet
  <2>1. disk' = disk
    BY FramesStep
  <2>2. late' = late
    <3>1. [EB!Next]_(EB!builderVars)
      BY BuilderNext
    <3>2. ASSUME NEW f \in DiskFrames, EB!TakeFrame(f) PROVE late' = late
      BY <3>2 DEF EB!TakeFrame, EB!ThrowOn, EB!AppendToCached, EB!DropLate, EB!StartEvent,
           EB!StartEventWhenFull, EB!Take, EB!CanTake
    <3> QED BY <3>1, <3>2 DEF EB!Next, EB!builderVars, EB!Evict, EB!NoMoreTasks,
               EB!FlushOldest, EB!Close, EB!DivideByZero, EB!Terminated
  <2> QED BY <2>1, <2>2 DEF AlignedNothingLate, Aligned
<1>3. Spec => []AlignedInv
  BY AlignedInit, AlignedStep, MainInvariant, BuilderInvariants, FramesConservedCorrect, PTL DEF Spec
<1> QED BY <1>1, <1>2, <1>3, LateWithoutAbort, MainInvariant, BuilderInvariants,
           FramesConservedCorrect, BuilderLate, PTL DEF Spec
=============================================================================
