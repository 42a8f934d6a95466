--------------------------------- MODULE Event ---------------------------------
(***************************************************************************)
(* One Event from its first frame to its dataset in the output file:       *)
(* Event::AppendFrame for each frame, then SubtractFPN (Merger.cpp         *)
(* processAndOutputEvent), then HDFDataStore::writeEvent.                  *)
(*                                                                         *)
(* An address is an AGET, which is a CoBo number and a chip (the AsAd and  *)
(* AGET numbers together), and a channel.  The event time, which no one    *)
(* reads, is left out.                                                     *)
(* Samples have 12 bits and at most 4 of them are added, so that no        *)
(* sample_t overflows.                                                     *)
(***************************************************************************)
EXTENDS Integers, Sequences, FiniteSetsExt

CONSTANTS
  Agets,         \* pairs of a CoBo and a chip
  KnownAgets,    \* those below num_cobos, num_asads and num_agets
  Channels,      \* 0..67
  FPNChannels,   \* <<11, 22, 45, 56>>, fpn_channels
  TimeBuckets,   \* 0..511
  Garbage,       \* what memory set_size allocates may hold
  Frames,        \* frames of the event: [eventId, coboId, items], and mm, the
                 \* CoBo whose directory the frame's file is in
  Tables,        \* lookup tables: functions from addresses to pads
  MissingValue,  \* 20000
  MaxFrames      \* bound on the number of frames

ASSUME EventAssumption ==
  /\ KnownAgets \subseteq Agets /\ FPNChannels \in Seq(Channels)
  /\ Garbage # {} /\ Garbage \subseteq Int
  /\ MaxFrames \in Nat

VARIABLES
  lookupTable,
  eventId,
  appended,  \* the frames appended; its length is nFramesAppended
  data,      \* the traces, by address
  phase,     \* "building", "processed", "written"; "terminated" by an
             \* uncaught exception or a division by zero
  rows       \* the rows of the dataset

vars == <<lookupTable, eventId, appended, data, phase, rows>>

Addresses == Agets \X Channels

\* What is stored of the items of a frame, which are those GRAWFrame makes.  The
\* address of a sample has the CoBo number of the frame's header.
Samples(frame) ==
  [i \in DOMAIN frame.items |->
     LET item == frame.items[i]
     IN  [addr |-> << <<frame.coboId, item.chip>>, item.channel >>,
          tb |-> item.tb, sample |-> item.sample]]

SampleType == [addr : Addresses, tb : TimeBuckets, sample : 0..4095]

ASSUME FramesAssumption == \A frame \in Frames : Samples(frame) \in Seq(SampleType)

Init ==
  /\ lookupTable \in Tables
  /\ eventId = 0 /\ appended = <<>> /\ data = <<>>
  /\ phase = "building" /\ rows = {}

\* PadLookupTable::Find, for a table that is not empty.
Find(addr) == IF addr \in DOMAIN lookupTable THEN lookupTable[addr] ELSE MissingValue

TableIsEmpty == DOMAIN lookupTable = {}

-----------------------------------------------------------------------------
(* AppendFrame *)

AddressesOf(frame) == {Samples(frame)[i].addr : i \in DOMAIN Samples(frame)}

\* Fault: a new trace is not given its size.
UnsizedTraces(new) == {[addr \in new |-> <<>>]}

\* A trace that was just made by data[hwaddr] gets one element for every time
\* bucket, whose values are not set.
Sized(new) == {[addr \in new |-> f[addr]] : f \in [new -> [TimeBuckets -> Garbage]]}

\* Fault: a sample is only stored if its time bucket has none yet.
FirstSample(traces, s) ==
  [traces EXCEPT ![s.addr][s.tb] = IF @ = 0 THEN s.sample ELSE @]

StoreSample(traces, s) == [traces EXCEPT ![s.addr][s.tb] = s.sample]

\* The loop over the items of a frame.
StoredUpTo(traces, samples) ==
  LET stored[n \in 0..Len(samples)] ==
        IF n = 0 THEN traces ELSE StoreSample(stored[n - 1], samples[n])
  IN  stored
StoreSamples(traces, samples) == StoredUpTo(traces, samples)[Len(samples)]

\* Find throws Not_Init for an empty table; no one catches it.
AppendFrame(frame) ==
  /\ phase = "building" /\ Len(appended) < MaxFrames
  /\ eventId' = IF appended = <<>> THEN frame.eventId ELSE eventId
  /\ appended' = Append(appended, frame)
  /\ IF TableIsEmpty /\ Samples(frame) # <<>>
       THEN phase' = "terminated" /\ UNCHANGED data
       ELSE /\ UNCHANGED phase
            /\ \E new \in Sized(AddressesOf(frame) \ DOMAIN data) :
                 data' = StoreSamples(
                           [addr \in DOMAIN data \cup DOMAIN new |->
                              IF addr \in DOMAIN data THEN data[addr] ELSE new[addr]],
                           Samples(frame))
  /\ UNCHANGED <<lookupTable, rows>>

-----------------------------------------------------------------------------
(* SubtractFPN *)

\* Division of integers rounds towards zero.
Quotient(n, d) == IF n < 0 THEN -((-n) \div d) ELSE n \div d

FPNTraces(aget) == {i \in DOMAIN FPNChannels : <<aget, FPNChannels[i]>> \in DOMAIN data}
FPNSet == {FPNChannels[i] : i \in DOMAIN FPNChannels}

\* The loop over fpn_channels, which adds up what each of them contributes.
SumUpTo(terms) ==
  LET sum[n \in 0..Len(terms)] == IF n = 0 THEN 0 ELSE sum[n - 1] + terms[n]
  IN  sum
SumOf(terms) == SumUpTo(terms)[Len(terms)]

FPNSample(aget, tb, i) ==
  IF i \in FPNTraces(aget) THEN data[<<aget, FPNChannels[i]>>][tb] ELSE 0

Total(aget, tb) == SumOf([i \in DOMAIN FPNChannels |-> FPNSample(aget, tb, i)])

\* tb_multip: each FPN channel may be missing different time buckets.
Multiplicity(aget, tb) ==
  SumOf([i \in DOMAIN FPNChannels |-> IF FPNSample(aget, tb, i) # 0 THEN 1 ELSE 0])

\* Fault: the total is divided by the number of channels.
MeanOfAllFPN(aget, tb) == Quotient(Total(aget, tb), Cardinality(FPNTraces(aget)))

MeanFPN(aget, tb) ==
  IF Multiplicity(aget, tb) = 0
    THEN 0 ELSE Quotient(Total(aget, tb), Multiplicity(aget, tb))

NonzeroMeans(aget) == {tb \in TimeBuckets : MeanFPN(aget, tb) # 0}

\* renormalizeVectorToZero divides by the number of elements that are not
\* zero, and crashes when there are none.  Otherwise it has no effect, for it
\* changes a copy of the vector.
RenormalizeCrashes(aget) == FPNTraces(aget) # {} /\ NonzeroMeans(aget) = {}

\* Fault: every trace without a pad is erased.
ErasedUnmapped(aget) == {addr \in {aget} \X Channels : Find(addr) = MissingValue}

\* The traces of the FPN channels are erased under the address with no pad.
Erased(aget) ==
  IF FPNTraces(aget) = {} THEN {}
  ELSE {addr \in {aget} \X FPNSet : Find(addr) = MissingValue}

\* The mean is subtracted from copies of the traces: only the erasing is seen.
SubtractFPN ==
  /\ phase = "building" /\ appended # <<>>
  /\ IF TableIsEmpty \/ \E aget \in KnownAgets : RenormalizeCrashes(aget)
       THEN phase' = "terminated" /\ UNCHANGED data
       ELSE /\ phase' = "processed"
            /\ data' = [addr \in DOMAIN data \ UNION {Erased(aget) : aget \in KnownAgets}
                         |-> data[addr]]
  /\ UNCHANGED <<lookupTable, eventId, appended, rows>>

-----------------------------------------------------------------------------
(* HDFDataStore::writeEvent: one row for each trace, its address, its pad    *)
(* and its samples, in a dataset named by the event id.                      *)

WriteEvent ==
  /\ phase = "processed"
  /\ rows' = {[name |-> eventId, addr |-> addr, pad |-> Find(addr), samples |-> data[addr]] :
                addr \in DOMAIN data}
  /\ phase' = "written"
  /\ UNCHANGED <<lookupTable, eventId, appended, data>>

Terminated == phase \in {"written", "terminated"} /\ UNCHANGED vars

Next ==
  \/ \E frame \in Frames : AppendFrame(frame)
  \/ SubtractFPN \/ WriteEvent \/ Terminated

Spec == Init /\ [][Next]_vars

-----------------------------------------------------------------------------
(* Properties *)

Appended == UNION {AddressesOf(appended[i]) : i \in DOMAIN appended}
\* The samples that came for an element of a trace: the k-th of the i-th frame.
EntriesOf(i, addr, tb) ==
  {k \in DOMAIN Samples(appended[i]) :
     Samples(appended[i])[k].addr = addr /\ Samples(appended[i])[k].tb = tb}
Entries(addr, tb) ==
  UNION {{<<i, k>> : k \in EntriesOf(i, addr, tb)} : i \in DOMAIN appended}
\* It came after another one.
After(e, f) == e[1] > f[1] \/ (e[1] = f[1] /\ e[2] > f[2])
Last(e, entries) == \A f \in entries : ~After(f, e)

\* Every variable has its type; a trace has a value for each time bucket.
TypeOK ==
  /\ lookupTable \in Tables
  /\ appended \in Seq(Frames) /\ Len(appended) <= MaxFrames
  /\ DOMAIN data \subseteq Addresses
  /\ \A addr \in DOMAIN data : data[addr] \in [TimeBuckets -> Int]
  /\ phase \in {"building", "processed", "written", "terminated"}

\* A trace holds, for each time bucket a sample has come for, the last one
\* that came, also when it came with another frame; noise subtraction and
\* later frames leave it as it is.  (Event::AppendFrame 107-129)
LastSampleKept ==
  \A addr \in DOMAIN data, tb \in TimeBuckets :
    \A e \in Entries(addr, tb) :
      Last(e, Entries(addr, tb)) => data[addr][tb] = Samples(appended[e[1]])[e[2]].sample

\* The dataset has at most one row for each address, none for an address no
\* sample came for, and no channel with a signal is lost with the noise: only
\* FPN channels may be missing.  Those of a known AGET without a pad are.
\* (Event::SubtractFPN 222-228, HDFDataStore::writeEvent)  Event.h:94 has the
\* FPN channels deleted; the code leaves those that the lookup table gives a
\* pad or whose board is not known, of which nothing is asserted.
OneRowPerTrace ==
  phase = "written" =>
    /\ \A r1, r2 \in rows : r1.addr = r2.addr => r1 = r2
    /\ \A r \in rows :
         /\ r.addr \in Appended
         /\ r.addr[1] \in KnownAgets /\ r.addr[2] \in FPNSet => r.pad # MissingValue
    /\ \A addr \in Appended : addr[2] \notin FPNSet => \E r \in rows : r.addr = addr

\* GRAW.rst:64-66: coboId is 0 for all CoBos, "and the correct CoBo number
\* should be found from the filename"; GRAWFile.h:53 has OpenFileForRead extract
\* it.  So the CoBo of a row is one whose file held samples of the row.
RowsNameTheirBoard ==
  \A r \in rows : \E i \in DOMAIN appended :
    r.addr \in AddressesOf(appended[i]) /\ r.addr[1][1] = appended[i].mm

PresentFPN(aget) == {FPNChannels[i] : i \in FPNTraces(aget)}
Complete(addr) == \A tb \in TimeBuckets : Entries(addr, tb) # {}

\* An event whose FPN traces miss no sample, and are not all silent on any
\* AGET, is written.  (The mean of samples one of which is positive does not
\* round to zero, because zeros are not counted.)
CompleteEventsSurvive ==
  ( /\ ~TableIsEmpty
    /\ \A addr \in Appended : addr[2] \in FPNSet => Complete(addr)
    /\ \A aget \in KnownAgets : PresentFPN(aget) # {} =>
         \E ch \in PresentFPN(aget), tb \in TimeBuckets : data[<<aget, ch>>][tb] # 0 )
  => phase # "terminated"

Renormalized(aget, tb) ==
  MeanFPN(aget, tb)
    - Quotient(MapThenSumSet(LAMBDA t : MeanFPN(aget, t), TimeBuckets),
               Cardinality(NonzeroMeans(aget)))

\* Event.h:87-93: the average of the FPN channels, renormalized, is subtracted
\* from all other channels of the AGET.
NoiseSubtracted ==
  [][phase' = "processed" =>
       \A aget \in KnownAgets, ch \in Channels \ FPNSet, tb \in TimeBuckets :
         (PresentFPN(aget) # {} /\ <<aget, ch>> \in DOMAIN data) =>
           data'[<<aget, ch>>][tb] = data[<<aget, ch>>][tb] - Renormalized(aget, tb)]_vars
=============================================================================
