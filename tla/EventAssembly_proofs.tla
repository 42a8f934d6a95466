-------------------------- MODULE EventAssembly_proofs --------------------------
(***************************************************************************)
(* What holds of any assembly of events, and so of everything that         *)
(* implements it.                                                          *)
(***************************************************************************)
EXTENDS EventAssembly, TLAPS

Event == [eventId : EventIds, frames : Seq(Nat)]

TypeOK ==
  /\ ids \in Seq(EventIds)
  /\ open \in [EventIds -> Seq(Nat)]
  /\ published \in Seq(Event)
  /\ discarded \subseteq 1..Len(ids)

\* A list of frames of the event e, in order of arrival; I are the event ids.
FramesOf(I, e, frames) ==
  /\ \A a \in DOMAIN frames : frames[a] \in 1..Len(I) /\ I[frames[a]] = e
  /\ \A a, b \in DOMAIN frames : a < b => frames[a] < frames[b]

(* Every list of frames, open or published, is of its own event.           *)
OwnFrames ==
  /\ \A e \in EventIds : FramesOf(ids, e, open[e])
  /\ \A i \in DOMAIN published : FramesOf(ids, published[i].eventId, published[i].frames)

(* No event is published twice, and none is open again that was.           *)
OnceOnly ==
  /\ \A i, j \in DOMAIN published : published[i].eventId = published[j].eventId => i = j
  /\ \A e \in PublishedIds : open[e] = <<>>

Holds(frames, t) == \E a \in DOMAIN frames : frames[a] = t

(* Every frame that has arrived is discarded or in a list, and not both.   *)
EachSomewhere ==
  \A t \in 1..Len(ids) :
    t \in discarded <=>
      /\ ~Holds(open[ids[t]], t)
      /\ \A i \in DOMAIN published : ~Holds(published[i].frames, t)

(* No event is published without a frame, and a frame is only discarded if *)
(* its event is published.                                                 *)
NothingMadeUp ==
  /\ \A i \in DOMAIN published : published[i].frames # <<>>
  /\ \A t \in discarded : t \in 1..Len(ids) /\ ids[t] \in PublishedIds

Inv == TypeOK /\ OwnFrames /\ OnceOnly /\ EachSomewhere

-----------------------------------------------------------------------------

LEMMA InitInv == Init => Inv
<1> SUFFICES ASSUME Init PROVE Inv
  OBVIOUS
<1> USE DEF Init
<1>1. \A S : <<>> \in Seq(S)
  OBVIOUS
<1>2. Len(<<>>) = 0 /\ DOMAIN <<>> = {} /\ 1..0 = {}
  OBVIOUS
<1>3. TypeOK
  BY <1>1 DEF TypeOK
<1>4. OwnFrames
  BY <1>2 DEF OwnFrames, FramesOf
<1>5. OnceOnly /\ EachSomewhere
  BY <1>2 DEF OnceOnly, EachSomewhere, PublishedIds
<1> QED BY <1>3, <1>4, <1>5 DEF Inv

(* A frame that arrives leaves what there is to say of earlier lists.      *)
LEMMA Arrival ==
  ASSUME Inv, NEW e \in EventIds, ids' = Append(ids, e)
  PROVE  /\ ids' \in Seq(EventIds) /\ Len(ids') = Len(ids) + 1 /\ Len(ids) \in Nat
         /\ ids'[Len(ids) + 1] = e /\ \A t \in 1..Len(ids) : ids'[t] = ids[t]
         /\ 1..Len(ids') = 1..Len(ids) \cup {Len(ids) + 1}
         /\ \A c \in EventIds, frames \in Seq(Nat) : FramesOf(ids, c, frames) => FramesOf(ids', c, frames)
         /\ \A c \in EventIds : ~Holds(open[c], Len(ids) + 1)
         /\ \A i \in DOMAIN published : ~Holds(published[i].frames, Len(ids) + 1)
<1>1. ids \in Seq(EventIds) /\ Len(ids) \in Nat
  BY DEF Inv, TypeOK
<1>2. /\ ids' \in Seq(EventIds) /\ Len(ids') = Len(ids) + 1
      /\ ids'[Len(ids) + 1] = e /\ \A t \in 1..Len(ids) : ids'[t] = ids[t]
  BY <1>1
<1>3. 1..Len(ids') = 1..Len(ids) \cup {Len(ids) + 1}
  BY <1>1, <1>2
<1>4. \A c \in EventIds, frames \in Seq(Nat) : FramesOf(ids, c, frames) => FramesOf(ids', c, frames)
  BY <1>2, <1>3 DEF FramesOf
<1>5. ~(Len(ids) + 1 \in 1..Len(ids))
  BY <1>1
<1>6. \A c \in EventIds : ~Holds(open[c], Len(ids) + 1)
  BY <1>5 DEF Inv, OwnFrames, FramesOf, Holds
<1>7. \A i \in DOMAIN published : ~Holds(published[i].frames, Len(ids) + 1)
  BY <1>5 DEF Inv, OwnFrames, FramesOf, Holds
<1> QED BY <1>1, <1>2, <1>3, <1>4, <1>6, <1>7

LEMMA AddInv == ASSUME Inv, NEW e \in EventIds, Add(e) PROVE Inv'
<1> DEFINE n == Len(ids) + 1
<1>1. /\ e \notin PublishedIds
      /\ ids' = Append(ids, e) /\ open' = [open EXCEPT ![e] = Append(@, n)]
      /\ published' = published /\ discarded' = discarded
  BY DEF Add
<1>2. /\ ids' \in Seq(EventIds) /\ Len(ids') = n /\ Len(ids) \in Nat
      /\ ids'[n] = e /\ \A t \in 1..Len(ids) : ids'[t] = ids[t]
      /\ 1..Len(ids') = 1..Len(ids) \cup {n}
      /\ \A c \in EventIds, frames \in Seq(Nat) : FramesOf(ids, c, frames) => FramesOf(ids', c, frames)
      /\ \A c \in EventIds : ~Holds(open[c], n)
      /\ \A i \in DOMAIN published : ~Holds(published[i].frames, n)
  BY <1>1, Arrival
<1>3. open[e] \in Seq(Nat) /\ open \in [EventIds -> Seq(Nat)] /\ published \in Seq(Event)
  BY DEF Inv, TypeOK
<1> HIDE DEF n
<1>4. n \in Nat
  BY <1>2 DEF n
<1>5. /\ open'[e] = Append(open[e], n) /\ open'[e] \in Seq(Nat)
      /\ \A c \in EventIds \ {e} : open'[c] = open[c]
  BY <1>1, <1>3, <1>4
<1>6. /\ DOMAIN open[e] = 1..Len(open[e]) /\ Len(open[e]) \in Nat
      /\ DOMAIN open'[e] = 1..(Len(open[e]) + 1)
      /\ \A a \in DOMAIN open[e] : open'[e][a] = open[e][a]
      /\ open'[e][Len(open[e]) + 1] = n
  BY <1>3, <1>4, <1>5
<1>7. TypeOK'
  <2>1. open' \in [EventIds -> Seq(Nat)]
    BY <1>1, <1>3, <1>4
  <2>2. discarded' \subseteq 1..Len(ids')
    BY <1>1, <1>2 DEF Inv, TypeOK
  <2> QED BY <1>1, <1>2, <1>3, <2>1, <2>2 DEF TypeOK
<1>8. OwnFrames'
  <2>1. FramesOf(ids', e, open'[e])
    <3>1. FramesOf(ids, e, open[e])
      BY DEF Inv, OwnFrames
    <3>2. ASSUME NEW a \in DOMAIN open'[e]
          PROVE  open'[e][a] \in 1..Len(ids') /\ ids'[open'[e][a]] = e
      <4>1. CASE a = Len(open[e]) + 1
        BY <4>1, <1>2, <1>6
      <4>2. CASE a \in DOMAIN open[e]
        <5>1. open[e][a] \in 1..Len(ids) /\ ids[open[e][a]] = e
          BY <4>2, <3>1 DEF FramesOf
        <5> QED BY <4>2, <5>1, <1>2, <1>6
      <4> QED BY <4>1, <4>2, <1>6
    <3>3. ASSUME NEW a \in DOMAIN open'[e], NEW b \in DOMAIN open'[e], a < b
          PROVE  open'[e][a] < open'[e][b]
      <4>1. a \in DOMAIN open[e] /\ open'[e][a] = open[e][a] /\ open[e][a] \in 1..Len(ids)
        BY <1>6, <3>1, <3>3 DEF FramesOf
      <4>2. CASE b = Len(open[e]) + 1
        BY <4>1, <4>2, <1>2, <1>6 DEF n
      <4>3. CASE b \in DOMAIN open[e]
        BY <4>1, <4>3, <1>6, <3>1, <3>3 DEF FramesOf
      <4> QED BY <4>2, <4>3, <1>6
    <3> QED BY <3>2, <3>3 DEF FramesOf
  <2>2. ASSUME NEW c \in EventIds, c # e PROVE FramesOf(ids', c, open'[c])
    <3>1. open'[c] = open[c] /\ open[c] \in Seq(Nat)
      BY <2>2, <1>3, <1>5
    <3>2. FramesOf(ids, c, open[c])
      BY DEF Inv, OwnFrames
    <3> QED BY <3>1, <3>2, <1>2
  <2>3. ASSUME NEW i \in DOMAIN published'
        PROVE  FramesOf(ids', published'[i].eventId, published'[i].frames)
    <3>1. i \in DOMAIN published /\ published[i] \in Event
      BY <1>1, <1>3, <2>3
    <3> QED BY <3>1, <1>1, <1>2 DEF Inv, OwnFrames, FramesOf, Event
  <2> QED BY <2>1, <2>2, <2>3 DEF OwnFrames
<1>9. OnceOnly'
  <2>1. \A c \in PublishedIds : c \in EventIds /\ c # e
    <3> SUFFICES ASSUME NEW c \in PublishedIds PROVE c \in EventIds /\ c # e
      OBVIOUS
    <3>1. PICK i \in DOMAIN published : c = published[i].eventId
      BY DEF PublishedIds
    <3>2. published[i] \in Event
      BY <1>3
    <3> QED BY <1>1, <3>1, <3>2 DEF Event
  <2>2. PublishedIds' = PublishedIds
    BY <1>1 DEF PublishedIds
  <2> QED BY <1>1, <1>5, <2>1, <2>2 DEF Inv, OnceOnly
<1>10. EachSomewhere'
  <2> SUFFICES ASSUME NEW t \in 1..Len(ids')
               PROVE  t \in discarded <=>
                        /\ ~Holds(open'[ids'[t]], t)
                        /\ \A i \in DOMAIN published : ~Holds(published[i].frames, t)
    BY <1>1, SMTT(30) DEF EachSomewhere, Holds
  <2>1. CASE t = n
    <3>1. t \notin discarded
      BY <2>1, <1>2 DEF Inv, TypeOK, n
    <3>2. Holds(open'[ids'[t]], t)
      BY <2>1, <1>2, <1>6 DEF Holds
    <3> QED BY <3>1, <3>2
  <2>2. CASE t \in 1..Len(ids)
    <3>1. ids'[t] = ids[t] /\ ids[t] \in EventIds /\ t # n
      BY <2>2, <1>2 DEF Inv, TypeOK, n
    <3>2. Holds(open'[ids[t]], t) <=> Holds(open[ids[t]], t)
      <4>1. CASE ids[t] = e
        BY <4>1, <3>1, <1>6 DEF Holds
      <4>2. CASE ids[t] # e
        BY <4>2, <3>1, <1>5
      <4> QED BY <4>1, <4>2
    <3> QED BY <2>2, <3>1, <3>2 DEF Inv, EachSomewhere
  <2> QED BY <2>1, <2>2, <1>2
<1> QED BY <1>7, <1>8, <1>9, <1>10 DEF Inv

LEMMA DiscardInv == ASSUME Inv, NEW e \in EventIds, Discard(e) PROVE Inv'
<1> DEFINE n == Len(ids) + 1
<1>1. /\ e \in PublishedIds
      /\ ids' = Append(ids, e) /\ discarded' = discarded \cup {n}
      /\ open' = open /\ published' = published
  BY DEF Discard
<1>2. /\ ids' \in Seq(EventIds) /\ Len(ids') = n /\ Len(ids) \in Nat
      /\ ids'[n] = e /\ \A t \in 1..Len(ids) : ids'[t] = ids[t]
      /\ 1..Len(ids') = 1..Len(ids) \cup {n}
      /\ \A c \in EventIds, frames \in Seq(Nat) : FramesOf(ids, c, frames) => FramesOf(ids', c, frames)
      /\ \A c \in EventIds : ~Holds(open[c], n)
      /\ \A i \in DOMAIN published : ~Holds(published[i].frames, n)
  BY <1>1, Arrival
<1>3. open \in [EventIds -> Seq(Nat)] /\ published \in Seq(Event) /\ discarded \subseteq 1..Len(ids)
  BY DEF Inv, TypeOK
<1>4. n \notin 1..Len(ids)
  BY <1>2
<1> HIDE DEF n
<1>5. TypeOK'
  BY <1>1, <1>2, <1>3 DEF TypeOK
<1>6. OwnFrames'
  <2>1. ASSUME NEW c \in EventIds PROVE FramesOf(ids', c, open'[c])
    <3>1. open[c] \in Seq(Nat) /\ FramesOf(ids, c, open[c])
      BY <1>3 DEF Inv, OwnFrames
    <3> QED BY <3>1, <1>1, <1>2
  <2>2. ASSUME NEW i \in DOMAIN published'
        PROVE  FramesOf(ids', published'[i].eventId, published'[i].frames)
    <3>1. i \in DOMAIN published /\ published[i] \in Event
      BY <1>1, <1>3, <2>2
    <3> QED BY <3>1, <1>1, <1>2 DEF Inv, OwnFrames, Event
  <2> QED BY <2>1, <2>2 DEF OwnFrames
<1>7. OnceOnly'
  BY <1>1 DEF Inv, OnceOnly, PublishedIds
<1>8. EachSomewhere'
  <2> SUFFICES ASSUME NEW t \in 1..Len(ids')
               PROVE  t \in discarded' <=>
                        /\ ~Holds(open[ids'[t]], t)
                        /\ \A i \in DOMAIN published : ~Holds(published[i].frames, t)
    BY <1>1 DEF EachSomewhere, Holds
  <2>1. CASE t = n
    BY <2>1, <1>1, <1>2
  <2>2. CASE t \in 1..Len(ids)
    <3>1. ids'[t] = ids[t] /\ t # n
      BY <2>2, <1>2, <1>4
    <3> QED BY <2>2, <3>1, <1>1 DEF Inv, EachSomewhere
  <2> QED BY <2>1, <2>2, <1>2
<1> QED BY <1>5, <1>6, <1>7, <1>8 DEF Inv

LEMMA PublishInv == ASSUME Inv, NEW e \in EventIds, Publish(e) PROVE Inv'
<1> DEFINE p == [eventId |-> e, frames |-> open[e]]
           n == Len(published) + 1
<1>1. /\ open[e] # <<>> /\ published' = Append(published, p)
      /\ open' = [open EXCEPT ![e] = <<>>]
      /\ ids' = ids /\ discarded' = discarded
  BY DEF Publish
<1>2. open \in [EventIds -> Seq(Nat)] /\ published \in Seq(Event)
  BY DEF Inv, TypeOK
<1>3. p \in Event /\ p.eventId = e /\ p.frames = open[e]
  BY <1>2 DEF Event
<1> HIDE DEF p
<1>4. /\ published' \in Seq(Event) /\ Len(published) \in Nat
      /\ DOMAIN published = 1..Len(published) /\ DOMAIN published' = DOMAIN published \cup {n}
      /\ n \notin DOMAIN published /\ published'[n] = p
      /\ \A i \in DOMAIN published : published'[i] = published[i]
  BY <1>1, <1>2, <1>3
<1> HIDE DEF n
<1>5. /\ open' \in [EventIds -> Seq(Nat)] /\ open'[e] = <<>>
      /\ \A c \in EventIds \ {e} : open'[c] = open[c]
  <2>1. <<>> \in Seq(Nat)
    OBVIOUS
  <2> QED BY <1>1, <1>2, <2>1
<1>6. TypeOK'
  BY <1>1, <1>4, <1>5 DEF Inv, TypeOK
<1>7. OwnFrames'
  <2>1. ASSUME NEW c \in EventIds PROVE FramesOf(ids, c, open'[c])
    <3>1. CASE c = e
      <4>1. open'[c] = <<>>
        BY <3>1, <1>5
      <4> QED BY <4>1 DEF FramesOf
    <3>2. CASE c # e
      <4>1. open'[c] = open[c]
        BY <3>2, <1>5
      <4> QED BY <4>1 DEF Inv, OwnFrames
    <3> QED BY <3>1, <3>2
  <2>2. ASSUME NEW i \in DOMAIN published'
        PROVE  FramesOf(ids, published'[i].eventId, published'[i].frames)
    BY <1>3, <1>4 DEF Inv, OwnFrames
  <2> QED BY <2>1, <2>2, <1>1 DEF OwnFrames
<1>8. OnceOnly'
  <2>1. \A i \in DOMAIN published : published[i].eventId # e
    BY <1>1 DEF Inv, OnceOnly, PublishedIds
  <2>2. \A i, j \in DOMAIN published' : published'[i].eventId = published'[j].eventId => i = j
    BY <2>1, <1>3, <1>4 DEF Inv, OnceOnly
  <2>3. ASSUME NEW c \in PublishedIds' PROVE open'[c] = <<>>
    <3>1. PICK i \in DOMAIN published' : c = published'[i].eventId
      BY DEF PublishedIds
    <3>2. published'[i] \in Event
      <4> DEFINE q == published'
      <4>1. q \in Seq(Event) /\ i \in DOMAIN q
        BY <1>4
      <4> HIDE DEF q
      <4>2. q[i] \in Event
        BY <4>1
      <4> QED BY <4>2 DEF q
    <3>3. CASE i = n
      BY <3>1, <3>3, <1>3, <1>4, <1>5
    <3>4. CASE i \in DOMAIN published
      <4>1. c \in PublishedIds /\ c # e /\ c \in EventIds
        BY <3>1, <3>2, <3>4, <2>1, <1>4 DEF PublishedIds, Event
      <4> QED BY <4>1, <1>5 DEF Inv, OnceOnly
    <3> QED BY <3>3, <3>4, <1>4
  <2> QED BY <2>2, <2>3 DEF OnceOnly
<1>9. EachSomewhere'
  <2> SUFFICES ASSUME NEW t \in 1..Len(ids)
               PROVE  t \in discarded <=>
                        /\ ~Holds(open'[ids[t]], t)
                        /\ \A i \in DOMAIN published' : ~Holds(published'[i].frames, t)
    BY <1>1, SMTT(30) DEF EachSomewhere, Holds
  <2>1. ids[t] \in EventIds
    BY DEF Inv, TypeOK
  <2>2. ~Holds(<<>>, t)
    BY DEF Holds
  <2>3. CASE ids[t] = e
    BY <2>2, <2>3, <1>3, <1>4, <1>5 DEF Inv, EachSomewhere
  <2>4. CASE ids[t] # e
    <3>1. ~Holds(open[e], t)
      BY <2>4 DEF Inv, OwnFrames, FramesOf, Holds
    <3> QED BY <2>1, <2>4, <3>1, <1>3, <1>4, <1>5 DEF Inv, EachSomewhere
  <2> QED BY <2>3, <2>4
<1> QED BY <1>6, <1>7, <1>8, <1>9 DEF Inv

LEMMA StepInv == Inv /\ [Next]_assemblyVars => Inv'
<1> SUFFICES ASSUME Inv, [Next]_assemblyVars PROVE Inv'
  OBVIOUS
<1>1. CASE UNCHANGED assemblyVars
  BY <1>1 DEF assemblyVars, Inv, TypeOK, OwnFrames, OnceOnly, EachSomewhere,
              PublishedIds, FramesOf, Holds
<1>2. CASE Next
  BY <1>2, AddInv, DiscardInv, PublishInv DEF Next
<1> QED BY <1>1, <1>2

LEMMA StepMakesNothingUp ==
  Inv /\ NothingMadeUp /\ [Next]_assemblyVars => NothingMadeUp'
<1> SUFFICES ASSUME Inv, NothingMadeUp, [Next]_assemblyVars PROVE NothingMadeUp'
  OBVIOUS
<1>1. ids \in Seq(EventIds) /\ published \in Seq(Event) /\ Len(ids) \in Nat /\ Len(published) \in Nat
  BY DEF Inv, TypeOK
<1>2. ASSUME NEW e \in EventIds, ids' = Append(ids, e)
      PROVE  Len(ids') = Len(ids) + 1 /\ ids'[Len(ids) + 1] = e /\ \A t \in 1..Len(ids) : ids'[t] = ids[t]
  BY <1>1, <1>2
<1>3. CASE UNCHANGED assemblyVars
  BY <1>3 DEF assemblyVars, NothingMadeUp, PublishedIds
<1>4. ASSUME NEW e \in EventIds, Add(e) PROVE NothingMadeUp'
  BY <1>1, <1>2, <1>4 DEF Add, NothingMadeUp, PublishedIds
<1>5. ASSUME NEW e \in EventIds, Discard(e) PROVE NothingMadeUp'
  BY <1>1, <1>2, <1>5 DEF Discard, NothingMadeUp, PublishedIds
<1>6. ASSUME NEW e \in EventIds, Publish(e) PROVE NothingMadeUp'
  <2> DEFINE new == [eventId |-> e, frames |-> open[e]]
  <2>1. new \in Event /\ new.frames # <<>>
    BY <1>6 DEF Publish, Inv, TypeOK, Event
  <2>2. published' = Append(published, new) /\ UNCHANGED <<ids, discarded>>
    BY <1>6 DEF Publish
  <2> HIDE DEF new
  <2>3. /\ DOMAIN published' = 1..(Len(published) + 1) /\ DOMAIN published = 1..Len(published)
        /\ \A i \in DOMAIN published : published'[i] = published[i]
        /\ published'[Len(published) + 1] = new
    BY <1>1, <2>1, <2>2
  <2>4. PublishedIds \subseteq PublishedIds'
    BY <1>1, <2>3 DEF PublishedIds
  <2> QED BY <1>1, <2>1, <2>2, <2>3, <2>4 DEF NothingMadeUp
<1> QED BY <1>3, <1>4, <1>5, <1>6 DEF Next

(* In every assembly a list of frames holds only frames of its own event,  *)
(* in their order; an event is published once, not empty, and closed for   *)
(* good; and a frame is discarded exactly if no list holds it, which takes *)
(* that its event is published.                                            *)
THEOREM AssemblyCorrect == Spec => [](OwnFrames /\ OnceOnly /\ EachSomewhere /\ NothingMadeUp)
<1>1. Inv => OwnFrames /\ OnceOnly /\ EachSomewhere
  BY DEF Inv
<1>2. Init => NothingMadeUp
  BY DEF Init, NothingMadeUp
<1> QED BY <1>1, <1>2, InitInv, StepInv, StepMakesNothingUp, PTL DEF Spec
=============================================================================
