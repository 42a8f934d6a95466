------------------------------- MODULE MCEvent -------------------------------
(* Values for the constants of Event. *)
EXTENDS Event

MCAgets == {<<0, 1>>, <<12, 1>>}
MCKnownAgets == {<<0, 1>>}
MCChannels == {1, 11, 22}
MCFPNChannels == <<11, 22>>
MCTimeBuckets == 0..1
MCGarbage == {-1, 0}

Item(ch, tb, s) == [chip |-> 1, channel |-> ch, tb |-> tb, sample |-> s]
Trace(ch, s0, s1) == <<Item(ch, 0, s0), Item(ch, 1, s1)>>
Frame(cobo, mm, items) == [eventId |-> 7, coboId |-> cobo, mm |-> mm, items |-> items]

\* A complete frame, one with a weak FPN channel and one with silent ones; a
\* frame with a sample twice and one missing; one from a CoBo number beyond
\* num_cobos; one with no items.  One of them is in the files of CoBo 1.
MCFrames == {
  Frame(0, 0, Trace(1, 3, 2) \o Trace(11, 2, 1)),
  Frame(0, 0, Trace(22, 0, 1) \o Trace(11, 0, 0)),
  Frame(0, 0, Trace(11, 0, 0)),
  Frame(0, 1, <<Item(1, 0, 1), Item(1, 0, 2), Item(22, 1, 2)>>),
  Frame(12, 12, Trace(11, 1, 0) \o <<Item(1, 1, 1)>>),
  Frame(0, 0, <<>>) }

\* No FPN channel has a pad; one has; no address of the first AGET has one;
\* an empty table.
MCTables == {
  [addr \in MCAgets \X {1} |-> addr[1][1]],
  [addr \in {<<0, 1>>} \X {1, 22} |-> addr[2]],
  [addr \in {<<12, 1>>} \X {1} |-> 5],
  <<>> }
=============================================================================
