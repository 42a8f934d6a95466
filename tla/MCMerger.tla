------------------------------- MODULE MCMerger -------------------------------
(* Values for the constants of Merger. *)
EXTENDS Merger

\* A file with one good frame for each event of the sequence.
Good(evts) == [n \in DOMAIN evts |-> [evt |-> evts[n], kind |-> "ok"]]

MCFiles == 1..3
MCEventIds == 0..7

Kinds(evts, kinds) == [n \in DOMAIN evts |-> [evt |-> evts[n], kind |-> kinds[n]]]

\* Aligned files; files that start later, with the frame of a later event,
\* or end at different times; a file that is too short to be indexed; frames
\* that make the builder throw, and events without FPN signal; more events than
\* the cache, the queue and the writer hold together, beside a file that breaks
\* off while it is indexed; files that last longer than the event ids.
MCDisks == {
  <<Good(<<0, 1, 2>>), Good(<<0, 1, 2>>), Good(<<0, 1, 2>>)>>,
  <<Good(<<0, 1, 2, 3>>), Good(<<2, 3, 4>>), Good(<<1, 2, 3>>)>>,
  <<Good(<<1, 0, 2>>), Good(<<0, 0, 1, 2, 3>>), Good(<<3, 4>>)>>,
  <<Good(<<3, 4>>), Good(<<1, 2, 3>>), Good(<<5, 5>>)>>,
  <<Good(<<0, 1, 2>>), Good(<<0>>), Good(<<0, 1>>)>>,
  <<Good(<<0, 1, 2>>), Kinds(<<0, 1, 2>>, <<"ok", "fatal", "ok">>), Good(<<2, 3>>)>>,
  <<Kinds(<<0, 1, 2>>, <<"deadfpn", "ok", "ok">>), Good(<<0, 1>>), Good(<<1, 2>>)>>,
  <<Good(<<0, 1, 0, 2, 3, 4, 5, 6>>), Good(<<>>), Good(<<0, 1>>)>>,
  <<Good(<<7, 7, 7>>), Good(<<6, 7, 7, 7, 7>>), Good(<<7, 7>>)>> }

\* Two files of a run, the second without a frame for the first event.
MCRunFiles == 1..2
Evts(first, last) == [n \in 1..(last - first + 1) |-> first + n - 1]
MCRunEventIds == 0..23
MCRunDisks == { <<Good(Evts(0, 23)), Good(Evts(1, 23))>> }
=============================================================================
