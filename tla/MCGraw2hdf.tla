------------------------------ MODULE MCGraw2hdf ------------------------------
(* Values for the constants of Graw2hdf. *)
EXTENDS Graw2hdf

Cmd(lookup, input) == [valid |-> TRUE, help |-> FALSE, lookup |-> lookup, input |-> input]
MCCommands ==
  { Cmd("file", "directory"), Cmd("none", "directory"), Cmd("file", "none"),
    Cmd("absent", "directory"), Cmd("file", "absent"), Cmd("inaccessible", "absent"),
    Cmd("file", "inaccessible"), Cmd("unreadable", "directory"),
    Cmd("directory", "directory"), Cmd("file", "file"),
    [Cmd("file", "directory") EXCEPT !.valid = FALSE],
    [Cmd("file", "directory") EXCEPT !.help = TRUE] }

\* No lines; an address listed twice, and the empty line after the last; a
\* line to skip and the limits of the addresses; numbers too large for their
\* types; lines with too few and too many elements; lines stoi throws on.
MCTables ==
  { << <<Blank>> >>,
    << <<0, 1, 2, 67, 5>>, <<0, 1, 2, 66, 7>>, <<0, 1, 2, 67, 6>>, <<0, 1, 3, 0, 8>>, <<Blank>> >>,
    << <<-1, 0, 0, 0, 9>>, <<9, 3, 3, 67, 65535>>, <<9, 3, 3, 67, 0>>, <<10, 0, 0, 0, 1>> >>,
    << <<256, 0, 0, 1, 65536>>, <<0, 0, 0, 1, 4>>, <<0, 0, 0, 100, 4>>, <<0, 0, 1, 0, 3>> >>,
    << <<0, 1>>, <<1, 1, 1, 1, 1, 2>>, <<0, 1, 1, 1, 2>> >>,
    << <<0, 0, 0, 0, 1>>, <<0, 0, 0, 1, Text>> >>,
    << <<0, 0, 0, 0, Blank>> >> }

MCFileIds == {"a", "b", "c"}
File(id) == [link |-> FALSE, graw |-> TRUE, to |-> id]
Link(id) == [link |-> TRUE, graw |-> TRUE, to |-> id]
Dir == [link |-> FALSE, graw |-> FALSE, to |-> "directory"]
Other(id) == [link |-> FALSE, graw |-> FALSE, to |-> id]

\* Nothing to merge; directories of files; links to a file, to a file also
\* found without it, to a directory, to nowhere; a directory that is closed;
\* files with another name, and a link with the right one.
MCTrees ==
  { <<>>, <<Dir>>, <<Dir, File("a"), File("b")>>, <<Link("a"), Dir, File("b"), Link("b")>>,
    <<File("a"), Link("directory"), Link("closed")>>, <<File("a"), Link("nowhere")>>,
    <<File("a"), [Dir EXCEPT !.to = "closed"]>>, <<Other("c"), File("b")>>,
    <<Other("c"), Link("c")>>, <<Dir, File("b"), Dir, File("a")>> }

Good == [regular |-> TRUE, graw |-> TRUE, readable |-> TRUE, long |-> TRUE]
MCFiles ==
  { [a |-> f, b |-> Good, c |-> g] :
      f \in {Good, [Good EXCEPT !.readable = FALSE], [Good EXCEPT !.long = FALSE],
             [Good EXCEPT !.regular = FALSE]},
      g \in {[Good EXCEPT !.graw = FALSE]} }
=============================================================================
