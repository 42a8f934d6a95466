------------------------------ MODULE MCGRAWFile ------------------------------
(* Files for GRAWFile, made from the frames that were written to them. *)
EXTENDS GRAWFile, SequencesExt

MCEventIds == 0..3

Frame(e, s) == [evt |-> e, size |-> s]
Block(m, s, e) == [meta |-> m, size |-> s, evt |-> e]

\* The frames with the blocks they begin at.
Placed(fs) ==
  [i \in DOMAIN fs |->
     [evt |-> fs[i].evt, size |-> fs[i].size,
      at |-> FoldLeft(LAMBDA n, f : n + f.size, 0, SubSeq(fs, 1, i - 1))]]

\* The blocks of a frame: its header, and data that may look like a header.
Lay(f, filler) == <<Block(8, f.size, f.evt)>> \o [i \in 1..(f.size - 1) |-> filler]
Layout(written, filler) == FlattenSeq([i \in DOMAIN written |-> Lay(written[i], filler)])

Fillers == {Block(8, 1, 3), Block(0, 0, 0)}
Nothing == [bytes |-> 0, block |-> Block(0, 0, 0)]

WrittenFrames == {
  <<Frame(0, 1), Frame(1, 2), Frame(2, 1), Frame(3, 2)>>,
  <<Frame(2, 2), Frame(1, 1), Frame(2, 3)>>,
  <<Frame(1, 3), Frame(0, 1)>>,
  <<Frame(1, 2)>> }

Intact ==
  {[blocks |-> Layout(w, f), tail |-> Nothing, written |-> Placed(w), damage |-> "none"] :
     w \in WrittenFrames, f \in Fillers}

\* A file that was cut off in block n + 1, or at its beginning.
Cut(c, n, bytes) ==
  [c EXCEPT !.blocks = SubSeq(@, 1, n), !.damage = "cut",
            !.tail = [bytes |-> bytes, block |-> c.blocks[n + 1]]]
CutFiles ==
  UNION {{Cut(c, n, b) : n \in 1..(Len(c.blocks) - 1), b \in {0, 2, 10, 100}} : c \in Intact}

\* A file in which the header of one block has been overwritten; a size of
\* SizeMod + 1 does not fit into the variable that holds it.
Overwritten ==
  UNION {{[c EXCEPT !.blocks[n] = b, !.damage = "overwritten"] :
            n \in DOMAIN c.blocks,
            b \in {Block(8, 0, 1), Block(8, SizeMod + 1, 1), Block(1, 1, 1)}} :
         c \in Intact}

MCContents == Intact \cup CutFiles \cup Overwritten
=============================================================================
